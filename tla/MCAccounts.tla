----------------------------- MODULE MCAccounts -----------------------------
(***************************************************************************)
(* One organization with an owner and an admin, a third person who has     *)
(* been invited, and a reset link on its way to the admin.  A behaviour    *)
(* makes one request per member of Req, all from one family.               *)
(***************************************************************************)
EXTENDS Accounts

CONSTANTS ann, bob, cy, home, other, r1, r2, r3

HomeStaff == <<[email |-> ann, role |-> "owner"], [email |-> bob, role |-> "admin"]>>

Mailed ==
  "invited" :> [kind |-> "invitation", state |-> "live", org |-> home, email |-> cy,
                role |-> "member", user |-> None, gen |-> 0] @@
  "forgotten" :> [kind |-> "reset", state |-> "live", org |-> None, email |-> bob,
                  role |-> None, user |-> 2, gen |-> 0]

EveryFamily ==
  { {"role", "remove"},
    {"login", "forgot", "reset"},
    {"remove", "login"},
    {"invite", "revoke", "accept"},
    {"accept", "signup"},
    {"accept", "remove"},
    {"login", "signup"},
    {"logout", "reset"},
    {"resend", "confirm", "remove"} }

ManagingOnly == { {"role", "remove"} }
SigningInOnly == { {"login", "reset"} }

Alike == Permutations({r1, r2, r3})
=============================================================================
