------------------------------- MODULE Roles -------------------------------
(***************************************************************************)
(* src/internal/tenancy: the table of what each role may do, and the two   *)
(* rules built on it.  Authority is asked for with the role the account    *)
(* had when the request was authenticated.                                 *)
(***************************************************************************)
Owner == "owner"
Admin == "admin"
Member == "member"
Viewer == "viewer"
AllRoles == {Owner, Admin, Member, Viewer}

Capabilities ==
  {"goal.read", "subject.load", "goal.run", "change.approve",
   "member.invite", "member.manage", "org.transfer", "org.autonomy"}

\* grants
Grants ==
  [r \in AllRoles |->
     CASE r = Owner  -> Capabilities
       [] r = Admin  -> Capabilities \ {"org.transfer", "org.autonomy"}
       [] r = Member -> {"goal.read", "subject.load", "goal.run", "change.approve"}
       [] r = Viewer -> {"goal.read"}]

\* An unknown role holds nothing.
Can(r, c) == r \in AllRoles /\ c \in Grants[r]

\* One may act on somebody only if one could have granted the role they hold.
CanManage(actor, target) ==
  /\ Can(actor, "member.manage")
  /\ target = Owner => Can(actor, "org.transfer")

CanGrant(actor, target) == CanManage(actor, target)
=============================================================================
