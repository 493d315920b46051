------------------------------ MODULE Accounts ------------------------------
(***************************************************************************)
(* Accounts, sessions, invitations, reset and confirmation links           *)
(* (src/internal/auth) under the requests of the console that use them     *)
(* (src/internal/api: account, members, signup, middleware).               *)
(*                                                                         *)
(* A request is a process.  It takes one step per statement or transaction *)
(* it sends to Postgres, which runs them READ COMMITTED: a transaction     *)
(* that locks rows is a step that reads its snapshot and a later one that  *)
(* locks, checks again, writes and commits.  A transaction that waits for  *)
(* ever, is aborted by the database or loses its client is Drop.           *)
(*                                                                         *)
(* An address stands for every spelling of it, as the two unique indexes   *)
(* have it.  A password too short and a body that does not parse are       *)
(* refused before anything happens, and are left out.                      *)
(***************************************************************************)
EXTENDS RateLimit, Roles, TLC

CONSTANTS
  Address, Org, Password, Req, None,
  MaxAccounts,   \* bound: accounts ever created
  MaxClock,      \* bound: ticks of the limiters' clock
  MaxLapses,     \* bound: links that lapse
  Slots,         \* password hashes that may run at once
  Home, Staff,   \* an organization that exists, and its people in turn: [email, role]
  Standing,      \* links mailed before the first request: id |-> link
  Families       \* bound: the operations a behaviour draws its requests from

Account == 1..MaxAccounts
Link == Req \cup DOMAIN Standing
Limiters == {"login", "signup", "forgot", "accept", "redeem", "confirm", "resend"}

Person == [org : Org, email : Address, role : AllRoles, pw : Password, verified : BOOLEAN]

ASSUME AccountsAssumption ==
  /\ Home \in Org
  /\ DOMAIN Staff \subseteq Account
  /\ \A i \in DOMAIN Staff : Staff[i].email \in Address /\ Staff[i].role \in AllRoles
  /\ \E i \in DOMAIN Staff : Staff[i].role = Owner
  /\ MaxAccounts \in Nat /\ MaxClock \in Nat /\ MaxLapses \in Nat /\ Slots \in Nat \ {0}
  /\ "first" \in Password

\* What is mailed already: an invitation, or a reset link of somebody.  None stands for nothing.
ASSUME StandingAssumption ==
  /\ None \notin Person \cup Account \cup Link \cup Limiters \cup {"before"}
  /\ "before" \notin Link
  /\ \A l \in DOMAIN Standing :
       \/ Standing[l] \in [kind : {"invitation"}, state : {"live"}, org : Org, email : Address,
                           role : AllRoles, user : {None}, gen : {0}]
       \/ Standing[l] \in [kind : {"reset"}, state : {"live"}, org : {None}, email : Address,
                           role : {None}, user : DOMAIN Staff, gen : {0}]

VARIABLES
  user,      \* users: account |-> [org, email, role, pw, verified], or None
  org,       \* tenants
  session,   \* sessions: [by, user], by the request or sign-in that made it
  link,      \* invitations, password_resets, email_verifications
  mailed,    \* the links that reached a mailbox
  limit,     \* the server's limiters
  clock, lapses,
  request,   \* what each request has in hand; gen is a ghost, the generation of the password
  offered,   \* the family of this behaviour
  generation,\* ghost: how often the password of an account was replaced
  opened,    \* ghost: session |-> the generation of the password its request had read or chosen
  overtaken, \* ghost: request |-> the generation of the reset that last found it signing in
  origin,    \* ghost: account |-> what made it, kept after it is removed
  charged,   \* ghost: requests that paid for good: <<limiter, key, request>>
  blind      \* ghost: a role was decided with no owner locked

tables == <<user, org, session, link>>
ghosts == <<generation, opened, overtaken, origin, blind>>
accountVars == <<tables, mailed, limit, clock, lapses, request, offered, ghosts, charged>>

Before == "before"

NoLink == [kind |-> "none", state |-> "none", org |-> None, email |-> None, role |-> None,
           user |-> None, gen |-> 0]

\* A request that has nothing in hand yet, and one that has ended.
New == [op |-> "none", step |-> "new", limiter |-> None, key |-> None, actor |-> None,
        user |-> None, held |-> None, pw |-> None, org |-> None, email |-> None, role |-> None,
        owners |-> {}, gen |-> None]
Done == [New EXCEPT !.step = "done"]

-----------------------------------------------------------------------------
Present == {a \in Account : user[a] # None}
Known(e) == \E a \in Present : user[a].email = e
AccountOf(e) == CHOOSE a \in Present : user[a].email = e
Owners(o) == {a \in Present : user[a].org = o /\ user[a].role = Owner}
Unused == {a \in Account : origin[a] = None}
NextAccount == CHOOSE a \in Unused : TRUE

Live(l) == link[l].state = "live"
LinksOf(a, kind) == {l \in Link : link[l].state # "none" /\ link[l].kind = kind /\ link[l].user = a}
WithState(ls, s) == [l \in Link |-> IF l \in ls THEN [link[l] EXCEPT !.state = s] ELSE link[l]]

Step(r, s) == request[r].step = s
At(r, op, s) == request[r].step = s /\ request[r].op = op
Advance(r, s) == request' = [request EXCEPT ![r].step = s]

\* An authenticated request ends; so does one whose cost is settled.
Leave(r) == request' = [request EXCEPT ![r] = Done]

\* A request behind a limiter ends and keeps what it paid.
Pay(r) ==
  /\ Leave(r)
  /\ charged' = charged \cup {<<request[r].limiter, request[r].key, r>>}
  /\ UNCHANGED limit

\* A request behind a limiter ends and is given its token back.
Refund(r) ==
  /\ Leave(r)
  /\ limit' = [limit EXCEPT ![request[r].limiter] = Restored(@, request[r].key)]
  /\ UNCHANGED charged

\* Every public request asks its limiter first, before anything is looked up.
Knock(r, l, k, found, next) ==
  LET ok == Allowed(limit[l], k, clock) IN
  /\ Step(r, "new")
  /\ limit' = [limit EXCEPT ![l] = AfterAllow(@, k, clock)]
  /\ request' = [request EXCEPT ![r] =
       IF ok /\ found THEN [next EXCEPT !.limiter = l, !.key = k] ELSE Done]
  /\ charged' = IF ok /\ ~found THEN charged \cup {<<l, k, r>>} ELSE charged
  /\ UNCHANGED <<tables, mailed, clock, lapses, offered, ghosts>>

-----------------------------------------------------------------------------
\* The gate of the password package
Hashing == {r \in Req : Step(r, "hashing")}

\* mutant: the ceiling is not looked at
AcquireFreely(r) ==
  /\ Step(r, "queue")
  /\ Advance(r, "hashing")
  /\ UNCHANGED <<tables, mailed, limit, clock, lapses, offered, ghosts, charged>>

\* acquire: a slot, or a place in the queue that is given up.
Acquire(r) ==
  /\ Step(r, "queue")
  /\ Cardinality(Hashing) < Slots
  /\ Advance(r, "hashing")
  /\ UNCHANGED <<tables, mailed, limit, clock, lapses, offered, ghosts, charged>>

\* A request shed under load answers 503 and is not charged.
Shed(r) ==
  /\ Step(r, "queue")
  /\ Cardinality(Hashing) >= Slots
  /\ Refund(r)
  /\ UNCHANGED <<tables, mailed, clock, lapses, offered, ghosts>>

\* A session of somebody whose password was read, or chosen, at generation g.
OpenSession(r, a, g) ==
  /\ session' = session \cup {[by |-> r, user |-> a]}
  /\ opened' = [opened EXCEPT ![r] = g]

\* Requests that are about to store a session for the account.
SigningIn(a) == {r \in Req : request[r].op \in {"login", "accept"} /\ request[r].user = a}

-----------------------------------------------------------------------------
\* Signing in and out

\* handleLogin up to the query of Login.  An unknown address is hashed for all the same.
LoginArrive(r) == \E e \in Address, p \in Password :
  /\ "login" \in offered
  /\ Knock(r, "login", e, TRUE,
       [New EXCEPT !.op = "login", !.step = "queue", !.pw = p,
                   !.user = IF Known(e) THEN AccountOf(e) ELSE None,
                   !.held = IF Known(e) THEN user[AccountOf(e)].pw ELSE None,
                   !.gen = IF Known(e) THEN generation[AccountOf(e)] ELSE None])

LoginVerify(r) ==
  /\ At(r, "login", "hashing")
  /\ IF request[r].user # None /\ request[r].held = request[r].pw
     THEN Advance(r, "insert") /\ UNCHANGED <<limit, charged>>
     ELSE Pay(r)
  /\ UNCHANGED <<tables, mailed, clock, lapses, offered, ghosts>>

\* The session is stored whatever became of the password since it was read.  A correct password
\* costs nothing.  sessions.user_id references users: an insert that fails because the account is
\* gone is answered 401 and costs a guess.
LoginInsert(r) ==
  /\ At(r, "login", "insert")
  /\ IF request[r].user \in Present
     THEN OpenSession(r, request[r].user, request[r].gen) /\ Refund(r)
     ELSE Pay(r) /\ UNCHANGED <<session, opened>>
  /\ UNCHANGED <<user, org, link, mailed, clock, lapses, offered, generation, overtaken, origin, blind>>

Logout(r) == \E s \in session :
  /\ "logout" \in offered /\ Step(r, "new")
  /\ session' = session \ {s}
  /\ Leave(r)
  /\ UNCHANGED <<user, org, link, mailed, limit, clock, lapses, offered, ghosts, charged>>

\* Authenticate: a session stands for its account, with the role the account has now.
Principals ==
  {[user |-> s.user, org |-> user[s.user].org, role |-> user[s.user].role] : s \in session}

\* An authenticated request of an operation that needs a capability.
Enter(r, op, need, p, next) ==
  /\ op \in offered /\ Step(r, "new")
  /\ Can(p.role, need)
  /\ request' = [request EXCEPT ![r] = [next EXCEPT !.op = op, !.actor = p]]
  /\ UNCHANGED <<tables, mailed, limit, clock, lapses, offered, ghosts, charged>>

-----------------------------------------------------------------------------
\* Sign-up
SignupArrive(r) == \E e \in Address, o \in Org \ {Home} :
  /\ "signup" \in offered
  /\ Knock(r, "signup", e, TRUE,
       [New EXCEPT !.op = "signup", !.step = "queue", !.org = o, !.pw = "first"])

\* The organization, its owner and the session in one transaction, or nothing.  Then a link to
\* confirm the address is mailed as resend does it, where mail is configured.
SignUp(r) ==
  LET e == request[r].key  o == request[r].org IN
  /\ At(r, "signup", "hashing")
  /\ IF Known(e) \/ o \in org
     THEN Pay(r) /\ UNCHANGED <<tables, generation, opened, origin>>
     ELSE /\ Unused # {}
          /\ org' = org \cup {o}
          /\ user' = [user EXCEPT ![NextAccount] =
               [org |-> o, email |-> e, role |-> Owner, pw |-> request[r].pw, verified |-> FALSE]]
          /\ origin' = [origin EXCEPT ![NextAccount] = r]
          /\ OpenSession(r, NextAccount, generation[NextAccount])
          /\ \/ Pay(r)
             \/ /\ request' = [request EXCEPT ![r].op = "resend", ![r].step = "clear",
                                               ![r].user = NextAccount]
                /\ UNCHANGED <<limit, charged>>
          /\ UNCHANGED <<link, generation>>
  /\ UNCHANGED <<mailed, clock, lapses, offered, overtaken, blind>>

-----------------------------------------------------------------------------
\* Members: SetRole and RemoveMember

RoleArrive(r) == \E p \in Principals, a \in Present, n \in AllRoles :
  Enter(r, "role", "member.manage", p, [New EXCEPT !.step = "owners", !.user = a, !.role = n])

RemoveArrive(r) == \E p \in Principals, a \in Present :
  Enter(r, "remove", "member.manage", p, [New EXCEPT !.step = "owners", !.user = a])

\* lockOwners: the statement's snapshot, before any row is locked.
ReadOwners(r) ==
  /\ Step(r, "owners")
  /\ request' = [request EXCEPT ![r].step = "decide", ![r].owners = Owners(request[r].actor.org)]
  /\ UNCHANGED <<tables, mailed, limit, clock, lapses, offered, ghosts, charged>>

\* mutant: the owners are read and not locked
ReadOnlyOwners(r) == request[r].owners

\* The rows of the snapshot that are locked: Postgres looks at each one again when it has
\* the lock, drops those that are no longer owners, and does not look for new ones.
LockedOwners(r) == request[r].owners \cap Owners(request[r].actor.org)

LastOwner(owners, a) == owners = {a}

\* lockMember and the checks after it.
MayChange(r) ==
  LET a == request[r].user  p == request[r].actor IN
  /\ a \in Present /\ user[a].org = p.org
  /\ CanManage(p.role, user[a].role)

\* SetRole writes a role that is not the one held.
SetRole(r) ==
  LET a == request[r].user  n == request[r].role IN
  /\ At(r, "role", "decide")
  /\ IF /\ MayChange(r) /\ CanGrant(request[r].actor.role, n)
        /\ ~(user[a].role = Owner /\ n # Owner /\ LastOwner(LockedOwners(r), a))
     THEN user' = [user EXCEPT ![a].role = n] /\ blind' = (blind \/ LockedOwners(r) = {})
     ELSE UNCHANGED <<user, blind>>
  /\ Leave(r)
  /\ UNCHANGED <<org, session, link, mailed, limit, clock, lapses, offered,
                 generation, opened, overtaken, origin, charged>>

\* The sessions and the reset and confirmation links of an account go with it.
RemoveMember(r) ==
  LET a == request[r].user IN
  /\ At(r, "remove", "decide")
  /\ IF MayChange(r) /\ ~(user[a].role = Owner /\ LastOwner(LockedOwners(r), a))
     THEN /\ user' = [user EXCEPT ![a] = None]
          /\ session' = {s \in session : s.user # a}
          /\ link' = WithState(LinksOf(a, "reset") \cup LinksOf(a, "confirmation"), "gone")
          /\ blind' = (blind \/ LockedOwners(r) = {})
     ELSE UNCHANGED <<user, session, link, blind>>
  /\ Leave(r)
  /\ UNCHANGED <<org, mailed, limit, clock, lapses, offered, generation, opened, overtaken, origin, charged>>

-----------------------------------------------------------------------------
\* Invitations

Waiting(o, e) ==
  {l \in Link : /\ link[l].state \in {"live", "lapsed"} /\ link[l].kind = "invitation"
                /\ link[l].org = o /\ link[l].email = e}

\* handleInvite and the checks of CreateInvitation: never an owner, never a member again.
InviteArrive(r) == \E p \in Principals, e \in Address, n \in AllRoles \ {Owner} :
  /\ CanGrant(p.role, n)
  /\ ~(Known(e) /\ user[AccountOf(e)].org = p.org)
  /\ Enter(r, "invite", "member.invite", p, [New EXCEPT !.step = "place", !.email = e, !.role = n])

\* An earlier invitation of the address is deleted, not left beside the new one.
CreateInvitation(r) ==
  LET o == request[r].actor.org  e == request[r].email IN
  /\ At(r, "invite", "place")
  /\ link' = [WithState(Waiting(o, e), "gone") EXCEPT ![r] =
       [kind |-> "invitation", state |-> "live", org |-> o, email |-> e,
        role |-> request[r].role, user |-> None, gen |-> 0]]
  /\ Advance(r, "send")
  /\ UNCHANGED <<user, org, session, mailed, limit, clock, lapses, offered, ghosts, charged>>

SendInvitation(r) ==
  /\ At(r, "invite", "send")
  /\ mailed' = mailed \cup {r}
  /\ Leave(r)
  /\ UNCHANGED <<tables, limit, clock, lapses, offered, ghosts, charged>>

\* What cannot be delivered is withdrawn.
WithdrawUnsent(r) ==
  /\ At(r, "invite", "send")
  /\ link' = IF link[r].state = "used" THEN link ELSE WithState({r}, "gone")
  /\ Leave(r)
  /\ UNCHANGED <<user, org, session, mailed, limit, clock, lapses, offered, ghosts, charged>>

\* mutant: an accepted invitation can be withdrawn
RevokeAny(r) == \E p \in Principals, l \in Link :
  /\ "revoke" \in offered /\ Step(r, "new")
  /\ Can(p.role, "member.invite")
  /\ link[l].state # "none" /\ link[l].kind = "invitation" /\ link[l].org = p.org
  /\ link' = WithState({l}, "gone")
  /\ Leave(r)
  /\ UNCHANGED <<user, org, session, mailed, limit, clock, lapses, offered, ghosts, charged>>

\* RevokeInvitation, with the request that asks for it: only one that nobody accepted.
RevokeInvitation(r) == \E p \in Principals, l \in Link :
  /\ "revoke" \in offered /\ Step(r, "new")
  /\ Can(p.role, "member.invite")
  /\ link[l].state \in {"live", "lapsed"} /\ link[l].kind = "invitation" /\ link[l].org = p.org
  /\ link' = WithState({l}, "gone")
  /\ Leave(r)
  /\ UNCHANGED <<user, org, session, mailed, limit, clock, lapses, offered, ghosts, charged>>

\* The token is looked up before the password is hashed, and the answer decides nothing.
AcceptArrive(r) == \E l \in mailed, p \in Password :
  /\ "accept" \in offered /\ link[l].kind = "invitation"
  /\ Knock(r, "accept", l, Live(l),
           [New EXCEPT !.op = "accept", !.step = "queue", !.pw = p])

\* The claim and the read are one statement.
Claims(r) == Live(request[r].key)

\* The claim and the account in one transaction: an address in use leaves the link unspent.
AcceptClaim(r) ==
  LET l == request[r].key IN
  /\ At(r, "accept", "hashing")
  /\ IF Claims(r) /\ ~Known(link[l].email)
     THEN /\ Unused # {}
          /\ link' = WithState({l}, "used")
          /\ user' = [user EXCEPT ![NextAccount] =
               [org |-> link[l].org, email |-> link[l].email, role |-> link[l].role,
                pw |-> request[r].pw, verified |-> TRUE]]
          /\ origin' = [origin EXCEPT ![NextAccount] = l]
          /\ request' = [request EXCEPT ![r].step = "insert", ![r].user = NextAccount,
                                 ![r].gen = generation[NextAccount]]
          /\ UNCHANGED <<limit, charged>>
     ELSE Pay(r) /\ UNCHANGED <<link, user, origin>>
  /\ UNCHANGED <<org, session, mailed, clock, lapses, offered, generation, opened, overtaken, blind>>

\* The account exists whether or not the session does.
AcceptInsert(r) ==
  LET a == request[r].user IN
  /\ At(r, "accept", "insert")
  /\ IF a \in Present THEN OpenSession(r, a, request[r].gen) ELSE UNCHANGED <<session, opened>>
  /\ Pay(r)
  /\ UNCHANGED <<user, org, link, mailed, clock, lapses, offered, generation, overtaken, origin, blind>>

-----------------------------------------------------------------------------
\* Password resets

\* handleForgotPassword: the constant answer; an address nobody has costs the same token.
ForgotArrive(r) == \E e \in Address :
  /\ "forgot" \in offered
  /\ Knock(r, "forgot", e, Known(e),
       [New EXCEPT !.op = "forgot", !.step = "issue",
                   !.user = IF Known(e) THEN AccountOf(e) ELSE None])

\* A row of password_resets, and a mail in the background that arrives or does not.
CreatePasswordReset(r) ==
  LET a == request[r].user IN
  /\ At(r, "forgot", "issue")
  /\ IF a \in Present
     THEN /\ link' = [link EXCEPT ![r] =
               [kind |-> "reset", state |-> "live", org |-> None, email |-> user[a].email,
                role |-> None, user |-> a, gen |-> generation[a]]]
          /\ mailed' \in {mailed, mailed \cup {r}}
     ELSE UNCHANGED <<link, mailed>>
  /\ Pay(r)
  /\ UNCHANGED <<user, org, session, clock, lapses, offered, ghosts>>

\* resetTokenIsLive comes before the hash, and is not what decides.
ResetArrive(r) == \E l \in mailed, p \in Password :
  /\ "reset" \in offered /\ link[l].kind = "reset"
  /\ Knock(r, "redeem", l, Live(l),
           [New EXCEPT !.op = "reset", !.step = "queue", !.pw = p])

\* Who is signing in now is not stopped: there is no session yet to end.
Overtake(a) ==
  overtaken' = [r \in Req \cup {Before} |->
                  IF r \in SigningIn(a) THEN generation[a] + 1 ELSE overtaken[r]]

\* mutant: only the link that was used is spent
ResetPasswordOnly(r) ==
  LET l == request[r].key  a == link[l].user IN
  /\ At(r, "reset", "hashing")
  /\ IF Claims(r)
     THEN /\ user' = [user EXCEPT ![a].pw = request[r].pw]
          /\ generation' = [generation EXCEPT ![a] = @ + 1]
          /\ session' = {s \in session : s.user # a} /\ Overtake(a)
          /\ link' = WithState({l}, "used")
     ELSE UNCHANGED <<user, generation, overtaken, session, link>>
  /\ Pay(r)
  /\ UNCHANGED <<org, mailed, clock, lapses, offered, opened, origin, blind>>

\* Every session of the account ends, and every other reset link it has.
ResetPassword(r) ==
  LET l == request[r].key  a == link[l].user IN
  /\ At(r, "reset", "hashing")
  /\ IF Claims(r)
     THEN /\ user' = [user EXCEPT ![a].pw = request[r].pw]
          /\ generation' = [generation EXCEPT ![a] = @ + 1]
          /\ session' = {s \in session : s.user # a} /\ Overtake(a)
          /\ link' = [WithState({m \in LinksOf(a, "reset") : link[m].state # "used"}, "gone")
                        EXCEPT ![l].state = "used"]
     ELSE UNCHANGED <<user, generation, overtaken, session, link>>
  /\ Pay(r)
  /\ UNCHANGED <<org, mailed, clock, lapses, offered, opened, origin, blind>>

-----------------------------------------------------------------------------
\* Confirming an address

\* handleResendVerification: to the caller's own address, and only one not yet proved.
ResendArrive(r) == \E p \in Principals :
  /\ "resend" \in offered
  /\ Knock(r, "resend", user[p.user].email, ~user[p.user].verified,
       [New EXCEPT !.op = "resend", !.step = "clear", !.user = p.user])

\* CreateEmailVerification deletes the unused links in one statement ...
ClearConfirmations(r) ==
  /\ At(r, "resend", "clear")
  /\ link' = WithState({l \in LinksOf(request[r].user, "confirmation") : link[l].state # "used"},
                       "gone")
  /\ Advance(r, "issue")
  /\ UNCHANGED <<user, org, session, mailed, limit, clock, lapses, offered, ghosts, charged>>

\* ... and stores the new one in another; the mail goes out or the caller is told it did not.
CreateEmailVerification(r) ==
  LET a == request[r].user IN
  /\ At(r, "resend", "issue")
  /\ IF a \in Present
     THEN /\ link' = [link EXCEPT ![r] =
               [kind |-> "confirmation", state |-> "live", org |-> None, email |-> user[a].email,
                role |-> None, user |-> a, gen |-> 0]]
          /\ mailed' \in {mailed, mailed \cup {r}}
     ELSE UNCHANGED <<link, mailed>>
  /\ Pay(r)
  /\ UNCHANGED <<user, org, session, clock, lapses, offered, ghosts>>

\* VerifyEmail, one transaction, for the address the link was issued for.
VerifyEmail(r) == \E l \in mailed :
  /\ "confirm" \in offered /\ link[l].kind = "confirmation" /\ Step(r, "new")
  /\ LET ok == Allowed(limit["confirm"], l, clock)
         a == link[l].user IN
     /\ limit' = [limit EXCEPT !["confirm"] = AfterAllow(@, l, clock)]
     /\ charged' = IF ok THEN charged \cup {<<"confirm", l, r>>} ELSE charged
     /\ IF ok /\ Live(l) /\ user[a].email = link[l].email
        THEN link' = WithState({l}, "used") /\ user' = [user EXCEPT ![a].verified = TRUE]
        ELSE UNCHANGED <<link, user>>
  /\ Leave(r)
  /\ UNCHANGED <<org, session, mailed, clock, lapses, offered, ghosts>>

-----------------------------------------------------------------------------
\* The world: a link lapses, a clock ticks, a client leaves or the database fails.
Lapse(l) ==
  /\ Live(l) /\ lapses < MaxLapses
  /\ lapses' = lapses + 1
  /\ link' = WithState({l}, "lapsed")
  /\ UNCHANGED <<user, org, session, mailed, limit, clock, request, offered, ghosts, charged>>

Tick ==
  /\ clock < MaxClock
  /\ clock' = clock + 1
  /\ UNCHANGED <<tables, mailed, limit, lapses, request, offered, ghosts, charged>>

\* What was committed stays, the slot is given back, and a limiter is told nothing.
Drop(r) ==
  /\ ~Step(r, "new") /\ ~Step(r, "done")
  /\ IF request[r].limiter # None THEN Pay(r) ELSE Leave(r) /\ UNCHANGED <<limit, charged>>
  /\ UNCHANGED <<tables, mailed, clock, lapses, offered, ghosts>>

\* An organization in use: bootstrapIdentity made the first account, the others joined.
AccountsInit ==
  LET seats == DOMAIN Staff IN
  /\ user = [a \in Account |->
       IF a \in seats
       THEN [org |-> Home, email |-> Staff[a].email, role |-> Staff[a].role,
             pw |-> "first", verified |-> FALSE]
       ELSE None]
  /\ session = {[by |-> Before, user |-> a] : a \in seats}
  /\ origin = [a \in Account |-> IF a \in seats THEN Before ELSE None]
  /\ org = {Home}
  /\ link = [l \in Link |-> IF l \in Req THEN NoLink ELSE Standing[l]]
  /\ mailed = DOMAIN Standing
  /\ limit = [l \in Limiters |-> EmptyLimiter]
  /\ clock = 0 /\ lapses = 0
  /\ request = [r \in Req |-> New]
  /\ offered \in Families
  /\ generation = [a \in Account |-> 0]
  /\ opened = [r \in Req \cup {Before} |-> 0]
  /\ overtaken = [r \in Req \cup {Before} |-> None]
  /\ charged = {}
  /\ blind = FALSE

AccountsNext ==
  \/ \E r \in Req :
       \/ LoginArrive(r) \/ LoginVerify(r) \/ LoginInsert(r) \/ Logout(r)
       \/ SignupArrive(r) \/ SignUp(r)
       \/ RoleArrive(r) \/ RemoveArrive(r) \/ ReadOwners(r) \/ SetRole(r) \/ RemoveMember(r)
       \/ InviteArrive(r) \/ CreateInvitation(r) \/ SendInvitation(r) \/ WithdrawUnsent(r)
       \/ RevokeInvitation(r) \/ AcceptArrive(r) \/ AcceptClaim(r) \/ AcceptInsert(r)
       \/ ForgotArrive(r) \/ CreatePasswordReset(r) \/ ResetArrive(r) \/ ResetPassword(r)
       \/ ResendArrive(r) \/ ClearConfirmations(r) \/ CreateEmailVerification(r) \/ VerifyEmail(r)
       \/ Acquire(r) \/ Shed(r) \/ Drop(r)
  \/ \E l \in Link : Lapse(l)
  \/ Tick

AccountsSpec == AccountsInit /\ [][AccountsNext]_accountVars

-----------------------------------------------------------------------------
\* Properties

\* The tables hold what their columns allow, and no more hashes run than there are slots.
AccountsTypeOK ==
  /\ user \in [Account -> Person \cup {None}]
  /\ org \subseteq Org
  /\ session \subseteq [by : Req \cup {Before}, user : Present]
  /\ \A l \in Link : link[l].state \in {"none", "live", "used", "lapsed", "gone"}
  /\ mailed \subseteq Link
  /\ clock \in 0..MaxClock
  /\ \A l \in Limiters : \A k \in DOMAIN limit[l] : limit[l][k].shares \in 0..Full
  /\ Cardinality(Hashing) <= Slots

\* An organization keeps an owner (ErrLastOwner of src/internal/auth), whichever demotions
\* and removals run at once, as long as each of them locked at least one.
OwnerRemains == blind \/ \A o \in org : Owners(o) # {}

\* The rule as it is written, without the exception.
AlwaysAnOwner == \A o \in org : Owners(o) # {}

\* An invitation that was withdrawn or replaced has made nobody an account, and one that was
\* accepted has made exactly one: the claim decides, not the lookup before the hash.
InvitationMakesOneAccount ==
  \A l \in Link :
    LET made == {a \in Account : origin[a] = l} IN
    (link[l].state # "none" /\ link[l].kind = "invitation") =>
      Cardinality(made) = IF link[l].state = "used" THEN 1 ELSE 0

\* A reset takes the account away from whoever had it: every session stored before it is gone, and
\* no reset link issued before it can replace the password again.  A session that is there was
\* opened with the password the account has now -- or by a request that had read the old one, and
\* was between that and storing the session when the last reset was committed: nothing ends it
\* (ResetPassword of src/internal/auth/tokens.go, Login of store.go).
ResetRevokes ==
  /\ \A s \in session : generation[s.user] \in {opened[s.by], overtaken[s.by]}
  /\ \A l \in Link :
       (Live(l) /\ link[l].kind = "reset") => link[l].gen = generation[link[l].user]

\* "Your password has been changed and every other session has been signed out"
\* (src/internal/api/account.go): no session stands on a password that was replaced.
SignedOutEverywhere == \A s \in session : opened[s.by] = generation[s.user]

\* What a limiter lets through is what it has: tokens in hand, in flight and spent for good
\* add up to the burst, plus at most what time gave back.  A shed request and a correct
\* password cost nothing; making room for a key forgives nobody.
BudgetIsExact ==
  \A l \in Limiters :
    LET flying == {r \in Req : request[r].limiter = l}
        keys == {request[r].key : r \in flying} \cup {c[2] : c \in {d \in charged : d[1] = l}}
    IN \A k \in keys :
         LET out == Cardinality({r \in flying : request[r].key = k})
                    + Cardinality({c \in charged : c[1] = l /\ c[2] = k})
             sum == Credit(limit[l], k, clock) + Refill * out
         IN Full <= sum /\ sum <= Full + clock
=============================================================================
