--------------------------- MODULE AccountsProofs ---------------------------
(***************************************************************************)
(* An organization keeps an owner, an invitation makes one account, a      *)
(* reset ends what was opened before it, and what a limiter lets through   *)
(* is what it has: for any number of requests of every kind, any accounts  *)
(* and any bounds.                                                         *)
(*                                                                         *)
(* Every step of a request is summarised by what it does to the tables,    *)
(* row by row (Opens, Founds, Regrades ...), and again by what it does to  *)
(* the limiters (Questions, Pays, Recovers ...); the properties are then   *)
(* shown of the summaries.                                                 *)
(***************************************************************************)
EXTENDS Accounts, FiniteSetTheorems, TLAPS

Principal == [user : Account, org : Org, role : AllRoles]
Operation == {"none", "login", "signup", "role", "remove", "invite", "accept", "forgot", "reset",
              "resend"}
Stage == {"new", "queue", "hashing", "insert", "owners", "decide", "place", "send", "issue", "clear",
          "done"}
Request ==
  [op : Operation, step : Stage, limiter : Limiters \cup {None},
   key : Address \cup Link \cup {None}, actor : Principal \cup {None}, user : Account \cup {None},
   held : Password \cup {None}, pw : Password \cup {None}, org : Org \cup {None},
   email : Address \cup {None}, role : AllRoles \cup {None}, owners : SUBSET Account,
   gen : Nat \cup {None}]
LinkKind == {"none", "invitation", "reset", "confirmation"}
LinkState == {"none", "live", "used", "lapsed", "gone"}
LinkRow ==
  [kind : LinkKind, state : LinkState, org : Org \cup {None}, email : Address \cup {None},
   role : AllRoles \cup {None}, user : Account \cup {None}, gen : Nat]

\* What an operation was given fits it.
Fits(q) ==
  /\ q.op = "signup" => q.key \in Address /\ q.org \in Org /\ q.pw \in Password
  /\ q.op = "role" => q.role \in AllRoles
  /\ q.op = "invite" => q.email \in Address /\ q.role \in AllRoles /\ q.actor \in Principal
  /\ q.op = "accept" => q.key \in Link /\ link[q.key].kind = "invitation" /\ q.pw \in Password
  /\ q.op = "reset" => q.key \in Link /\ link[q.key].kind = "reset" /\ q.pw \in Password

Invites(l) ==
  link[l].kind = "invitation" =>
    link[l].org \in Org /\ link[l].email \in Address /\ link[l].role \in AllRoles

RowsOK ==
  /\ user \in [Account -> Person \cup {None}]
  /\ org \subseteq Org
  /\ session \subseteq [by : Req \cup {Before}, user : Account]
  /\ link \in [Link -> LinkRow] /\ \A l \in Link : Invites(l)
  /\ mailed \subseteq Link
  /\ generation \in [Account -> Nat]
  /\ opened \in [Req \cup {Before} -> Nat \cup {None}]
  /\ overtaken \in [Req \cup {Before} -> Nat \cup {None}]
  /\ origin \in [Account -> Link \cup {Before, None}]

RequestsOK ==
  /\ request \in [Req -> Request]
  /\ \A r \in Req : Fits(request[r])

\* The link a request makes is not there before it makes it, and is there when it is sent.
Issuing ==
  \A r \in Req :
    /\ request[r].step \notin {"send", "done"} => link[r] = NoLink
    /\ request[r].step = "send" => link[r].state # "none"

\* Sessions and links of the account go with it.
NoOrphans ==
  /\ \A s \in session : s.user \in Present
  /\ \A l \in Link : Live(l) /\ link[l].kind \in {"reset", "confirmation"} => link[l].user \in Present
  /\ \A a \in Present : origin[a] # None

AccountsInv == RowsOK /\ RequestsOK /\ Issuing /\ NoOrphans

\* What a request that has stored a session, or founded an organization, still has before it.
Late == {"clear", "issue", "done"}

\* A request that is signing somebody in, and one that never will.
Signs(q) == q.op \in {"login", "accept"} /\ q.user \in Account
Past(q) == q.step \in Late /\ q.op \notin {"login", "accept"}

\* An account names the request or the invitation that made it: an invitation in use names one,
\* one that is not in use names none, and neither does a request that can still found.
MadeOnce ==
  \A l \in Link : link[l].kind = "invitation" =>
    IF link[l].state = "used"
    THEN \E a \in Account : \A b \in Account : origin[b] = l <=> b = a
    ELSE \A b \in Account : origin[b] # l

Untaken ==
  \A r \in Req :
    request[r].step \notin {"send", "done"} /\ ~Past(request[r]) => \A a \in Account : origin[a] # r

\* A session was stored by a request that stores no other.  Whoever is signing in goes by the
\* password the account has, or was found at it by the last reset.
Fenced ==
  /\ \A s \in session : s.by \in Req => Past(request[s.by])
  /\ \A r \in Req :
       Signs(request[r]) => generation[request[r].user] \in {request[r].gen, overtaken[r]}
  /\ ResetRevokes

OriginsInv == AccountsInv /\ MadeOnce /\ Untaken

-----------------------------------------------------------------------------
(***************************************************************************)
(* What a step does, row by row                                            *)
(***************************************************************************)
\* A request reads the password of whom it signs in as it is, and holds on to that; and one that
\* is past signing in stays so.
Fresh(q) == Signs(q) => q.gen = generation[q.user]
Carries(q, n) ==
  /\ Fresh(n) \/ (n.op = q.op /\ n.user = q.user /\ n.gen = q.gen)
  /\ Past(q) => Past(n)

\* The request of r arrives, goes on or ends.
Moves(r) ==
  /\ request' \in [Req -> Request]
  /\ \A q \in Req : q # r => request'[q] = request[q]
  /\ request[r].step # "done"
  /\ Fits(request'[r]) /\ Carries(request[r], request'[r])

Finishes(r) == Moves(r) /\ request'[r].step = "done" /\ request'[r].op = "none"

\* The request neither makes its link now nor has it to send afterwards.
Proceeds(r) ==
  /\ Moves(r)
  /\ request'[r].step = "done" \/ {request[r].step, request'[r].step} \cap {"send", "done"} = {}

\* A step that touches no table.
Calm(r) ==
  /\ Proceeds(r)
  /\ UNCHANGED <<tables, ghosts>> /\ mailed' \subseteq mailed \cup {r}

Closes(r) ==
  /\ Finishes(r)
  /\ session' \subseteq session /\ UNCHANGED <<user, org, link, mailed, ghosts>>

Opens(r, a) ==
  /\ Finishes(r) /\ a \in Present
  /\ request[r].step = "insert" /\ request[r].op \in {"login", "accept"} /\ request[r].user = a
  /\ session' = session \cup {[by |-> r, user |-> a]}
  /\ opened' = [opened EXCEPT ![r] = request[r].gen]
  /\ UNCHANGED <<user, org, link, mailed, generation, overtaken, origin, blind>>

Founds(r, a, p) ==
  /\ Proceeds(r) /\ request[r].step = "hashing" /\ Past(request'[r])
  /\ a \in Account /\ origin[a] = None
  /\ p \in Person /\ p.role = Owner
  /\ org' = org \cup {p.org}
  /\ user' = [user EXCEPT ![a] = p] /\ origin' = [origin EXCEPT ![a] = r]
  /\ session' = session \cup {[by |-> r, user |-> a]}
  /\ opened' = [opened EXCEPT ![r] = generation[a]]
  /\ UNCHANGED <<link, mailed, generation, overtaken, blind>>

\* The owners that were locked are owners, and the account is not the only one of them.
Spares(r, a) ==
  /\ LockedOwners(r) \subseteq Owners(user[a].org)
  /\ LockedOwners(r) # {a}
  /\ blind' = (blind \/ LockedOwners(r) = {})

Regrades(r, a, p) ==
  /\ Finishes(r) /\ a \in Present
  /\ p \in Person /\ p.org = user[a].org
  /\ p.role # Owner /\ user[a].role = Owner => Spares(r, a)
  /\ blind => blind'
  /\ user' = [user EXCEPT ![a] = p]
  /\ UNCHANGED <<org, session, link, mailed, generation, opened, overtaken, origin>>

Removes(r, a) ==
  /\ Finishes(r) /\ a \in Present
  /\ user[a].role = Owner => Spares(r, a)
  /\ blind => blind'
  /\ user' = [user EXCEPT ![a] = None]
  /\ session' = {s \in session : s.user # a}
  /\ link' = WithState(LinksOf(a, "reset") \cup LinksOf(a, "confirmation"), "gone")
  /\ UNCHANGED <<org, mailed, generation, opened, overtaken, origin>>

\* Links are withdrawn or lapse; one that was used stays so.
Marks(ls, s) ==
  /\ \A l \in ls : link[l].state \notin {"none", "used"}
  /\ s \in {"gone", "lapsed"}
  /\ request' = request \/ \E r \in Req : Proceeds(r)
  /\ link' = WithState(ls, s)
  /\ UNCHANGED <<user, org, session, mailed, ghosts>>

\* A row for a new link, and those before it gone.
Issues(r, ls, row) ==
  /\ Moves(r)
  /\ request[r].step \notin {"send", "done"} /\ request'[r].step \in {"send", "done"}
  /\ \A l \in ls : link[l].state \notin {"none", "used"}
  /\ row \in LinkRow /\ row.state = "live" /\ row.kind # "none"
  /\ row.kind = "invitation" => request[r].step = "place" /\ row.org \in Org /\ row.email \in Address
                               /\ row.role \in AllRoles
  /\ row.kind \in {"reset", "confirmation"} => row.user \in Present /\ row.gen \in {0, generation[row.user]}
  /\ row.kind = "reset" => row.gen = generation[row.user]
  /\ link' = [WithState(ls, "gone") EXCEPT ![r] = row]
  /\ mailed' \subseteq mailed \cup {r}
  /\ UNCHANGED <<user, org, session, ghosts>>

Accepts(r, l, a, p) ==
  /\ Proceeds(r) /\ request[r].step = "hashing"
  /\ l \in Link /\ Live(l) /\ link[l].kind = "invitation"
  /\ a \in Account /\ origin[a] = None /\ p \in Person
  /\ user' = [user EXCEPT ![a] = p] /\ origin' = [origin EXCEPT ![a] = l]
  /\ link' = WithState({l}, "used")
  /\ UNCHANGED <<org, session, mailed, generation, opened, overtaken, blind>>

\* Also the one that confirms the address: nothing but the link and one row.
Resets(r, l, p) ==
  LET a == link[l].user IN
  /\ Finishes(r) /\ l \in Link /\ Live(l) /\ link[l].kind = "reset"
  /\ p \in Person /\ p.org = user[a].org /\ p.role = user[a].role
  /\ user' = [user EXCEPT ![a] = p]
  /\ generation' = [generation EXCEPT ![a] = @ + 1] /\ Overtake(a)
  /\ session' = {s \in session : s.user # a}
  /\ link' = [WithState({m \in LinksOf(a, "reset") : link[m].state # "used"}, "gone")
                EXCEPT ![l].state = "used"]
  /\ UNCHANGED <<org, mailed, opened, origin, blind>>

Confirms(r, l, p) ==
  LET a == link[l].user IN
  /\ Finishes(r) /\ l \in Link /\ Live(l) /\ link[l].kind = "confirmation"
  /\ p \in Person /\ p.org = user[a].org /\ p.role = user[a].role
  /\ user' = [user EXCEPT ![a] = p]
  /\ link' = WithState({l}, "used")
  /\ UNCHANGED <<org, session, mailed, ghosts>>
-----------------------------------------------------------------------------
(***************************************************************************)
(* Requests                                                                *)
(***************************************************************************)
LEMMA NewIsARequest == New \in Request
BY DEF New, Request, Operation, Stage

LEMMA DoneIsARequest ==
  Done \in Request /\ Done.step = "done" /\ Done.op = "none" /\ Fits(Done)
<1>1. Done = [op |-> "none", step |-> "done", limiter |-> None, key |-> None, actor |-> None,
              user |-> None, held |-> None, pw |-> None, org |-> None, email |-> None,
              role |-> None, owners |-> {}, gen |-> None]
  BY DEF Done, New
<1>. QED
  BY <1>1 DEF Request, Operation, Stage, Fits

LEMMA LeaveMoves ==
  ASSUME RequestsOK, NEW r \in Req, Leave(r), request[r].step # "done"
  PROVE  Finishes(r) /\ Proceeds(r)
<1>1. /\ request' \in [Req -> Request] /\ request'[r] = Done
      /\ \A q \in Req : q # r => request'[q] = request[q]
  BY DoneIsARequest DEF RequestsOK, Leave
<1>2. Carries(request[r], Done)
  BY DoneIsARequest DEF Carries, Fresh, Signs, Past, Late
<1>. QED
  BY <1>1, <1>2, DoneIsARequest DEF Finishes, Proceeds, Moves

LEMMA EndingMoves ==
  ASSUME RequestsOK, NEW r \in Req, Pay(r) \/ Refund(r), request[r].step # "done"
  PROVE  Finishes(r) /\ Proceeds(r)
BY LeaveMoves DEF Pay, Refund

LEMMA StageOfRequest ==
  ASSUME NEW q \in Request, NEW s \in Stage
  PROVE  /\ [q EXCEPT !.step = s] \in Request
         /\ [q EXCEPT !.step = s].step = s
         /\ (q.step \in Late => s \in Late) => Carries(q, [q EXCEPT !.step = s])
         /\ Fits(q) => Fits([q EXCEPT !.step = s])
<1>1. [q EXCEPT !.step = s] = [op |-> q.op, step |-> s, limiter |-> q.limiter, key |-> q.key,
        actor |-> q.actor, user |-> q.user, held |-> q.held, pw |-> q.pw, org |-> q.org,
        email |-> q.email, role |-> q.role, owners |-> q.owners, gen |-> q.gen]
  BY DEF Request
<1>. QED
  BY <1>1 DEF Request, Fits, Carries, Past

LEMMA AdvanceMoves ==
  ASSUME RequestsOK, NEW r \in Req, NEW s \in Stage, Advance(r, s), request[r].step # "done",
         request[r].step \in Late => s \in Late
  PROVE  Moves(r) /\ request'[r].step = s
<1>1. request' = [request EXCEPT ![r] = [request[r] EXCEPT !.step = s]]
  BY DEF Advance
<1>. QED
  BY <1>1, StageOfRequest DEF RequestsOK, Moves

Keyed(q, l, k) == [q EXCEPT !.limiter = l, !.key = k]

LEMMA KeyedRequest ==
  ASSUME NEW q \in Request, NEW l \in Limiters, NEW k \in Address \cup Link
  PROVE  /\ Keyed(q, l, k) \in Request
         /\ Keyed(q, l, k).step = q.step /\ Keyed(q, l, k).op = q.op /\ Keyed(q, l, k).key = k
         /\ Keyed(q, l, k).org = q.org /\ Keyed(q, l, k).pw = q.pw /\ Keyed(q, l, k).role = q.role
         /\ Keyed(q, l, k).email = q.email /\ Keyed(q, l, k).actor = q.actor
         /\ Keyed(q, l, k).user = q.user /\ Keyed(q, l, k).gen = q.gen
<1>1. Keyed(q, l, k) \in Request
  BY DEF Keyed, Request
<1>. QED
  BY <1>1 DEF Keyed, Request

\* What a request may arrive with, behind a limiter that counts by k.
Arrives(q) == q \in Request /\ q.step \notin {"send", "done"}

Asks(q, k) ==
  /\ Arrives(q) /\ q.op \in {"login", "signup", "accept", "forgot", "reset", "resend"}
  /\ q.op = "signup" => k \in Address /\ q.org \in Org /\ q.pw \in Password
  /\ q.op = "accept" => k \in Link /\ link[k].kind = "invitation" /\ q.pw \in Password
  /\ q.op = "reset" => k \in Link /\ link[k].kind = "reset" /\ q.pw \in Password
  /\ Fresh(q)

LEMMA KeyedFits ==
  ASSUME NEW l \in Limiters, NEW k \in Address \cup Link, NEW q, Asks(q, k)
  PROVE  Arrives(Keyed(q, l, k)) /\ Fits(Keyed(q, l, k)) /\ Fresh(Keyed(q, l, k))
<1>. DEFINE n == Keyed(q, l, k)
<1>1. q \in Request
  BY DEF Asks, Arrives
<1>2. /\ n \in Request /\ n.step = q.step /\ n.op = q.op /\ n.key = k /\ n.org = q.org /\ n.pw = q.pw
      /\ n.user = q.user /\ n.gen = q.gen
  BY <1>1, KeyedRequest
<1>. HIDE DEF n
<1>3. Fresh(n)
  BY <1>2 DEF Asks, Fresh, Signs
<1>. QED
  BY <1>2, <1>3 DEF Asks, Arrives, Fits, n

LEMMA KnockCalm ==
  ASSUME RequestsOK, NEW r \in Req, NEW l \in Limiters, NEW k \in Address \cup Link,
         NEW found, NEW next, Knock(r, l, k, found, next), found => Asks(next, k)
  PROVE  Calm(r)
<1>1. (request' = [request EXCEPT ![r] = Keyed(next, l, k)] /\ found) \/ Leave(r)
  BY DEF Knock, Leave, Keyed
<1>2. request[r].step = "new" /\ UNCHANGED <<tables, ghosts>> /\ mailed' = mailed
  BY DEF Knock, Step
<1>3. CASE Leave(r)
  BY <1>2, <1>3, LeaveMoves DEF Calm
<1>4. CASE request' = [request EXCEPT ![r] = Keyed(next, l, k)] /\ found
  <2>1. Arrives(Keyed(next, l, k)) /\ Fits(Keyed(next, l, k)) /\ Fresh(Keyed(next, l, k))
    BY <1>4, KeyedFits
  <2>2. request'[r] = Keyed(next, l, k)
    BY <1>4 DEF RequestsOK
  <2>3. Moves(r)
    BY <1>2, <1>4, <2>1, <2>2 DEF Moves, RequestsOK, Arrives, Carries, Past, Late
  <2>. QED
    BY <1>2, <2>1, <2>2, <2>3 DEF Calm, Proceeds, Arrives
<1>. QED
  BY <1>1, <1>3, <1>4

Entered(q, op, p) == [q EXCEPT !.op = op, !.actor = p]

LEMMA EnterCalm ==
  ASSUME RequestsOK, NEW r \in Req, NEW op \in {"role", "remove", "invite"}, NEW need,
         NEW p \in Principal, NEW next, Enter(r, op, need, p, next), Arrives(next),
         op = "role" => next.role \in AllRoles,
         op = "invite" => next.email \in Address /\ next.role \in AllRoles
  PROVE  Calm(r)
<1>. DEFINE n == Entered(next, op, p)
<1>1. n \in Request
  BY DEF Arrives, Entered, Request, Operation
<1>2. n.op = op /\ n.actor = p
  BY DEF Arrives, Entered, Request
<1>3. n.step = next.step /\ n.role = next.role /\ n.email = next.email
  BY DEF Arrives, Entered, Request
<1>4. request' = [request EXCEPT ![r] = n] /\ request[r].step = "new"
  BY DEF Enter, Entered, Step
<1>5. UNCHANGED <<tables, ghosts>> /\ mailed' = mailed
  BY DEF Enter
<1>. HIDE DEF n
<1>6. Fits(n) /\ Carries(request[r], n)
  BY <1>1, <1>3, <1>2, <1>4 DEF Fits, Carries, Fresh, Signs, Past, Late
<1>7. request'[r] = n
  BY <1>4 DEF RequestsOK
<1>8. Moves(r)
  BY <1>1, <1>4, <1>6, <1>7 DEF Moves, RequestsOK
<1>. QED
  BY <1>3, <1>4, <1>5, <1>7, <1>8 DEF Calm, Proceeds, Arrives

LEMMA AccountOfKnown ==
  ASSUME NEW e, Known(e)
  PROVE  AccountOf(e) \in Present /\ AccountOf(e) \in Account /\ user[AccountOf(e)].email = e
BY DEF Known, AccountOf, Present

LEMMA PresentRow ==
  ASSUME RowsOK, NEW a \in Present
  PROVE  a \in Account /\ user[a] \in Person
BY DEF RowsOK, Present

LEMMA PrincipalsAreTyped ==
  ASSUME AccountsInv
  PROVE  \A p \in Principals : p \in Principal /\ p.user \in Present
<1>. SUFFICES ASSUME NEW p \in Principals PROVE p \in Principal /\ p.user \in Present
  OBVIOUS
<1>1. PICK s \in session :
        p = [user |-> s.user, org |-> user[s.user].org, role |-> user[s.user].role]
  BY DEF Principals
<1>2. s.user \in Present
  BY DEF AccountsInv, NoOrphans
<1>. QED
  BY <1>1, <1>2, PresentRow DEF AccountsInv, Principal, Person

-----------------------------------------------------------------------------
(***************************************************************************)
(* Every step is one of the kinds above                                    *)
(***************************************************************************)
LEMMA LoginArriveCalm ==
  ASSUME AccountsInv, NEW r \in Req, LoginArrive(r)
  PROVE  Calm(r)
<1>1. PICK e \in Address, p \in Password : LoginArrive(r)!(e, p)
  BY DEF LoginArrive
<1>. DEFINE u == IF Known(e) THEN AccountOf(e) ELSE None
            h == IF Known(e) THEN user[AccountOf(e)].pw ELSE None
            g == IF Known(e) THEN generation[AccountOf(e)] ELSE None
            next == [New EXCEPT !.op = "login", !.step = "queue", !.pw = p, !.user = u, !.held = h,
                                !.gen = g]
<1>2. /\ u \in Account \cup {None} /\ h \in Password \cup {None} /\ g \in Nat \cup {None}
      /\ u \in Account => g = generation[u]
  BY AccountOfKnown, PresentRow, StandingAssumption DEF AccountsInv, RowsOK, Person
<1>. HIDE DEF u, h, g
<1>3. next \in Request
  <2>. DEFINE blank == [New EXCEPT !.op = "login", !.step = "queue", !.pw = p]
  <2>1. blank \in Request
    BY NewIsARequest DEF Request, Operation, Stage
  <2>2. next = [blank EXCEPT !.user = u, !.held = h, !.gen = g]
    BY NewIsARequest DEF Request
  <2>. HIDE DEF blank, next
  <2>. QED
    BY <1>2, <2>1, <2>2 DEF Request
<1>4. next.op = "login" /\ next.step = "queue" /\ next.user = u /\ next.gen = g
  BY NewIsARequest DEF Request
<1>5. Knock(r, "login", e, TRUE, next)
  BY <1>1 DEF next, u, h, g
<1>. HIDE DEF next
<1>6. Asks(next, e)
  BY <1>2, <1>3, <1>4 DEF Asks, Arrives, Fresh, Signs
<1>. QED
  BY <1>5, <1>6, KnockCalm DEF AccountsInv, Limiters

LEMMA SignupArriveCalm ==
  ASSUME AccountsInv, NEW r \in Req, SignupArrive(r)
  PROVE  Calm(r)
<1>1. PICK e \in Address, o \in Org \ {Home} : SignupArrive(r)!(e, o)
  BY DEF SignupArrive
<1>. DEFINE next == [New EXCEPT !.op = "signup", !.step = "queue", !.org = o, !.pw = "first"]
<1>2. next \in Request
  BY NewIsARequest, AccountsAssumption DEF Request, Operation, Stage
<1>3. next.op = "signup" /\ next.step = "queue" /\ next.org = o /\ next.pw = "first"
  BY NewIsARequest DEF Request
<1>4. Knock(r, "signup", e, TRUE, next)
  BY <1>1 DEF next
<1>. HIDE DEF next
<1>5. Asks(next, e)
  BY <1>2, <1>3, AccountsAssumption DEF Asks, Arrives, Fresh, Signs
<1>. QED
  BY <1>4, <1>5, KnockCalm DEF AccountsInv, Limiters

LEMMA RedeemingCalm ==
  ASSUME AccountsInv, NEW r \in Req, AcceptArrive(r) \/ ResetArrive(r)
  PROVE  Calm(r)
<1>1. ASSUME NEW op \in {"accept", "reset"}, NEW p \in Password
      PROVE  LET next == [New EXCEPT !.op = op, !.step = "queue", !.pw = p] IN
               /\ next \in Request /\ next.op = op /\ next.step = "queue" /\ next.pw = p
               /\ next.user = None
  <2>. DEFINE next == [New EXCEPT !.op = op, !.step = "queue", !.pw = p]
  <2>1. next \in Request
    BY NewIsARequest DEF Request, Operation, Stage
  <2>2. next.op = op /\ next.step = "queue" /\ next.pw = p /\ next.user = None
    BY NewIsARequest DEF Request, New
  <2>. QED
    BY <2>1, <2>2
<1>2. CASE AcceptArrive(r)
  <2>1. PICK l \in mailed, p \in Password : AcceptArrive(r)!(l, p)
    BY <1>2 DEF AcceptArrive
  <2>. DEFINE next == [New EXCEPT !.op = "accept", !.step = "queue", !.pw = p]
  <2>2. Knock(r, "accept", l, Live(l), next) /\ link[l].kind = "invitation" /\ l \in Link
    BY <2>1 DEF AccountsInv, RowsOK
  <2>3. /\ next \in Request /\ next.op = "accept" /\ next.step = "queue" /\ next.pw = p
        /\ next.user = None
    BY <1>1
  <2>. HIDE DEF next
  <2>4. Asks(next, l)
    BY <2>2, <2>3, StandingAssumption DEF Asks, Arrives, Fresh, Signs
  <2>. QED
    BY <2>2, <2>4, KnockCalm DEF AccountsInv, Limiters
<1>3. CASE ResetArrive(r)
  <2>1. PICK l \in mailed, p \in Password : ResetArrive(r)!(l, p)
    BY <1>3 DEF ResetArrive
  <2>. DEFINE next == [New EXCEPT !.op = "reset", !.step = "queue", !.pw = p]
  <2>2. Knock(r, "redeem", l, Live(l), next) /\ link[l].kind = "reset" /\ l \in Link
    BY <2>1 DEF AccountsInv, RowsOK
  <2>3. next \in Request /\ next.op = "reset" /\ next.step = "queue" /\ next.pw = p
    BY <1>1
  <2>. HIDE DEF next
  <2>4. Asks(next, l)
    BY <2>2, <2>3 DEF Asks, Arrives, Fresh, Signs
  <2>. QED
    BY <2>2, <2>4, KnockCalm DEF AccountsInv, Limiters
<1>. QED
  BY <1>2, <1>3

LEMMA ForgotArriveCalm ==
  ASSUME AccountsInv, NEW r \in Req, ForgotArrive(r)
  PROVE  Calm(r)
<1>1. PICK e \in Address : ForgotArrive(r)!(e)
  BY DEF ForgotArrive
<1>. DEFINE u == IF Known(e) THEN AccountOf(e) ELSE None
            next == [New EXCEPT !.op = "forgot", !.step = "issue", !.user = u]
<1>2. u \in Account \cup {None}
  BY AccountOfKnown
<1>. HIDE DEF u
<1>3. next \in Request
  BY <1>2, NewIsARequest DEF Request, Operation, Stage
<1>4. next.op = "forgot" /\ next.step = "issue"
  BY NewIsARequest DEF Request
<1>5. Knock(r, "forgot", e, Known(e), next)
  BY <1>1 DEF next, u
<1>. HIDE DEF next
<1>6. Asks(next, e)
  BY <1>3, <1>4 DEF Asks, Arrives, Fresh, Signs
<1>. QED
  BY <1>5, <1>6, KnockCalm DEF AccountsInv, Limiters

LEMMA ResendArriveCalm ==
  ASSUME AccountsInv, NEW r \in Req, ResendArrive(r)
  PROVE  Calm(r)
<1>1. PICK p \in Principals : ResendArrive(r)!(p)
  BY DEF ResendArrive
<1>. DEFINE next == [New EXCEPT !.op = "resend", !.step = "clear", !.user = p.user]
            e == user[p.user].email
<1>2. p.user \in Account /\ e \in Address
  BY PrincipalsAreTyped, PresentRow DEF AccountsInv, Person
<1>3. next \in Request
  BY <1>2, NewIsARequest DEF Request, Operation, Stage
<1>4. next.op = "resend" /\ next.step = "clear"
  BY NewIsARequest DEF Request
<1>5. Knock(r, "resend", e, ~user[p.user].verified, next)
  BY <1>1
<1>. HIDE DEF next, e
<1>6. Asks(next, e)
  BY <1>3, <1>4 DEF Asks, Arrives, Fresh, Signs
<1>. QED
  BY <1>2, <1>5, <1>6, KnockCalm DEF AccountsInv, Limiters

LEMMA ManagingCalm ==
  ASSUME AccountsInv, NEW r \in Req, RoleArrive(r) \/ RemoveArrive(r) \/ InviteArrive(r)
  PROVE  Calm(r)
<1>1. CASE RoleArrive(r)
  <2>1. PICK p \in Principals, a \in Present, n \in AllRoles : RoleArrive(r)!(p, a, n)
    BY <1>1 DEF RoleArrive
  <2>. DEFINE next == [New EXCEPT !.step = "owners", !.user = a, !.role = n]
  <2>2. next \in Request
    BY NewIsARequest DEF Request, Stage, Present
  <2>3. next.step = "owners" /\ next.role = n
    BY NewIsARequest DEF Request
  <2>4. Enter(r, "role", "member.manage", p, next)
    BY <2>1
  <2>. HIDE DEF next
  <2>. QED
    BY <2>2, <2>3, <2>4, PrincipalsAreTyped, EnterCalm DEF Arrives, AccountsInv
<1>2. CASE RemoveArrive(r)
  <2>1. PICK p \in Principals, a \in Present : RemoveArrive(r)!(p, a)
    BY <1>2 DEF RemoveArrive
  <2>. DEFINE next == [New EXCEPT !.step = "owners", !.user = a]
  <2>2. next \in Request
    BY NewIsARequest DEF Request, Stage, Present
  <2>3. next.step = "owners"
    BY NewIsARequest DEF Request
  <2>4. Enter(r, "remove", "member.manage", p, next)
    BY <2>1
  <2>. HIDE DEF next
  <2>. QED
    BY <2>2, <2>3, <2>4, PrincipalsAreTyped, EnterCalm DEF Arrives, AccountsInv
<1>3. CASE InviteArrive(r)
  <2>1. PICK p \in Principals, e \in Address, n \in AllRoles \ {Owner} : InviteArrive(r)!(p, e, n)
    BY <1>3 DEF InviteArrive
  <2>. DEFINE next == [New EXCEPT !.step = "place", !.email = e, !.role = n]
  <2>2. next \in Request
    BY NewIsARequest DEF Request, Stage
  <2>3. next.step = "place" /\ next.email = e /\ next.role = n
    BY NewIsARequest DEF Request
  <2>4. Enter(r, "invite", "member.invite", p, next)
    BY <2>1
  <2>. HIDE DEF next
  <2>. QED
    BY <2>2, <2>3, <2>4, PrincipalsAreTyped, EnterCalm DEF Arrives, AccountsInv
<1>. QED
  BY <1>1, <1>2, <1>3

\* Waiting for a slot, being shed or dropped, a wrong password, and a mail that leaves.
LEMMA QuietCalm ==
  ASSUME AccountsInv, NEW r \in Req,
         Acquire(r) \/ Shed(r) \/ Drop(r) \/ LoginVerify(r) \/ SendInvitation(r) \/ ReadOwners(r)
  PROVE  Calm(r)
<1>. USE DEF AccountsInv, Calm, Step, At
<1>1. CASE Acquire(r)
  BY <1>1, AdvanceMoves DEF Acquire, Proceeds, Stage, Late
<1>2. CASE Shed(r)
  BY <1>2, EndingMoves DEF Shed
<1>3. CASE Drop(r)
  BY <1>3, EndingMoves, LeaveMoves DEF Drop
<1>4. CASE LoginVerify(r)
  <2>1. UNCHANGED <<tables, ghosts>> /\ mailed' = mailed /\ request[r].step = "hashing"
    BY <1>4 DEF LoginVerify
  <2>2. Proceeds(r)
    BY <1>4, <2>1, EndingMoves, AdvanceMoves DEF LoginVerify, Proceeds, Stage, Late
  <2>. QED
    BY <2>1, <2>2
<1>5. CASE SendInvitation(r)
  BY <1>5, LeaveMoves DEF SendInvitation
<1>6. CASE ReadOwners(r)
  <2>. DEFINE n == [request[r] EXCEPT !.step = "decide", !.owners = Owners(request[r].actor.org)]
  <2>1. request[r] \in Request /\ Owners(request[r].actor.org) \in SUBSET Account /\ Fits(request[r])
    BY DEF RequestsOK, Owners, Present
  <2>2. \A q \in Request, o \in SUBSET Account :
          LET m == [q EXCEPT !.step = "decide", !.owners = o] IN
            /\ m \in Request
            /\ m.step = "decide" /\ (Fits(q) => Fits(m))
            /\ q.step \notin Late => Carries(q, m)
    <3>. SUFFICES ASSUME NEW q \in Request, NEW o \in SUBSET Account
                  PROVE  LET m == [q EXCEPT !.step = "decide", !.owners = o] IN
                           /\ m \in Request /\ m.step = "decide" /\ (Fits(q) => Fits(m))
                           /\ q.step \notin Late => Carries(q, m)
      OBVIOUS
    <3>. DEFINE m == [q EXCEPT !.step = "decide", !.owners = o]
    <3>1. m \in Request
      BY DEF Request, Stage
    <3>2. m.step = "decide" /\ m.op = q.op /\ m.key = q.key /\ m.org = q.org /\ m.pw = q.pw
      BY DEF Request
    <3>3. /\ m.role = q.role /\ m.email = q.email /\ m.actor = q.actor
          /\ m.user = q.user /\ m.gen = q.gen
      BY DEF Request
    <3>. HIDE DEF m
    <3>4. /\ Fits(q) => Fits(m)
          /\ q.step \notin Late => Carries(q, m)
      BY <3>2, <3>3 DEF Fits, Carries, Past
    <3>. QED
      BY <3>1, <3>2, <3>4 DEF m
  <2>. HIDE DEF n
  <2>3. /\ n \in Request /\ n.step = "decide" /\ Fits(n)
        /\ request[r].step \notin Late => Carries(request[r], n)
    BY <2>1, <2>2 DEF n
  <2>4. request' = [request EXCEPT ![r] = n] /\ request[r].step = "owners"
    BY <1>6 DEF ReadOwners, n
  <2>5. UNCHANGED <<tables, ghosts>> /\ mailed' = mailed
    BY <1>6 DEF ReadOwners
  <2>6. request'[r] = n
    BY <2>4 DEF RequestsOK
  <2>7. Moves(r)
    BY <2>3, <2>4, <2>6 DEF Moves, RequestsOK, Late
  <2>. QED
    BY <2>3, <2>4, <2>5, <2>6, <2>7 DEF Proceeds
<1>. QED
  BY <1>1, <1>2, <1>3, <1>4, <1>5, <1>6

LEMMA SessionStep ==
  ASSUME AccountsInv, NEW r \in Req, LoginInsert(r) \/ AcceptInsert(r)
  PROVE  Calm(r) \/ \E a \in Account : Opens(r, a)
<1>1. /\ request[r].step = "insert" /\ request[r].op \in {"login", "accept"}
      /\ Finishes(r) /\ Proceeds(r)
  BY EndingMoves DEF LoginInsert, AcceptInsert, At, AccountsInv
<1>2. CASE request[r].user \in Present /\ OpenSession(r, request[r].user, request[r].gen)
  BY <1>1, <1>2 DEF LoginInsert, AcceptInsert, Opens, OpenSession, Present, ghosts
<1>3. CASE UNCHANGED <<session, opened>>
  BY <1>1, <1>3 DEF LoginInsert, AcceptInsert, Calm, tables, ghosts
<1>. QED
  BY <1>2, <1>3 DEF LoginInsert, AcceptInsert

LEMMA LogoutCloses ==
  ASSUME AccountsInv, NEW r \in Req, Logout(r)
  PROVE  Closes(r)
BY LeaveMoves DEF Logout, Closes, Step, AccountsInv

LEMMA FreshAccount ==
  ASSUME Unused # {}
  PROVE  NextAccount \in Account /\ origin[NextAccount] = None
BY DEF NextAccount, Unused

\* A founder's request goes on to mail the confirmation link.
LEMMA Confirming ==
  ASSUME NEW q \in Request, NEW a \in Account, Fits(q), q.op = "signup", q.step = "hashing"
  PROVE  LET m == [q EXCEPT !.op = "resend", !.step = "clear", !.user = a] IN
           m \in Request /\ m.step = "clear" /\ Fits(m) /\ Past(m) /\ Carries(q, m)
<1>. DEFINE m == [q EXCEPT !.op = "resend", !.step = "clear", !.user = a]
<1>1. m \in Request
  BY DEF Request, Stage, Operation
<1>2. m.step = "clear" /\ m.op = "resend"
  BY DEF Request
<1>. HIDE DEF m
<1>3. Fits(m) /\ Past(m) /\ Carries(q, m)
  BY <1>2 DEF Fits, Past, Late, Carries, Fresh, Signs
<1>. QED
  BY <1>1, <1>2, <1>3 DEF m

LEMMA SignUpStep ==
  ASSUME AccountsInv, NEW r \in Req, SignUp(r)
  PROVE  Calm(r) \/ \E a \in Account, p \in Person : Founds(r, a, p)
<1>. DEFINE e == request[r].key
            o == request[r].org
            p == [org |-> o, email |-> e, role |-> Owner, pw |-> request[r].pw, verified |-> FALSE]
            m == [request[r] EXCEPT !.op = "resend", !.step = "clear", !.user = NextAccount]
<1>1. request[r].op = "signup" /\ request[r].step = "hashing"
  BY DEF SignUp, At
<1>2. p \in Person
  BY <1>1 DEF AccountsInv, RequestsOK, Fits, Person, AllRoles
<1>3. CASE Known(e) \/ o \in org
  <2>1. Proceeds(r)
    BY <1>1, <1>3, EndingMoves DEF SignUp, AccountsInv
  <2>. QED
    BY <1>3, <2>1 DEF SignUp, Calm, tables, ghosts
<1>4. CASE ~(Known(e) \/ o \in org)
  <2>1. NextAccount \in Account /\ origin[NextAccount] = None
    BY <1>4, FreshAccount DEF SignUp
  <2>2. /\ org' = org \cup {o} /\ user' = [user EXCEPT ![NextAccount] = p]
        /\ origin' = [origin EXCEPT ![NextAccount] = r]
        /\ OpenSession(r, NextAccount, generation[NextAccount])
        /\ UNCHANGED <<link, mailed, generation, overtaken, blind>>
    BY <1>4 DEF SignUp
  <2>3. Pay(r) \/ request' = [request EXCEPT ![r] = m]
    BY <1>4 DEF SignUp
  <2>4. CASE Pay(r)
    <3>1. Proceeds(r) /\ Past(request'[r])
      BY <1>1, <2>4, EndingMoves DEF Finishes, AccountsInv, Past, Late
    <3>. QED
      BY <1>1, <1>2, <2>1, <2>2, <3>1 DEF Founds, OpenSession
  <2>5. CASE request' = [request EXCEPT ![r] = m]
    <3>1. request[r] \in Request /\ Fits(request[r])
      BY DEF AccountsInv, RequestsOK
    <3>2. m \in Request /\ m.step = "clear" /\ Fits(m) /\ Past(m) /\ Carries(request[r], m)
      BY <1>1, <2>1, <3>1, Confirming
    <3>. HIDE DEF m
    <3>3. request'[r] = m
      BY <2>5 DEF AccountsInv, RequestsOK
    <3>4. Proceeds(r) /\ Past(request'[r])
      BY <1>1, <2>5, <3>2, <3>3 DEF Proceeds, Moves, AccountsInv, RequestsOK
    <3>. QED
      BY <1>1, <1>2, <2>1, <2>2, <3>4 DEF Founds, OpenSession
  <2>. QED
    BY <2>3, <2>4, <2>5
<1>. QED
  BY <1>3, <1>4

LEMMA SetRoleStep ==
  ASSUME AccountsInv, NEW r \in Req, SetRole(r)
  PROVE  Calm(r) \/ \E a \in Account, p \in Person : Regrades(r, a, p)
<1>. DEFINE a == request[r].user
            n == request[r].role
            p == [user[a] EXCEPT !.role = n]
<1>1. At(r, "role", "decide") /\ Finishes(r) /\ Proceeds(r)
  BY LeaveMoves DEF SetRole, At, AccountsInv
<1>2. CASE UNCHANGED <<user, blind>>
  BY <1>1, <1>2 DEF SetRole, Calm, tables, ghosts
<1>3. CASE /\ MayChange(r) /\ ~(user[a].role = Owner /\ n # Owner /\ LastOwner(LockedOwners(r), a))
           /\ user' = [user EXCEPT ![a].role = n] /\ blind' = (blind \/ LockedOwners(r) = {})
  <2>1. a \in Present /\ a \in Account /\ user[a] \in Person /\ user[a].org = request[r].actor.org
    BY <1>3, PresentRow DEF MayChange, AccountsInv
  <2>2. n \in AllRoles
    BY <1>1 DEF AccountsInv, RequestsOK, Fits, At
  <2>3. p \in Person
    BY <2>1, <2>2 DEF Person
  <2>4. p.org = user[a].org /\ p.role = n
    BY <2>1 DEF Person
  <2>5. user' = [user EXCEPT ![a] = p]
    BY <1>3
  <2>6. p.role # Owner /\ user[a].role = Owner => Spares(r, a)
    BY <1>3, <2>1, <2>4 DEF Spares, LockedOwners, LastOwner
  <2>7. UNCHANGED <<org, session, link, mailed, generation, opened, overtaken, origin>>
    BY DEF SetRole
  <2>. HIDE DEF p
  <2>8. Regrades(r, a, p)
    BY <1>1, <1>3, <2>1, <2>3, <2>4, <2>5, <2>6, <2>7 DEF Regrades
  <2>. QED
    BY <2>1, <2>3, <2>8
<1>. QED
  BY <1>2, <1>3 DEF SetRole

LEMMA RemoveMemberStep ==
  ASSUME AccountsInv, NEW r \in Req, RemoveMember(r)
  PROVE  Calm(r) \/ \E a \in Account : Removes(r, a)
<1>. DEFINE a == request[r].user
<1>1. request[r].step = "decide" /\ Finishes(r) /\ Proceeds(r)
  BY LeaveMoves DEF RemoveMember, At, AccountsInv
<1>2. CASE ~(MayChange(r) /\ ~(user[a].role = Owner /\ LastOwner(LockedOwners(r), a)))
  BY <1>1, <1>2 DEF RemoveMember, Calm, tables, ghosts
<1>3. CASE MayChange(r) /\ ~(user[a].role = Owner /\ LastOwner(LockedOwners(r), a))
  <2>1. a \in Present /\ a \in Account /\ user[a].org = request[r].actor.org
    BY <1>3, PresentRow DEF MayChange, AccountsInv
  <2>2. user[a].role = Owner => Spares(r, a)
    BY <1>3, <2>1 DEF RemoveMember, Spares, LockedOwners, LastOwner
  <2>3. Removes(r, a)
    BY <1>1, <1>3, <2>1, <2>2 DEF RemoveMember, Removes
  <2>. QED
    BY <2>1, <2>3
<1>. QED
  BY <1>2, <1>3

LEMMA WithStateRows ==
  ASSUME link \in [Link -> LinkRow], NEW ls, NEW s \in LinkState
  PROVE  /\ WithState(ls, s) \in [Link -> LinkRow]
         /\ \A l \in Link : l \notin ls => WithState(ls, s)[l] = link[l]
         /\ \A l \in Link : l \in ls =>
              /\ WithState(ls, s)[l].state = s
              /\ WithState(ls, s)[l].kind = link[l].kind /\ WithState(ls, s)[l].org = link[l].org
              /\ WithState(ls, s)[l].email = link[l].email
              /\ WithState(ls, s)[l].role = link[l].role
              /\ WithState(ls, s)[l].user = link[l].user /\ WithState(ls, s)[l].gen = link[l].gen
<1>1. ASSUME NEW q \in LinkRow
      PROVE  LET n == [q EXCEPT !.state = s] IN
               /\ n \in LinkRow /\ n.state = s /\ n.kind = q.kind /\ n.org = q.org
               /\ n.email = q.email /\ n.role = q.role /\ n.user = q.user /\ n.gen = q.gen
  <2>. DEFINE n == [q EXCEPT !.state = s]
  <2>1. n \in LinkRow
    BY DEF LinkRow
  <2>2. n.state = s /\ n.kind = q.kind /\ n.org = q.org /\ n.email = q.email
    BY DEF LinkRow
  <2>3. n.role = q.role /\ n.user = q.user /\ n.gen = q.gen
    BY DEF LinkRow
  <2>. QED
    BY <2>1, <2>2, <2>3
<1>2. \A l \in Link : link[l] \in LinkRow
  OBVIOUS
<1>3. ASSUME NEW l \in Link
      PROVE  WithState(ls, s)[l] = IF l \in ls THEN [link[l] EXCEPT !.state = s] ELSE link[l]
  BY DEF WithState
<1>4. ASSUME NEW l \in Link PROVE WithState(ls, s)[l] \in LinkRow
  BY <1>1, <1>2, <1>3
<1>5. WithState(ls, s) \in [Link -> LinkRow]
  BY <1>4 DEF WithState
<1>6. ASSUME NEW l \in Link, l \in ls
      PROVE  /\ WithState(ls, s)[l].state = s
             /\ WithState(ls, s)[l].kind = link[l].kind /\ WithState(ls, s)[l].org = link[l].org
             /\ WithState(ls, s)[l].email = link[l].email
             /\ WithState(ls, s)[l].role = link[l].role
             /\ WithState(ls, s)[l].user = link[l].user /\ WithState(ls, s)[l].gen = link[l].gen
  <2>1. WithState(ls, s)[l] = [link[l] EXCEPT !.state = s]
    BY <1>3, <1>6
  <2>2. link[l] \in LinkRow
    BY <1>2
  <2>. QED
    BY <1>1, <2>1, <2>2
<1>7. \A l \in Link : l \notin ls => WithState(ls, s)[l] = link[l]
  BY <1>3
<1>. QED
  BY <1>5, <1>6, <1>7

LEMMA NoneMarked ==
  ASSUME link \in [Link -> LinkRow], NEW s
  PROVE  WithState({}, s) = link
BY DEF WithState

LEMMA CreateInvitationStep ==
  ASSUME AccountsInv, NEW r \in Req, CreateInvitation(r)
  PROVE  \E ls \in SUBSET Link, row \in LinkRow : Issues(r, ls, row)
<1>. DEFINE o == request[r].actor.org
            e == request[r].email
            row == [kind |-> "invitation", state |-> "live", org |-> o, email |-> e,
                    role |-> request[r].role, user |-> None, gen |-> 0]
<1>1. At(r, "invite", "place") /\ Moves(r) /\ request'[r].step = "send"
  BY AdvanceMoves DEF CreateInvitation, At, AccountsInv, Stage, Late
<1>2. o \in Org /\ e \in Address /\ request[r].role \in AllRoles
  BY <1>1 DEF AccountsInv, RequestsOK, Fits, At, Principal
<1>3. row \in LinkRow
  BY <1>2 DEF LinkRow, LinkKind, LinkState
<1>4. Waiting(o, e) \in SUBSET Link /\ \A l \in Waiting(o, e) : link[l].state \notin {"none", "used"}
  BY DEF Waiting
<1>5. link' = [WithState(Waiting(o, e), "gone") EXCEPT ![r] = row]
  BY DEF CreateInvitation
<1>6. UNCHANGED <<user, org, session, mailed, ghosts>>
  BY DEF CreateInvitation
<1>7. Issues(r, Waiting(o, e), row)
  BY <1>1, <1>2, <1>3, <1>4, <1>5, <1>6 DEF Issues, At
<1>. QED
  BY <1>3, <1>4, <1>7

LEMMA IssueStep ==
  ASSUME AccountsInv, NEW r \in Req, CreatePasswordReset(r) \/ CreateEmailVerification(r)
  PROVE  Calm(r) \/ \E ls \in SUBSET Link, row \in LinkRow : Issues(r, ls, row)
<1>. DEFINE a == request[r].user
            reset == [kind |-> "reset", state |-> "live", org |-> None, email |-> user[a].email,
                      role |-> None, user |-> a, gen |-> generation[a]]
            confirmation == [kind |-> "confirmation", state |-> "live", org |-> None,
                             email |-> user[a].email, role |-> None, user |-> a, gen |-> 0]
<1>1. request[r].step = "issue" /\ Finishes(r) /\ Proceeds(r)
  BY EndingMoves DEF CreatePasswordReset, CreateEmailVerification, At, AccountsInv
<1>2. UNCHANGED <<user, org, session, ghosts>>
  BY DEF CreatePasswordReset, CreateEmailVerification
<1>3. CASE a \notin Present
  BY <1>1, <1>2, <1>3 DEF CreatePasswordReset, CreateEmailVerification, Calm, tables
<1>4. CASE a \in Present
  <2>1. PICK row \in {reset, confirmation} :
          link' = [link EXCEPT ![r] = row] /\ mailed' \in {mailed, mailed \cup {r}}
    BY <1>4 DEF CreatePasswordReset, CreateEmailVerification
  <2>2. a \in Account /\ user[a].email \in Address /\ generation[a] \in Nat
    BY <1>4, PresentRow DEF AccountsInv, RowsOK, Person
  <2>3. reset \in LinkRow /\ confirmation \in LinkRow
    BY <2>2 DEF LinkRow, LinkKind, LinkState
  <2>4. link' = [WithState({}, "gone") EXCEPT ![r] = row]
    BY <2>1, NoneMarked DEF AccountsInv, RowsOK
  <2>5. row \in LinkRow /\ row.state = "live" /\ row.kind \in {"reset", "confirmation"}
    BY <2>1, <2>3
  <2>6. row.user = a /\ (row.kind = "reset" => row.gen = generation[a])
        /\ row.gen \in {0, generation[a]}
    BY <2>1
  <2>7. mailed' \subseteq mailed \cup {r}
    BY <2>1
  <2>8. Issues(r, {}, row)
    BY <1>1, <1>2, <1>4, <2>4, <2>5, <2>6, <2>7 DEF Issues, Finishes
  <2>. QED
    BY <2>5, <2>8
<1>. QED
  BY <1>3, <1>4

LEMMA WithdrawStep ==
  ASSUME AccountsInv, NEW r \in Req,
         WithdrawUnsent(r) \/ RevokeInvitation(r) \/ ClearConfirmations(r)
  PROVE  Calm(r) \/ \E ls \in SUBSET Link : Marks(ls, "gone")
<1>1. CASE WithdrawUnsent(r)
  <2>1. request[r].step = "send" /\ Proceeds(r)
    BY <1>1, LeaveMoves DEF WithdrawUnsent, At, AccountsInv
  <2>2. UNCHANGED <<user, org, session, mailed, ghosts>>
    BY <1>1 DEF WithdrawUnsent
  <2>3. CASE link[r].state = "used"
    BY <1>1, <2>1, <2>2, <2>3 DEF WithdrawUnsent, Calm, tables
  <2>4. CASE link[r].state # "used"
    <3>1. link[r].state \notin {"none", "used"} /\ {r} \in SUBSET Link
      BY <2>1, <2>4 DEF AccountsInv, Issuing, Link
    <3>2. link' = WithState({r}, "gone")
      BY <1>1, <2>4 DEF WithdrawUnsent
    <3>3. Marks({r}, "gone")
      BY <2>1, <2>2, <3>1, <3>2 DEF Marks
    <3>. QED
      BY <3>1, <3>3
  <2>. QED
    BY <2>3, <2>4
<1>2. CASE RevokeInvitation(r)
  <2>1. PICK p \in Principals, l \in Link : RevokeInvitation(r)!(p, l)
    BY <1>2 DEF RevokeInvitation
  <2>2. Proceeds(r)
    BY <2>1, LeaveMoves DEF Step, AccountsInv
  <2>3. Marks({l}, "gone")
    BY <2>1, <2>2 DEF Marks
  <2>. QED
    BY <2>3
<1>3. CASE ClearConfirmations(r)
  <2>. DEFINE ls == {l \in LinksOf(request[r].user, "confirmation") : link[l].state # "used"}
  <2>1. Proceeds(r)
    BY <1>3, AdvanceMoves DEF ClearConfirmations, At, AccountsInv, Proceeds, Stage, Late
  <2>2. ls \in SUBSET Link /\ \A l \in ls : link[l].state \notin {"none", "used"}
    BY DEF LinksOf
  <2>3. link' = WithState(ls, "gone") /\ UNCHANGED <<user, org, session, mailed, ghosts>>
    BY <1>3 DEF ClearConfirmations
  <2>4. Marks(ls, "gone")
    BY <2>1, <2>2, <2>3 DEF Marks
  <2>. QED
    BY <2>2, <2>4
<1>. QED
  BY <1>1, <1>2, <1>3

LEMMA LapseMarks ==
  ASSUME NEW l \in Link, Lapse(l)
  PROVE  Marks({l}, "lapsed")
BY DEF Lapse, Marks, Live

LEMMA Housed ==
  ASSUME NEW q \in Request, NEW a \in Account, Fits(q), generation[a] \in Nat, q.step \notin Late
  PROVE  LET m == [q EXCEPT !.step = "insert", !.user = a, !.gen = generation[a]] IN
           m \in Request /\ m.step = "insert" /\ Fits(m) /\ Carries(q, m)
<1>. DEFINE m == [q EXCEPT !.step = "insert", !.user = a, !.gen = generation[a]]
<1>1. m \in Request
  BY DEF Request, Stage
<1>2. m.step = "insert" /\ m.op = q.op /\ m.key = q.key /\ m.org = q.org /\ m.pw = q.pw
  BY DEF Request
<1>3. /\ m.role = q.role /\ m.email = q.email /\ m.actor = q.actor
      /\ m.user = a /\ m.gen = generation[a]
  BY DEF Request
<1>. HIDE DEF m
<1>4. Fits(m) /\ Carries(q, m)
  BY <1>2, <1>3 DEF Fits, Carries, Fresh, Signs, Past
<1>. QED
  BY <1>1, <1>2, <1>4 DEF m

LEMMA AcceptClaimStep ==
  ASSUME AccountsInv, NEW r \in Req, AcceptClaim(r)
  PROVE  Calm(r) \/ \E l \in Link, a \in Account, p \in Person : Accepts(r, l, a, p)
<1>. DEFINE l == request[r].key
            p == [org |-> link[l].org, email |-> link[l].email, role |-> link[l].role,
                  pw |-> request[r].pw, verified |-> TRUE]
            m == [request[r] EXCEPT !.step = "insert", !.user = NextAccount,
                                    !.gen = generation[NextAccount]]
<1>1. request[r].step = "hashing" /\ request[r].op = "accept"
  BY DEF AcceptClaim, At
<1>2. l \in Link /\ link[l].kind = "invitation" /\ request[r].pw \in Password
  BY <1>1 DEF AccountsInv, RequestsOK, Fits
<1>3. CASE ~(Claims(r) /\ ~Known(link[l].email))
  <2>1. Pay(r) /\ UNCHANGED <<link, user, origin>>
    BY <1>3 DEF AcceptClaim
  <2>. QED
    BY <1>1, <2>1, EndingMoves DEF AcceptClaim, Calm, tables, ghosts, AccountsInv
<1>4. CASE Claims(r) /\ ~Known(link[l].email)
  <2>1. Unused # {} /\ link' = WithState({l}, "used") /\ user' = [user EXCEPT ![NextAccount] = p]
        /\ origin' = [origin EXCEPT ![NextAccount] = l]
    BY <1>4 DEF AcceptClaim
  <2>2. UNCHANGED <<org, session, mailed, generation, opened, overtaken, blind>>
    BY DEF AcceptClaim
  <2>3. NextAccount \in Account /\ origin[NextAccount] = None
    BY <2>1, FreshAccount
  <2>4. p \in Person
    BY <1>2 DEF AccountsInv, RowsOK, Invites, Person
  <2>5. request' = [request EXCEPT ![r] = m]
    BY <1>4 DEF AcceptClaim
  <2>6. request[r] \in Request /\ Fits(request[r])
    BY DEF AccountsInv, RequestsOK
  <2>7. m \in Request /\ m.step = "insert" /\ Fits(m) /\ Carries(request[r], m)
    BY <1>1, <2>3, <2>6, Housed DEF Late, AccountsInv, RowsOK
  <2>. HIDE DEF m
  <2>8. request'[r] = m
    BY <2>5 DEF AccountsInv, RequestsOK
  <2>9. Proceeds(r)
    BY <1>1, <2>5, <2>7, <2>8 DEF Proceeds, Moves, AccountsInv, RequestsOK
  <2>10. Accepts(r, l, NextAccount, p)
    BY <1>1, <1>2, <1>4, <2>1, <2>2, <2>3, <2>4, <2>9 DEF Accepts, Claims
  <2>. QED
    BY <1>2, <2>3, <2>4, <2>10
<1>. QED
  BY <1>3, <1>4

LEMMA ResetPasswordStep ==
  ASSUME AccountsInv, NEW r \in Req, ResetPassword(r)
  PROVE  Calm(r) \/ \E l \in Link, p \in Person : Resets(r, l, p)
<1>. DEFINE l == request[r].key
            a == link[l].user
            p == [user[a] EXCEPT !.pw = request[r].pw]
<1>1. request[r].step = "hashing" /\ request[r].op = "reset" /\ Finishes(r) /\ Proceeds(r)
  BY EndingMoves DEF ResetPassword, At, AccountsInv
<1>2. l \in Link /\ link[l].kind = "reset" /\ request[r].pw \in Password
  BY <1>1 DEF AccountsInv, RequestsOK, Fits
<1>3. CASE ~Claims(r)
  BY <1>1, <1>3 DEF ResetPassword, Calm, tables, ghosts
<1>4. CASE Claims(r)
  <2>1. a \in Present /\ a \in Account /\ user[a] \in Person
    BY <1>2, <1>4, PresentRow DEF Claims, AccountsInv, NoOrphans
  <2>2. p \in Person
    BY <1>2, <2>1 DEF Person
  <2>3. p.org = user[a].org /\ p.role = user[a].role
    BY <2>1 DEF Person
  <2>4. user' = [user EXCEPT ![a] = p] /\ generation' = [generation EXCEPT ![a] = @ + 1]
        /\ Overtake(a) /\ session' = {s \in session : s.user # a}
    BY <1>4 DEF ResetPassword
  <2>5. link' = [WithState({m \in LinksOf(a, "reset") : link[m].state # "used"}, "gone")
                   EXCEPT ![l].state = "used"]
    BY <1>4 DEF ResetPassword
  <2>6. UNCHANGED <<org, mailed, opened, origin, blind>>
    BY DEF ResetPassword
  <2>. HIDE DEF p
  <2>7. Resets(r, l, p)
    BY <1>1, <1>2, <1>4, <2>2, <2>3, <2>4, <2>5, <2>6 DEF Resets, Claims
  <2>. QED
    BY <1>2, <2>2, <2>7
<1>. QED
  BY <1>3, <1>4

LEMMA VerifyEmailStep ==
  ASSUME AccountsInv, NEW r \in Req, VerifyEmail(r)
  PROVE  Calm(r) \/ \E l \in Link, p \in Person : Confirms(r, l, p)
<1>1. PICK l \in mailed : VerifyEmail(r)!(l)
  BY DEF VerifyEmail
<1>. DEFINE a == link[l].user
            p == [user[a] EXCEPT !.verified = TRUE]
<1>2. Finishes(r) /\ Proceeds(r) /\ l \in Link /\ link[l].kind = "confirmation"
  BY <1>1, LeaveMoves DEF Step, AccountsInv, RowsOK
<1>3. UNCHANGED <<org, session, mailed, ghosts>>
  BY <1>1
<1>4. CASE UNCHANGED <<link, user>>
  BY <1>2, <1>3, <1>4 DEF Calm, tables
<1>5. CASE /\ Live(l) /\ link' = WithState({l}, "used")
           /\ user' = [user EXCEPT ![a].verified = TRUE]
  <2>1. a \in Present /\ a \in Account /\ user[a] \in Person
    BY <1>2, <1>5, PresentRow DEF AccountsInv, NoOrphans
  <2>2. p \in Person
    BY <2>1 DEF Person
  <2>3. p.org = user[a].org /\ p.role = user[a].role
    BY <2>1 DEF Person
  <2>4. user' = [user EXCEPT ![a] = p]
    BY <1>5
  <2>. HIDE DEF p
  <2>5. Confirms(r, l, p)
    BY <1>2, <1>3, <1>5, <2>2, <2>3, <2>4 DEF Confirms
  <2>. QED
    BY <1>2, <2>2, <2>5
<1>6. \/ UNCHANGED <<link, user>>
      \/ /\ Live(l) /\ link' = WithState({l}, "used")
         /\ user' = [user EXCEPT ![a].verified = TRUE]
  BY <1>1
<1>. QED
  BY <1>4, <1>5, <1>6

\* Nothing of what follows moves.
Still == UNCHANGED <<tables, ghosts, mailed, request>>

Tells(r) ==
  \/ Calm(r) \/ Closes(r)
  \/ \E a \in Account : Opens(r, a) \/ Removes(r, a)
  \/ \E a \in Account, p \in Person : Founds(r, a, p) \/ Regrades(r, a, p)
  \/ \E ls \in SUBSET Link, row \in LinkRow : Issues(r, ls, row)
  \/ \E l \in Link, a \in Account, p \in Person : Accepts(r, l, a, p)
  \/ \E l \in Link, p \in Person : Resets(r, l, p) \/ Confirms(r, l, p)

LEMMA StepCases ==
  ASSUME AccountsInv, [AccountsNext]_accountVars
  PROVE  \/ Still
         \/ \E ls \in SUBSET Link, s \in {"gone", "lapsed"} : Marks(ls, s)
         \/ \E r \in Req : Tells(r)
<1>1. CASE Tick \/ UNCHANGED accountVars
  BY <1>1 DEF Tick, accountVars, Still
<1>2. ASSUME NEW l \in Link, Lapse(l) PROVE Marks({l}, "lapsed")
  BY <1>2, LapseMarks
<1>3. ASSUME NEW r \in Req,
             LoginArrive(r) \/ SignupArrive(r) \/ AcceptArrive(r) \/ ResetArrive(r)
             \/ ForgotArrive(r) \/ ResendArrive(r)
      PROVE  Calm(r)
  BY <1>3, LoginArriveCalm, SignupArriveCalm, RedeemingCalm, ForgotArriveCalm, ResendArriveCalm
<1>4. ASSUME NEW r \in Req,
             RoleArrive(r) \/ RemoveArrive(r) \/ InviteArrive(r) \/ Acquire(r) \/ Shed(r)
             \/ Drop(r) \/ LoginVerify(r) \/ SendInvitation(r) \/ ReadOwners(r)
      PROVE  Calm(r)
  BY <1>4, ManagingCalm, QuietCalm
<1>5. ASSUME NEW r \in Req,
             LoginInsert(r) \/ AcceptInsert(r) \/ Logout(r) \/ SignUp(r) \/ SetRole(r)
             \/ RemoveMember(r)
      PROVE  Tells(r)
  BY <1>5, SessionStep, LogoutCloses, SignUpStep, SetRoleStep, RemoveMemberStep DEF Tells
<1>6. ASSUME NEW r \in Req,
             CreateInvitation(r) \/ CreatePasswordReset(r) \/ CreateEmailVerification(r)
             \/ AcceptClaim(r) \/ ResetPassword(r) \/ VerifyEmail(r)
      PROVE  Tells(r)
  BY <1>6, CreateInvitationStep, IssueStep, AcceptClaimStep, ResetPasswordStep, VerifyEmailStep
     DEF Tells
<1>7. ASSUME NEW r \in Req,
             WithdrawUnsent(r) \/ RevokeInvitation(r) \/ ClearConfirmations(r)
      PROVE  Tells(r) \/ \E ls \in SUBSET Link : Marks(ls, "gone")
  BY <1>7, WithdrawStep DEF Tells
<1>. QED
  BY <1>1, <1>2, <1>3, <1>4, <1>5, <1>6, <1>7 DEF AccountsNext, Tells

-----------------------------------------------------------------------------
(***************************************************************************)
(* What a step leaves of the links                                         *)
(***************************************************************************)
\* All of a row but its state.
Same(l) ==
  /\ link'[l].kind = link[l].kind /\ link'[l].org = link[l].org /\ link'[l].email = link[l].email
  /\ link'[l].role = link[l].role /\ link'[l].user = link[l].user /\ link'[l].gen = link[l].gen

LEMMA MarkedLinks ==
  ASSUME link \in [Link -> LinkRow], NEW ls, NEW s \in LinkState, link' = WithState(ls, s)
  PROVE  /\ link' \in [Link -> LinkRow]
         /\ \A l \in Link : Same(l)
         /\ \A l \in Link : l \in ls => link'[l].state = s
         /\ \A l \in Link : l \notin ls => link'[l] = link[l]
<1>. DEFINE n == WithState(ls, s)
<1>1. /\ n \in [Link -> LinkRow]
      /\ \A l \in Link : l \notin ls => n[l] = link[l]
      /\ \A l \in Link : l \in ls =>
           /\ n[l].state = s
           /\ n[l].kind = link[l].kind /\ n[l].org = link[l].org /\ n[l].email = link[l].email
           /\ n[l].role = link[l].role /\ n[l].user = link[l].user /\ n[l].gen = link[l].gen
  BY WithStateRows
<1>2. link' = n
  OBVIOUS
<1>. HIDE DEF n
<1>. QED
  BY <1>1, <1>2 DEF Same

LEMMA IssuedLinks ==
  ASSUME AccountsInv, NEW r \in Req, NEW ls \in SUBSET Link, NEW row \in LinkRow, Issues(r, ls, row)
  PROVE  /\ link' \in [Link -> LinkRow] /\ link[r] = NoLink /\ link'[r] = row
         /\ \A l \in Link : l # r => Same(l) /\ (l \in ls => link'[l].state = "gone")
         /\ \A l \in Link : l # r /\ l \notin ls => link'[l] = link[l]
<1>. DEFINE n == WithState(ls, "gone")
<1>1. /\ n \in [Link -> LinkRow]
      /\ \A l \in Link : l \notin ls => n[l] = link[l]
      /\ \A l \in Link : l \in ls =>
           /\ n[l].state = "gone"
           /\ n[l].kind = link[l].kind /\ n[l].org = link[l].org /\ n[l].email = link[l].email
           /\ n[l].role = link[l].role /\ n[l].user = link[l].user /\ n[l].gen = link[l].gen
  BY WithStateRows DEF AccountsInv, RowsOK, LinkState
<1>2. link' = [n EXCEPT ![r] = row]
  BY DEF Issues
<1>3. r \in Link
  BY DEF Link
<1>4. link[r] = NoLink
  BY DEF Issues, AccountsInv, Issuing
<1>. HIDE DEF n
<1>5. link' \in [Link -> LinkRow] /\ link'[r] = row
  BY <1>1, <1>2, <1>3
<1>6. \A l \in Link : l # r => link'[l] = n[l]
  BY <1>1, <1>2
<1>. QED
  BY <1>1, <1>4, <1>5, <1>6 DEF Same

LEMMA SpentLinks ==
  ASSUME AccountsInv, NEW r \in Req, NEW l \in Link, NEW p \in Person, Resets(r, l, p)
  PROVE  /\ link' \in [Link -> LinkRow]
         /\ \A m \in Link : Same(m)
         /\ link'[l].state = "used"
         /\ \A m \in Link : m # l =>
              IF m \in LinksOf(link[l].user, "reset") /\ link[m].state # "used"
              THEN link'[m].state = "gone" ELSE link'[m] = link[m]
<1>. DEFINE ls == {m \in LinksOf(link[l].user, "reset") : link[m].state # "used"}
            n == WithState(ls, "gone")
<1>1. /\ n \in [Link -> LinkRow]
      /\ \A m \in Link : m \notin ls => n[m] = link[m]
      /\ \A m \in Link : m \in ls =>
           /\ n[m].state = "gone"
           /\ n[m].kind = link[m].kind /\ n[m].org = link[m].org /\ n[m].email = link[m].email
           /\ n[m].role = link[m].role /\ n[m].user = link[m].user /\ n[m].gen = link[m].gen
  BY WithStateRows DEF AccountsInv, RowsOK, LinkState
<1>2. link' = [n EXCEPT ![l] = [n[l] EXCEPT !.state = "used"]]
  BY DEF Resets
<1>3. \A m \in Link : m \in ls <=> m \in LinksOf(link[l].user, "reset") /\ link[m].state # "used"
  OBVIOUS
<1>. HIDE DEF n, ls
<1>4. ASSUME NEW q \in LinkRow
      PROVE  LET x == [q EXCEPT !.state = "used"] IN
               /\ x \in LinkRow /\ x.state = "used" /\ x.kind = q.kind /\ x.org = q.org
               /\ x.email = q.email /\ x.role = q.role /\ x.user = q.user /\ x.gen = q.gen
  <2>. DEFINE x == [q EXCEPT !.state = "used"]
  <2>1. x \in LinkRow
    BY DEF LinkRow, LinkState
  <2>2. x.state = "used" /\ x.kind = q.kind /\ x.org = q.org /\ x.email = q.email
    BY DEF LinkRow
  <2>3. x.role = q.role /\ x.user = q.user /\ x.gen = q.gen
    BY DEF LinkRow
  <2>. QED
    BY <2>1, <2>2, <2>3
<1>5. n[l] \in LinkRow
  BY <1>1
<1>. DEFINE x == [n[l] EXCEPT !.state = "used"]
<1>6. /\ x \in LinkRow /\ x.state = "used" /\ x.kind = n[l].kind /\ x.org = n[l].org
      /\ x.email = n[l].email /\ x.role = n[l].role /\ x.user = n[l].user /\ x.gen = n[l].gen
  BY <1>4, <1>5
<1>7. link' = [n EXCEPT ![l] = x]
  BY <1>2
<1>. HIDE DEF x
<1>8. link' \in [Link -> LinkRow] /\ link'[l] = x
  BY <1>1, <1>6, <1>7
<1>9. \A m \in Link : m # l => link'[m] = n[m]
  BY <1>1, <1>7
<1>10. Same(l)
  BY <1>1, <1>6, <1>8 DEF Same
<1>11. ASSUME NEW m \in Link, m # l
       PROVE  Same(m) /\ (IF m \in ls THEN link'[m].state = "gone" ELSE link'[m] = link[m])
  BY <1>1, <1>9, <1>11 DEF Same
<1>. QED
  BY <1>3, <1>6, <1>8, <1>10, <1>11

\* A link is stored by the request whose id it has, for somebody who has an account.
Born(l) ==
  /\ l \in Req /\ link[l] = NoLink
  /\ request[l].step \notin {"send", "done"} /\ request'[l].step \in {"send", "done"}
  /\ link'[l].state = "live" /\ link'[l].kind # "none"
  /\ link'[l].kind = "invitation" =>
       request[l].step = "place" /\ link'[l].org \in Org /\ link'[l].email \in Address /\ link'[l].role \in AllRoles
  /\ link'[l].kind \in {"reset", "confirmation"} => link'[l].user \in Present
  /\ link'[l].kind = "reset" => link'[l].gen = generation[link'[l].user]
  /\ UNCHANGED <<user, org, session, ghosts>>

Ends(l) ==
  /\ link[l].state # "none" /\ Same(l)
  /\ link'[l].state \in {"used", "gone", "lapsed"}

Told ==
  \/ Still
  \/ \E ls \in SUBSET Link, s \in {"gone", "lapsed"} : Marks(ls, s)
  \/ \E r \in Req : Tells(r)

LEMMA LinkStep ==
  ASSUME AccountsInv, Told
  PROVE  /\ link' \in [Link -> LinkRow]
         /\ \A l \in Link : link'[l] = link[l] \/ Ends(l) \/ Born(l)
<1>. USE DEF AccountsInv, RowsOK, LinkState
<1>1. CASE link' = link
  BY <1>1
<1>2. ASSUME NEW ls \in SUBSET Link, NEW s \in {"gone", "lapsed"}, Marks(ls, s)
      PROVE  /\ link' \in [Link -> LinkRow]
             /\ \A l \in Link : link'[l] = link[l] \/ Ends(l)
  <2>1. link' = WithState(ls, s) /\ \A l \in ls : link[l].state # "none"
    BY <1>2 DEF Marks
  <2>. QED
    BY <2>1, MarkedLinks DEF Ends
<1>3. ASSUME NEW r \in Req, NEW a \in Account, Removes(r, a)
      PROVE  /\ link' \in [Link -> LinkRow]
             /\ \A l \in Link : link'[l] = link[l] \/ Ends(l)
  <2>. DEFINE ls == LinksOf(a, "reset") \cup LinksOf(a, "confirmation")
  <2>1. link' = WithState(ls, "gone") /\ \A l \in ls : link[l].state # "none"
    BY <1>3 DEF Removes, LinksOf
  <2>. HIDE DEF ls
  <2>. QED
    BY <2>1, MarkedLinks DEF Ends
<1>4. ASSUME NEW l \in Link, link[l].state = "live", link' = WithState({l}, "used")
      PROVE  /\ link' \in [Link -> LinkRow]
             /\ \A m \in Link : link'[m] = link[m] \/ Ends(m)
  <2>. DEFINE ls == {l}
  <2>1. link' = WithState(ls, "used") /\ l \in ls /\ \A m : m # l => m \notin ls
    BY <1>4
  <2>. HIDE DEF ls
  <2>2. /\ link' \in [Link -> LinkRow] /\ Same(l) /\ link'[l].state = "used"
        /\ \A m \in Link : m # l => link'[m] = link[m]
    BY <2>1, MarkedLinks
  <2>. QED
    BY <1>4, <2>2 DEF Ends
<1>5. ASSUME NEW r \in Req, NEW l \in Link, NEW p \in Person, Resets(r, l, p)
      PROVE  /\ link' \in [Link -> LinkRow]
             /\ \A m \in Link : link'[m] = link[m] \/ Ends(m)
  <2>1. link[l].state # "none" /\ \A m \in LinksOf(link[l].user, "reset") : link[m].state # "none"
    BY <1>5 DEF Resets, Live, LinksOf
  <2>. QED
    BY <1>5, <2>1, SpentLinks DEF Ends
<1>6. ASSUME NEW r \in Req, NEW ls \in SUBSET Link, NEW row \in LinkRow, Issues(r, ls, row)
      PROVE  /\ link' \in [Link -> LinkRow]
             /\ \A l \in Link : link'[l] = link[l] \/ Ends(l) \/ Born(l)
  <2>1. \A l \in ls : link[l].state # "none"
    BY <1>6 DEF Issues
  <2>2. link' \in [Link -> LinkRow] /\ link[r] = NoLink /\ link'[r] = row
    BY <1>6, IssuedLinks
  <2>3. \A l \in Link : l # r => link'[l] = link[l] \/ Ends(l)
    BY <1>6, <2>1, IssuedLinks DEF Ends
  <2>4. Born(r)
    BY <1>6, <2>2 DEF Born, Issues
  <2>. QED
    BY <2>2, <2>3, <2>4
<1>7. ASSUME NEW r \in Req, NEW l \in Link, NEW a \in Account, NEW p \in Person, Accepts(r, l, a, p)
      PROVE  link[l].state = "live" /\ link' = WithState({l}, "used")
  BY <1>7 DEF Accepts, Live
<1>8. ASSUME NEW r \in Req, NEW l \in Link, NEW p \in Person, Confirms(r, l, p)
      PROVE  link[l].state = "live" /\ link' = WithState({l}, "used")
  BY <1>8 DEF Confirms, Live
<1>9. ASSUME NEW r \in Req, NEW a \in Account, NEW p \in Person,
             Calm(r) \/ Closes(r) \/ Opens(r, a) \/ Founds(r, a, p) \/ Regrades(r, a, p)
      PROVE  link' = link
  BY <1>9 DEF Calm, Closes, Opens, Founds, Regrades, tables
<1>10. CASE Still
  BY <1>1, <1>10 DEF Still, tables
<1>11. ASSUME NEW r \in Req, Calm(r) \/ Closes(r) PROVE link' = link
  BY <1>11 DEF Calm, Closes, tables
<1>12. ASSUME NEW r \in Req, NEW a \in Account, Opens(r, a) PROVE link' = link
  BY <1>12 DEF Opens
<1>. QED
  BY <1>1, <1>2, <1>3, <1>4, <1>5, <1>6, <1>7, <1>8, <1>9, <1>10, <1>11, <1>12 DEF Told, Tells

LEMMA RequestStep ==
  ASSUME AccountsInv, Told
  PROVE  /\ request' \in [Req -> Request]
         /\ \A q \in Req : Fits(request'[q])
         /\ \A q \in Req : Carries(request[q], request'[q])
         /\ \A q \in Req :
              \/ request'[q] = request[q]
              \/ /\ request[q].step # "done"
                 /\ \/ request'[q].step = "done"
                    \/ {request[q].step, request'[q].step} \cap {"send", "done"} = {}
                    \/ request[q].step \notin {"send", "done"} /\ link'[q].state = "live"
<1>0. \A q : Carries(q, q)
  BY DEF Carries
<1>1. CASE request' = request
  BY <1>0, <1>1 DEF AccountsInv, RequestsOK
<1>2. ASSUME NEW r \in Req, Proceeds(r) \/ Finishes(r)
      PROVE  /\ Moves(r)
             /\ request'[r].step = "done"
                \/ {request[r].step, request'[r].step} \cap {"send", "done"} = {}
  BY <1>2 DEF Proceeds, Finishes
<1>3. ASSUME NEW r \in Req, NEW ls \in SUBSET Link, NEW row \in LinkRow, Issues(r, ls, row)
      PROVE  Moves(r) /\ request[r].step \notin {"send", "done"} /\ link'[r].state = "live"
  BY <1>3, IssuedLinks DEF Issues
<1>4. ASSUME NEW r \in Req, Moves(r)
      PROVE  /\ request' \in [Req -> Request] /\ request[r].step # "done"
             /\ \A q \in Req : Fits(request'[q])
             /\ \A q \in Req : q # r => request'[q] = request[q]
             /\ Carries(request[r], request'[r])
  BY <1>4 DEF Moves, AccountsInv, RequestsOK
<1>5. ASSUME NEW r \in Req, Tells(r)
      PROVE  \/ Proceeds(r) \/ Finishes(r)
             \/ \E ls \in SUBSET Link, row \in LinkRow : Issues(r, ls, row)
  BY <1>5 DEF Tells, Calm, Closes, Opens, Founds, Regrades, Removes, Accepts, Resets, Confirms
<1>6. \/ request' = request
      \/ \E r \in Req : Proceeds(r) \/ Finishes(r)
      \/ \E r \in Req, ls \in SUBSET Link, row \in LinkRow : Issues(r, ls, row)
  BY <1>5 DEF Told, Still, Marks
<1>. QED
  BY <1>0, <1>1, <1>2, <1>3, <1>4, <1>6

-----------------------------------------------------------------------------
(***************************************************************************)
(* AccountsInv is inductive                                                *)
(***************************************************************************)
LEMMA RequestsKept ==
  ASSUME AccountsInv, Told
  PROVE  RequestsOK' /\ Issuing'
<1>1. \A l \in Link : link[l].kind # "none" => link'[l].kind = link[l].kind
  BY LinkStep DEF Ends, Same, Born, NoLink
<1>2. ASSUME NEW q \in Req PROVE Fits(request[q])'
  <2>1. Fits(request'[q])
    BY RequestStep
  <2>. QED
    BY <1>1, <2>1 DEF Fits
<1>3. request' \in [Req -> Request]
  BY RequestStep
<1>4. RequestsOK'
  BY <1>2, <1>3 DEF RequestsOK
<1>5. ASSUME NEW q \in Req
      PROVE  /\ request'[q].step \notin {"send", "done"} => link'[q] = NoLink
             /\ request'[q].step = "send" => link'[q].state # "none"
  <2>. q \in Link
    BY DEF Link
  <2>1. link'[q] = link[q] \/ Ends(q) \/ Born(q)
    BY LinkStep
  <2>2. /\ request[q].step \notin {"send", "done"} => link[q] = NoLink
        /\ request[q].step = "send" => link[q].state # "none"
    BY DEF AccountsInv, Issuing
  <2>3. \/ request'[q] = request[q]
        \/ /\ request[q].step # "done"
           /\ \/ request'[q].step = "done"
              \/ {request[q].step, request'[q].step} \cap {"send", "done"} = {}
              \/ request[q].step \notin {"send", "done"} /\ link'[q].state = "live"
    BY RequestStep
  <2>4. CASE request'[q] = request[q]
    BY <2>1, <2>2, <2>4 DEF Ends, Born, NoLink
  <2>5. CASE request'[q].step = "done"
    BY <2>5
  <2>6. CASE {request[q].step, request'[q].step} \cap {"send", "done"} = {}
    <3>1. request[q].step \notin {"send", "done"} /\ request'[q].step \notin {"send", "done"}
      BY <2>6
    <3>. QED
      BY <2>1, <2>2, <3>1 DEF Ends, Born, NoLink
  <2>7. CASE request[q].step \notin {"send", "done"} /\ link'[q].state = "live"
    BY <2>1, <2>2, <2>7 DEF Ends, Born, NoLink
  <2>. QED
    BY <2>3, <2>4, <2>5, <2>6, <2>7
<1>. QED
  BY <1>4, <1>5 DEF Issuing

LEMMA RowsKept ==
  ASSUME AccountsInv, Told
  PROVE  RowsOK'
<1>. USE DEF AccountsInv, RowsOK
<1>1. link' \in [Link -> LinkRow] /\ \A l \in Link : Invites(l)'
  BY LinkStep DEF Invites, Ends, Same, Born
<1>. DEFINE Columns ==
       /\ user' \in [Account -> Person \cup {None}]
       /\ org' \subseteq Org
       /\ session' \subseteq [by : Req \cup {Before}, user : Account]
       /\ mailed' \subseteq Link
       /\ generation' \in [Account -> Nat]
       /\ opened' \in [Req \cup {Before} -> Nat \cup {None}]
       /\ overtaken' \in [Req \cup {Before} -> Nat \cup {None}]
       /\ origin' \in [Account -> Link \cup {Before, None}]
<1>2. ASSUME Still PROVE Columns
  BY <1>2 DEF Still, tables, ghosts
<1>3. ASSUME NEW ls \in SUBSET Link, NEW s \in {"gone", "lapsed"}, Marks(ls, s) PROVE Columns
  BY <1>3 DEF Marks, ghosts
<1>4. ASSUME NEW r \in Req, Calm(r) \/ Closes(r) PROVE Columns
  BY <1>4 DEF Calm, Closes, tables, ghosts, Link
<1>5. ASSUME NEW r \in Req, NEW a \in Account, Opens(r, a) PROVE Columns
  BY <1>5 DEF Opens, RequestsOK, Request
<1>6. ASSUME NEW r \in Req, NEW a \in Account, Removes(r, a) PROVE Columns
  BY <1>6 DEF Removes
<1>7. ASSUME NEW r \in Req, NEW a \in Account, NEW p \in Person, Founds(r, a, p) PROVE Columns
  <2>1. p.org \in Org /\ r \in Link
    BY DEF Person, Link
  <2>2. org' \subseteq Org /\ session' \subseteq [by : Req \cup {Before}, user : Account]
    BY <1>7, <2>1 DEF Founds
  <2>3. /\ opened' \in [Req \cup {Before} -> Nat \cup {None}]
        /\ overtaken' \in [Req \cup {Before} -> Nat \cup {None}]
        /\ generation' \in [Account -> Nat] /\ mailed' \subseteq Link
    BY <1>7 DEF Founds
  <2>4. user' \in [Account -> Person \cup {None}]
        /\ origin' \in [Account -> Link \cup {Before, None}]
    BY <1>7, <2>1 DEF Founds
  <2>. QED
    BY <2>2, <2>3, <2>4
<1>8. ASSUME NEW r \in Req, NEW a \in Account, NEW p \in Person, Regrades(r, a, p) PROVE Columns
  BY <1>8 DEF Regrades
<1>9. ASSUME NEW r \in Req, NEW ls \in SUBSET Link, NEW row \in LinkRow, Issues(r, ls, row)
      PROVE  Columns
  BY <1>9 DEF Issues, ghosts, Link
<1>10. ASSUME NEW r \in Req, NEW l \in Link, NEW a \in Account, NEW p \in Person,
             Accepts(r, l, a, p)
      PROVE  Columns
  BY <1>10 DEF Accepts
<1>11. ASSUME NEW r \in Req, NEW l \in Link, NEW p \in Person, Resets(r, l, p) PROVE Columns
  <2>1. link[l].user \in Account
    BY <1>11 DEF Resets, NoOrphans, Live, Present
  <2>2. user' \in [Account -> Person \cup {None}] /\ generation' \in [Account -> Nat]
    BY <1>11, <2>1 DEF Resets
  <2>3. overtaken' \in [Req \cup {Before} -> Nat \cup {None}]
    BY <1>11, <2>1 DEF Resets, Overtake
  <2>. QED
    BY <1>11, <2>2, <2>3 DEF Resets
<1>12. ASSUME NEW r \in Req, NEW l \in Link, NEW p \in Person, Confirms(r, l, p) PROVE Columns
  BY <1>12 DEF Confirms, ghosts
<1>13. Columns
  BY <1>2, <1>4, <1>5, <1>6, <1>7, <1>8, <1>9, <1>10, <1>11, <1>12,
     <1>3 DEF Told, Tells
<1>. QED
  BY <1>1, <1>13

\* Who has an account: nobody loses one but by being removed, and a new one says what made it.
LEMMA PresentStep ==
  ASSUME AccountsInv, Told
  PROVE  /\ \/ Present \subseteq Present'
            \/ \E r \in Req, a \in Account : Removes(r, a) /\ Present' = Present \ {a}
         /\ \A a \in Present' : origin'[a] # None
<1>. USE DEF AccountsInv, RowsOK
<1>1. None \notin Person /\ None \notin Link
  BY StandingAssumption
<1>2. \A a \in Present : a \in Account /\ origin[a] # None
  BY DEF NoOrphans, Present
<1>3. ASSUME UNCHANGED <<user, origin>>
      PROVE  Present \subseteq Present' /\ \A a \in Present' : origin'[a] # None
  BY <1>2, <1>3 DEF Present
<1>4. ASSUME NEW a \in Account, NEW p \in Person, user' = [user EXCEPT ![a] = p],
             a \in Present, origin' = origin
      PROVE  Present \subseteq Present' /\ \A b \in Present' : origin'[b] # None
  BY <1>1, <1>2, <1>4 DEF Present
<1>5. ASSUME NEW a \in Account, NEW p \in Person, NEW l \in Link,
             user' = [user EXCEPT ![a] = p], origin' = [origin EXCEPT ![a] = l]
      PROVE  Present \subseteq Present' /\ \A b \in Present' : origin'[b] # None
  BY <1>1, <1>2, <1>5 DEF Present
<1>6. ASSUME NEW r \in Req, NEW a \in Account, Removes(r, a)
      PROVE  Present' = Present \ {a} /\ \A b \in Present' : origin'[b] # None
  BY <1>2, <1>6 DEF Removes, Present
<1>7. ASSUME NEW r \in Req, Calm(r) \/ Closes(r) PROVE UNCHANGED <<user, origin>>
  BY <1>7 DEF Calm, Closes, tables, ghosts
<1>8. ASSUME NEW r \in Req, NEW a \in Account, Opens(r, a) PROVE UNCHANGED <<user, origin>>
  BY <1>8 DEF Opens
<1>9. ASSUME NEW r \in Req, NEW ls \in SUBSET Link, NEW row \in LinkRow, Issues(r, ls, row)
      PROVE  UNCHANGED <<user, origin>>
  BY <1>9 DEF Issues, ghosts
<1>10. ASSUME NEW ls \in SUBSET Link, NEW s \in {"gone", "lapsed"}, Marks(ls, s)
       PROVE  UNCHANGED <<user, origin>>
  BY <1>10 DEF Marks, ghosts
<1>11. ASSUME Still PROVE UNCHANGED <<user, origin>>
  BY <1>11 DEF Still, tables, ghosts
<1>12. ASSUME NEW r \in Req, NEW l \in Link, NEW p \in Person, Resets(r, l, p) \/ Confirms(r, l, p)
       PROVE  /\ link[l].user \in Present /\ link[l].user \in Account
              /\ user' = [user EXCEPT ![link[l].user] = p] /\ origin' = origin
  BY <1>2, <1>12 DEF Resets, Confirms, NoOrphans, ghosts
<1>13. ASSUME NEW r \in Req, NEW a \in Account, NEW p \in Person, Founds(r, a, p)
       PROVE  r \in Link /\ user' = [user EXCEPT ![a] = p] /\ origin' = [origin EXCEPT ![a] = r]
  BY <1>13 DEF Founds, Link
<1>14. ASSUME NEW r \in Req, NEW a \in Account, NEW p \in Person, Regrades(r, a, p)
       PROVE  a \in Present /\ user' = [user EXCEPT ![a] = p] /\ origin' = origin
  BY <1>14 DEF Regrades
<1>15. ASSUME NEW r \in Req, NEW l \in Link, NEW a \in Account, NEW p \in Person,
              Accepts(r, l, a, p)
       PROVE  user' = [user EXCEPT ![a] = p] /\ origin' = [origin EXCEPT ![a] = l]
  BY <1>15 DEF Accepts
<1>16. ASSUME NEW r \in Req, Tells(r)
       PROVE  \/ Present \subseteq Present' /\ \A a \in Present' : origin'[a] # None
              \/ \E a \in Account : Removes(r, a)
  BY <1>3, <1>4, <1>5, <1>7, <1>8, <1>9, <1>12, <1>13, <1>14, <1>15, <1>16 DEF Tells
<1>. QED
  BY <1>3, <1>6, <1>10, <1>11, <1>16 DEF Told

\* A session that is there was there before, or was opened now for somebody who has an account.
Stamps(r, a) ==
  \E g \in {request[r].gen, generation[a]} :
    /\ opened' = [opened EXCEPT ![r] = g]
    /\ g = generation[a] \/ (Signs(request[r]) /\ request[r].user = a)

LEMMA SessionStepCases ==
  ASSUME AccountsInv, Told
  PROVE  \/ session' \subseteq session /\ opened' = opened
         \/ \E r \in Req, a \in Account :
              /\ session' = session \cup {[by |-> r, user |-> a]}
              /\ Stamps(r, a) /\ UNCHANGED <<generation, overtaken, link>>
              /\ a \in Present' /\ ~Past(request[r]) /\ Past(request'[r])
<1>1. ASSUME NEW r \in Req, NEW a \in Account, Opens(r, a)
      PROVE  /\ session' = session \cup {[by |-> r, user |-> a]}
             /\ Stamps(r, a) /\ UNCHANGED <<generation, overtaken, link>>
             /\ a \in Present' /\ ~Past(request[r]) /\ Past(request'[r])
  BY <1>1 DEF Opens, Present, Finishes, Stamps, Signs, Past, Late
<1>2. ASSUME NEW r \in Req, NEW a \in Account, NEW p \in Person, Founds(r, a, p)
      PROVE  /\ session' = session \cup {[by |-> r, user |-> a]}
             /\ Stamps(r, a) /\ UNCHANGED <<generation, overtaken, link>>
             /\ a \in Present' /\ ~Past(request[r]) /\ Past(request'[r])
  BY <1>2, StandingAssumption DEF Founds, Present, Stamps, Past, Late, AccountsInv, RowsOK
<1>3. ASSUME NEW r \in Req, Tells(r)
      PROVE  \/ session' \subseteq session /\ opened' = opened
             \/ \E a \in Account, p \in Person : Opens(r, a) \/ Founds(r, a, p)
  <2>1. ASSUME Calm(r) \/ Closes(r) PROVE session' \subseteq session /\ opened' = opened
    BY <2>1 DEF Calm, Closes, tables, ghosts
  <2>2. ASSUME NEW a \in Account, Opens(r, a) PROVE \E b \in Account, p \in Person : Opens(r, b)
    <3>1. user[a] \in Person
      BY <2>2, PresentRow DEF Opens, AccountsInv
    <3>. QED
      BY <2>2, <3>1
  <2>3. ASSUME NEW a \in Account, Removes(r, a) PROVE session' \subseteq session /\ opened' = opened
    BY <2>3 DEF Removes
  <2>4. ASSUME NEW a \in Account, NEW p \in Person, Regrades(r, a, p)
        PROVE  session' \subseteq session /\ opened' = opened
    BY <2>4 DEF Regrades
  <2>5. ASSUME NEW ls \in SUBSET Link, NEW row \in LinkRow, Issues(r, ls, row)
        PROVE  session' \subseteq session /\ opened' = opened
    BY <2>5 DEF Issues, ghosts
  <2>6. ASSUME NEW l \in Link, NEW a \in Account, NEW p \in Person, Accepts(r, l, a, p)
        PROVE  session' \subseteq session /\ opened' = opened
    BY <2>6 DEF Accepts
  <2>7. ASSUME NEW l \in Link, NEW p \in Person, Resets(r, l, p) \/ Confirms(r, l, p)
        PROVE  session' \subseteq session /\ opened' = opened
    BY <2>7 DEF Resets, Confirms, ghosts
  <2>. QED
    BY <1>3, <2>1, <2>2, <2>3, <2>4, <2>5, <2>6, <2>7 DEF Tells
<1>4. ASSUME Still \/ \E ls \in SUBSET Link, s \in {"gone", "lapsed"} : Marks(ls, s)
      PROVE  session' \subseteq session /\ opened' = opened
  BY <1>4 DEF Still, Marks, tables, ghosts
<1>. QED
  BY <1>1, <1>2, <1>3, <1>4 DEF Told

LEMMA OrphansKept ==
  ASSUME AccountsInv, Told
  PROVE  NoOrphans'
<1>1. ASSUME NEW s \in session' PROVE s.user \in Present'
  <2>1. CASE Present \subseteq Present'
    BY <1>1, <2>1, SessionStepCases DEF AccountsInv, NoOrphans
  <2>2. ASSUME NEW r \in Req, NEW a \in Account, Removes(r, a), Present' = Present \ {a}
        PROVE  s.user \in Present'
    BY <1>1, <2>2 DEF Removes, AccountsInv, NoOrphans
  <2>. QED
    BY <2>1, <2>2, PresentStep
<1>2. ASSUME NEW l \in Link, Live(l)', link'[l].kind \in {"reset", "confirmation"}
      PROVE  link'[l].user \in Present'
  <2>1. link'[l] = link[l] \/ Born(l)
    BY <1>2, LinkStep DEF Live, Ends
  <2>2. CASE Born(l)
    BY <1>2, <2>2 DEF Born, Present
  <2>3. CASE link'[l] = link[l]
    <3>1. link[l].user \in Present
      BY <1>2, <2>3 DEF Live, AccountsInv, NoOrphans
    <3>2. CASE Present \subseteq Present'
      BY <2>3, <3>1, <3>2
    <3>3. ASSUME NEW r \in Req, NEW a \in Account, Removes(r, a), Present' = Present \ {a}
          PROVE  link'[l].user \in Present'
      <4>1. link[l].user # a
        <5>. SUFFICES ASSUME link[l].user = a PROVE FALSE
          OBVIOUS
        <5>. DEFINE ls == LinksOf(a, "reset") \cup LinksOf(a, "confirmation")
        <5>1. l \in ls
          BY <1>2, <2>3 DEF LinksOf, Live
        <5>2. link' = WithState(ls, "gone")
          BY <3>3 DEF Removes
        <5>. HIDE DEF ls
        <5>3. link'[l].state = "gone"
          BY <5>1, <5>2, MarkedLinks DEF AccountsInv, RowsOK, LinkState
        <5>. QED
          BY <1>2, <5>3 DEF Live
      <4>. QED
        BY <2>3, <3>1, <3>3, <4>1
    <3>. QED
      BY <3>2, <3>3, PresentStep
  <2>. QED
    BY <2>1, <2>2, <2>3
<1>3. \A a \in Present' : origin'[a] # None
  BY PresentStep
<1>. QED
  BY <1>1, <1>2, <1>3 DEF NoOrphans

LEMMA InvKept ==
  ASSUME AccountsInv, Told
  PROVE  AccountsInv'
BY RequestsKept, RowsKept, OrphansKept DEF AccountsInv

LEMMA NewFits == ASSUME TRUE PROVE Fits(New)
<1>1. New.op = "none"
  BY DEF New
<1>. QED
  BY <1>1 DEF Fits

LEMMA InitInv == AccountsInit => AccountsInv
<1>. SUFFICES ASSUME AccountsInit PROVE AccountsInv
  OBVIOUS
<1>. USE DEF AccountsInit
<1>. DEFINE seats == DOMAIN Staff
<1>1. NoLink \in LinkRow /\ NoLink.state = "none" /\ NoLink.kind = "none"
  BY DEF NoLink, LinkRow, LinkKind, LinkState
<1>2. \A l \in DOMAIN Standing :
        /\ Standing[l] \in LinkRow
        /\ Standing[l].kind = "invitation" =>
             Standing[l].org \in Org /\ Standing[l].email \in Address /\ Standing[l].role \in AllRoles
        /\ Standing[l].kind = "confirmation" => FALSE
        /\ Standing[l].kind = "reset" => Standing[l].user \in seats /\ Standing[l].gen = 0
  BY StandingAssumption, AccountsAssumption DEF LinkRow, LinkKind, LinkState
<1>3. \A a \in seats :
        [org |-> Home, email |-> Staff[a].email, role |-> Staff[a].role, pw |-> "first",
         verified |-> FALSE] \in Person
  BY AccountsAssumption DEF Person
<1>4. user \in [Account -> Person \cup {None}]
  BY <1>3
<1>5. Present = seats
  <2>1. None \notin Person /\ seats \subseteq Account
    BY StandingAssumption, AccountsAssumption
  <2>2. \A a \in seats : user[a] # None
    BY <1>3, <2>1
  <2>3. \A a \in Account : a \notin seats => user[a] = None
    OBVIOUS
  <2>. QED
    BY <2>1, <2>2, <2>3 DEF Present
<1>6. \A l \in Link : link[l] = NoLink \/ (l \in DOMAIN Standing /\ link[l] = Standing[l])
  BY DEF Link
<1>7. link \in [Link -> LinkRow]
  BY <1>1, <1>2 DEF Link
<1>8. \A l \in Link : Invites(l)
  BY <1>1, <1>2, <1>6 DEF Invites
<1>9. RowsOK
  <2>1. mailed \subseteq Link /\ org \subseteq Org
    BY AccountsAssumption DEF Link
  <2>2. session \subseteq [by : Req \cup {Before}, user : Account]
    BY AccountsAssumption
  <2>3. /\ generation \in [Account -> Nat]
        /\ opened \in [Req \cup {Before} -> Nat \cup {None}]
        /\ overtaken \in [Req \cup {Before} -> Nat \cup {None}]
    OBVIOUS
  <2>4. origin \in [Account -> Link \cup {Before, None}]
    OBVIOUS
  <2>. QED
    BY <1>4, <1>7, <1>8, <2>1, <2>2, <2>3, <2>4 DEF RowsOK
<1>10. RequestsOK
  BY NewIsARequest, NewFits DEF RequestsOK
<1>11. Issuing
  <2>1. \A r \in Req : request[r] = New /\ link[r] = NoLink
    BY DEF Link
  <2>2. New.step = "new"
    BY DEF New
  <2>. QED
    BY <2>1, <2>2 DEF Issuing
<1>12. NoOrphans
  <2>1. \A s \in session : s.user \in Present
    BY <1>5
  <2>2. \A l \in Link : Live(l) /\ link[l].kind \in {"reset", "confirmation"} => link[l].user \in Present
    BY <1>1, <1>2, <1>5, <1>6 DEF Live
  <2>3. \A a \in Present : origin[a] # None
    BY <1>5, StandingAssumption, AccountsAssumption DEF Before
  <2>. QED
    BY <2>1, <2>2, <2>3 DEF NoOrphans
<1>. QED
  BY <1>9, <1>10, <1>11, <1>12 DEF AccountsInv

-----------------------------------------------------------------------------
(***************************************************************************)
(* An organization keeps an owner                                          *)
(***************************************************************************)
LEMMA OwnersKept ==
  ASSUME AccountsInv, OwnerRemains, Told
  PROVE  OwnerRemains'
<1>. USE DEF AccountsInv, RowsOK
<1>1. None \notin Person
  BY StandingAssumption
<1>2. \A o : \A a \in Owners(o) : a \in Account /\ a \in Present /\ origin[a] # None
                                  /\ user[a] \in Person /\ user[a].org = o /\ user[a].role = Owner
  BY PresentRow DEF Owners, Present, NoOrphans
<1>3. ASSUME UNCHANGED <<user, org>>, blind => blind' PROVE OwnerRemains'
  BY <1>3 DEF OwnerRemains, Owners, Present
<1>4. ASSUME NEW r \in Req, NEW a \in Account, NEW p \in Person, Founds(r, a, p)
      PROVE  OwnerRemains'
  <2>1. \A o : Owners(o) \subseteq Owners(o)'
    BY <1>1, <1>2, <1>4 DEF Founds, Owners, Present
  <2>2. a \in Owners(p.org)'
    BY <1>1, <1>4 DEF Founds, Owners, Present
  <2>. QED
    BY <1>4, <2>1, <2>2 DEF Founds, OwnerRemains
<1>5. ASSUME NEW r \in Req, NEW l \in Link, NEW a \in Account, NEW p \in Person,
             Accepts(r, l, a, p)
      PROVE  OwnerRemains'
  <2>1. \A o : Owners(o) \subseteq Owners(o)'
    BY <1>1, <1>2, <1>5 DEF Accepts, Owners, Present
  <2>. QED
    BY <1>5, <2>1 DEF Accepts, OwnerRemains
<1>6. ASSUME NEW r \in Req, NEW l \in Link, NEW p \in Person, Resets(r, l, p) \/ Confirms(r, l, p)
      PROVE  OwnerRemains'
  <2>. DEFINE a == link[l].user
  <2>1. a \in Account /\ p.org = user[a].org /\ p.role = user[a].role
        /\ user' = [user EXCEPT ![a] = p]
    BY <1>6 DEF Resets, Confirms, NoOrphans, Present
  <2>2. \A o : Owners(o) \subseteq Owners(o)'
    BY <1>1, <1>2, <2>1 DEF Owners, Present
  <2>3. org' = org /\ blind' = blind
    BY <1>6 DEF Resets, Confirms, ghosts
  <2>. QED
    BY <2>2, <2>3 DEF OwnerRemains
<1>7. ASSUME NEW r \in Req, NEW a \in Account, Spares(r, a), a \in Present,
             \A b \in Account : b # a => user'[b] = user[b], org' = org
      PROVE  OwnerRemains'
  <2>1. CASE LockedOwners(r) = {}
    BY <1>7, <2>1 DEF Spares, OwnerRemains
  <2>2. CASE LockedOwners(r) # {}
    <3>1. PICK b \in LockedOwners(r) : b # a
      BY <1>7, <2>2 DEF Spares
    <3>2. PICK home : home = user[a].org
      OBVIOUS
    <3>3. b \in Owners(home)
      BY <1>7, <3>1, <3>2 DEF Spares
    <3>4. b \in Owners(home)'
      BY <1>2, <1>7, <3>1, <3>3 DEF Owners, Present
    <3>5. ASSUME NEW o \in org', ~blind' PROVE Owners(o)' # {}
      <4>1. ~blind /\ o \in org
        BY <1>7, <3>5 DEF Spares
      <4>2. PICK c \in Owners(o) : TRUE
        BY <4>1 DEF OwnerRemains
      <4>3. CASE c = a
        BY <1>2, <3>4, <3>2, <4>2, <4>3
      <4>4. CASE c # a
        BY <1>2, <1>7, <4>2, <4>4 DEF Owners, Present
      <4>. QED
        BY <4>3, <4>4
    <3>. QED
      BY <3>5 DEF OwnerRemains
  <2>. QED
    BY <2>1, <2>2
<1>8. ASSUME NEW r \in Req, NEW a \in Account, ~(user[a].role = Owner), a \in Present,
             \A b \in Account : b # a => user'[b] = user[b], org' = org, blind => blind'
      PROVE  OwnerRemains'
  <2>1. \A o : Owners(o) \subseteq Owners(o)'
    BY <1>2, <1>8 DEF Owners, Present
  <2>. QED
    BY <1>8, <2>1 DEF OwnerRemains
<1>9. ASSUME NEW r \in Req, NEW a \in Account, Removes(r, a) PROVE OwnerRemains'
  <2>1. a \in Present /\ org' = org /\ (blind => blind')
    BY <1>9 DEF Removes
  <2>2. \A b \in Account : b # a => user'[b] = user[b]
    BY <1>9 DEF Removes
  <2>3. user[a].role = Owner => Spares(r, a)
    BY <1>9 DEF Removes
  <2>. QED
    BY <1>7, <1>8, <2>1, <2>2, <2>3
<1>10. ASSUME NEW r \in Req, NEW a \in Account, NEW p \in Person, Regrades(r, a, p)
      PROVE  OwnerRemains'
  <2>1. a \in Present /\ org' = org /\ (blind => blind') /\ p.org = user[a].org
        /\ user' = [user EXCEPT ![a] = p]
    BY <1>10 DEF Regrades
  <2>2. \A b \in Account : b # a => user'[b] = user[b]
    BY <2>1
  <2>3. p.role # Owner /\ user[a].role = Owner => Spares(r, a)
    BY <1>10 DEF Regrades
  <2>4. CASE p.role = Owner
    <3>1. \A o : Owners(o) \subseteq Owners(o)'
      BY <1>1, <1>2, <2>1, <2>4 DEF Owners, Present
    <3>. QED
      BY <2>1, <3>1 DEF OwnerRemains
  <2>. QED
    BY <1>7, <1>8, <2>1, <2>2, <2>3, <2>4
<1>11. ASSUME NEW r \in Req, Tells(r) PROVE OwnerRemains'
  <2>1. ASSUME Calm(r) \/ Closes(r) PROVE OwnerRemains'
    BY <1>3, <2>1 DEF Calm, Closes, tables, ghosts
  <2>2. ASSUME NEW a \in Account, Opens(r, a) PROVE OwnerRemains'
    BY <1>3, <2>2 DEF Opens
  <2>3. ASSUME NEW ls \in SUBSET Link, NEW row \in LinkRow, Issues(r, ls, row) PROVE OwnerRemains'
    <3>1. UNCHANGED <<user, org>> /\ blind' = blind
      BY <2>3 DEF Issues, ghosts, AccountsInv
    <3>. QED
      BY <1>3, <3>1
  <2>. QED
    BY <1>4, <1>5, <1>6, <1>9, <1>10, <1>11, <2>1, <2>2, <2>3 DEF Tells
<1>12. ASSUME Still \/ \E ls \in SUBSET Link, s \in {"gone", "lapsed"} : Marks(ls, s)
       PROVE  OwnerRemains'
  BY <1>3, <1>12 DEF Still, Marks, tables, ghosts
<1>. QED
  BY <1>11, <1>12 DEF Told

LEMMA InitOwners == AccountsInit => OwnerRemains
<1>. SUFFICES ASSUME AccountsInit PROVE OwnerRemains
  OBVIOUS
<1>1. PICK i \in DOMAIN Staff : Staff[i].role = Owner
  BY AccountsAssumption
<1>2. i \in Account /\ org = {Home}
  BY AccountsAssumption DEF AccountsInit
<1>3. user[i] = [org |-> Home, email |-> Staff[i].email, role |-> Staff[i].role, pw |-> "first",
                 verified |-> FALSE]
  BY <1>2 DEF AccountsInit
<1>4. user[i] \in Person
  BY <1>3, AccountsAssumption DEF Person
<1>5. i \in Owners(Home)
  BY <1>1, <1>2, <1>3, <1>4, StandingAssumption DEF Owners, Present
<1>. QED
  BY <1>2, <1>5 DEF OwnerRemains

-----------------------------------------------------------------------------
(***************************************************************************)
(* An invitation makes one account                                         *)
(***************************************************************************)
\* What names an account stays; a new name is that of a sign-up or of the invitation accepted.
LEMMA OriginStep ==
  ASSUME AccountsInv, Told
  PROVE  \/ origin' = origin /\ \A l \in Link :
              link[l].kind = "invitation" \/ link'[l].kind = "invitation" =>
                (link'[l].state = "used" <=> link[l].state = "used")
         \/ \E r \in Req, a \in Account :
              /\ origin[a] = None /\ origin' = [origin EXCEPT ![a] = r]
              /\ request[r].step = "hashing" /\ Past(request'[r]) /\ link' = link
         \/ \E l \in Link, a \in Account :
              /\ origin[a] = None /\ origin' = [origin EXCEPT ![a] = l]
              /\ Live(l) /\ link[l].kind = "invitation" /\ link' = WithState({l}, "used")
<1>. USE DEF AccountsInv, RowsOK
<1>. DEFINE Kept == origin' = origin /\ \A l \in Link :
              link[l].kind = "invitation" \/ link'[l].kind = "invitation" =>
                (link'[l].state = "used" <=> link[l].state = "used")
<1>1. ASSUME origin' = origin, link' = link PROVE Kept
  BY <1>1
<1>2. ASSUME Still PROVE Kept
  BY <1>2 DEF Still, tables, ghosts
<1>3. ASSUME NEW ls \in SUBSET Link, NEW s \in {"gone", "lapsed"}, Marks(ls, s) PROVE Kept
  <2>1. link' = WithState(ls, s) /\ origin' = origin /\ \A l \in ls : link[l].state # "used"
    BY <1>3 DEF Marks, ghosts
  <2>2. \A l \in Link : (l \in ls => link'[l].state = s) /\ (l \notin ls => link'[l] = link[l])
    BY <2>1, MarkedLinks DEF LinkState
  <2>. QED
    BY <2>1, <2>2
<1>4. ASSUME NEW r \in Req, NEW a \in Account, Removes(r, a) PROVE Kept
  <2>. DEFINE ls == LinksOf(a, "reset") \cup LinksOf(a, "confirmation")
  <2>1. /\ link' = WithState(ls, "gone") /\ origin' = origin
        /\ \A l \in ls : link[l].kind # "invitation"
    BY <1>4 DEF Removes, LinksOf
  <2>. HIDE DEF ls
  <2>2. \A l \in Link : Same(l) /\ (l \notin ls => link'[l] = link[l])
    BY <2>1, MarkedLinks DEF LinkState
  <2>. QED
    BY <2>1, <2>2 DEF Same
<1>5. ASSUME NEW r \in Req, NEW ls \in SUBSET Link, NEW row \in LinkRow, Issues(r, ls, row)
      PROVE  Kept
  <2>1. origin' = origin /\ row.state = "live" /\ \A l \in ls : link[l].state # "used"
    BY <1>5 DEF Issues, ghosts
  <2>2. /\ link[r].state = "none" /\ link'[r] = row
        /\ \A l \in Link : l # r => (l \in ls => link'[l].state = "gone")
        /\ \A l \in Link : l # r /\ l \notin ls => link'[l] = link[l]
    BY <1>5, IssuedLinks DEF NoLink
  <2>. QED
    BY <2>1, <2>2
<1>6. ASSUME NEW r \in Req, NEW l \in Link, NEW p \in Person, Resets(r, l, p) PROVE Kept
  <2>1. origin' = origin /\ link[l].kind = "reset"
    BY <1>6 DEF Resets
  <2>2. /\ \A m \in Link : Same(m)
        /\ \A m \in Link : m # l =>
             IF m \in LinksOf(link[l].user, "reset") /\ link[m].state # "used"
             THEN link'[m].state = "gone" ELSE link'[m] = link[m]
    BY <1>6, SpentLinks
  <2>3. \A m \in LinksOf(link[l].user, "reset") : link[m].kind = "reset"
    BY DEF LinksOf
  <2>. QED
    BY <2>1, <2>2, <2>3 DEF Same
<1>7. ASSUME NEW r \in Req, NEW l \in Link, NEW p \in Person, Confirms(r, l, p) PROVE Kept
  <2>. DEFINE ls == {l}
  <2>1. link' = WithState(ls, "used") /\ origin' = origin /\ link[l].kind = "confirmation"
    BY <1>7 DEF Confirms, ghosts
  <2>2. \A m : m # l => m \notin ls
    OBVIOUS
  <2>. HIDE DEF ls
  <2>3. \A m \in Link : Same(m) /\ (m \notin ls => link'[m] = link[m])
    BY <2>1, MarkedLinks DEF LinkState
  <2>. QED
    BY <2>1, <2>2, <2>3 DEF Same
<1>8. ASSUME NEW r \in Req, NEW a \in Account, NEW p \in Person,
             Calm(r) \/ Closes(r) \/ Opens(r, a) \/ Regrades(r, a, p)
      PROVE  Kept
  BY <1>1, <1>8 DEF Calm, Closes, Opens, Regrades, tables, ghosts
<1>9. ASSUME NEW r \in Req, Calm(r) \/ Closes(r) PROVE Kept
  BY <1>1, <1>9 DEF Calm, Closes, tables, ghosts
<1>10. ASSUME NEW r \in Req, NEW a \in Account, Opens(r, a) PROVE Kept
  BY <1>1, <1>10 DEF Opens
<1>. HIDE DEF Kept
<1>11. ASSUME NEW r \in Req, NEW a \in Account, NEW p \in Person, Founds(r, a, p)
       PROVE  /\ origin[a] = None /\ origin' = [origin EXCEPT ![a] = r]
              /\ request[r].step = "hashing" /\ Past(request'[r]) /\ link' = link
  BY <1>11 DEF Founds
<1>12. ASSUME NEW r \in Req, NEW l \in Link, NEW a \in Account, NEW p \in Person,
              Accepts(r, l, a, p)
       PROVE  /\ origin[a] = None /\ origin' = [origin EXCEPT ![a] = l]
              /\ Live(l) /\ link[l].kind = "invitation" /\ link' = WithState({l}, "used")
  BY <1>12 DEF Accepts
<1>13. ASSUME NEW r \in Req, Tells(r)
       PROVE  \/ Kept
              \/ \E a \in Account, p \in Person : Founds(r, a, p)
              \/ \E l \in Link, a \in Account, p \in Person : Accepts(r, l, a, p)
  BY <1>4, <1>5, <1>6, <1>7, <1>8, <1>9, <1>10, <1>13 DEF Tells
<1>14. \/ Kept
       \/ \E r \in Req, a \in Account, p \in Person : Founds(r, a, p)
       \/ \E r \in Req, l \in Link, a \in Account, p \in Person : Accepts(r, l, a, p)
  BY <1>2, <1>3, <1>13 DEF Told
<1>15. CASE Kept
  BY <1>15 DEF Kept
<1>16. ASSUME NEW r \in Req, NEW a \in Account, NEW p \in Person, Founds(r, a, p)
       PROVE  \E q \in Req, b \in Account :
                /\ origin[b] = None /\ origin' = [origin EXCEPT ![b] = q]
                /\ request[q].step = "hashing" /\ Past(request'[q]) /\ link' = link
  BY ONLY <1>11, <1>16
<1>17. ASSUME NEW r \in Req, NEW l \in Link, NEW a \in Account, NEW p \in Person,
              Accepts(r, l, a, p)
       PROVE  \E m \in Link, b \in Account :
                /\ origin[b] = None /\ origin' = [origin EXCEPT ![b] = m]
                /\ Live(m) /\ link[m].kind = "invitation" /\ link' = WithState({m}, "used")
  BY ONLY <1>12, <1>17
<1>18. CASE \E r \in Req, a \in Account, p \in Person : Founds(r, a, p)
  BY <1>16, <1>18
<1>19. CASE \E r \in Req, l \in Link, a \in Account, p \in Person : Accepts(r, l, a, p)
  BY <1>17, <1>19
<1>. QED
  BY <1>14, <1>15, <1>18, <1>19

LEMMA MadeKept ==
  ASSUME OriginsInv, Told
  PROVE  MadeOnce' /\ Untaken'
<1>. USE DEF OriginsInv
<1>1. None \notin Link
  BY StandingAssumption
<1>2. origin \in [Account -> Link \cup {Before, None}]
  BY DEF AccountsInv, RowsOK
<1>3. \A l \in Link : link'[l] = link[l] \/ Ends(l) \/ Born(l)
  BY LinkStep
<1>4. \A q \in Req : request'[q].step \notin {"send", "done"} =>
        request[q].step \notin {"send", "done"} /\ link[q] = NoLink /\ q \in Link
  BY RequestStep DEF AccountsInv, Issuing, Link
<1>5. \A q \in Req : request'[q].step \notin {"send", "done"} /\ ~Past(request'[q]) =>
        \A b \in Account : origin[b] # q
  BY <1>4, RequestStep DEF Untaken, Carries
<1>6. ASSUME origin' = origin,
             \A l \in Link : link[l].kind = "invitation" \/ link'[l].kind = "invitation" =>
               (link'[l].state = "used" <=> link[l].state = "used")
      PROVE  MadeOnce' /\ Untaken'
  <2>1. ASSUME NEW l \in Link, link'[l].kind = "invitation"
        PROVE  IF link'[l].state = "used"
               THEN \E a \in Account : \A b \in Account : origin'[b] = l <=> b = a
               ELSE \A b \in Account : origin'[b] # l
    <3>1. CASE Born(l)
      <4>1. l \in Req /\ request[l].step = "place"
        BY <2>1, <3>1 DEF Born
      <4>2. \A a \in Account : origin[a] # l
        BY <4>1 DEF Untaken, Past, Late
      <4>3. link'[l].state = "live"
        BY <3>1 DEF Born
      <4>. QED
        BY <1>6, <4>2, <4>3
    <3>2. CASE ~Born(l)
      <4>1. link[l].kind = "invitation"
        BY <1>3, <2>1, <3>2 DEF Ends, Same
      <4>. QED
        BY <1>6, <4>1 DEF MadeOnce
    <3>. QED
      BY <3>1, <3>2
  <2>. QED
    BY <1>5, <1>6, <2>1 DEF MadeOnce, Untaken
<1>7. ASSUME NEW r \in Req, NEW a \in Account, origin[a] = None,
             origin' = [origin EXCEPT ![a] = r], request[r].step = "hashing",
             Past(request'[r]), link' = link
      PROVE  MadeOnce' /\ Untaken'
  <2>1. link[r].kind = "none" /\ r \in Link
    BY <1>7 DEF AccountsInv, Issuing, NoLink, Link
  <2>2. ASSUME NEW l \in Link, link[l].kind = "invitation"
        PROVE  \A b \in Account : origin'[b] = l <=> origin[b] = l
    BY <1>1, <1>2, <1>7, <2>1, <2>2
  <2>3. MadeOnce'
    BY <1>7, <2>2 DEF MadeOnce
  <2>4. Untaken'
    BY <1>2, <1>5, <1>7 DEF Untaken
  <2>. QED
    BY <2>3, <2>4
<1>8. ASSUME NEW l \in Link, NEW a \in Account, origin[a] = None,
             origin' = [origin EXCEPT ![a] = l], Live(l), link[l].kind = "invitation",
             link' = WithState({l}, "used")
      PROVE  MadeOnce' /\ Untaken'
  <2>. DEFINE ls == {l}
  <2>1. link' = WithState(ls, "used") /\ l \in ls /\ \A m : m # l => m \notin ls
    BY <1>8
  <2>. HIDE DEF ls
  <2>2. link'[l].state = "used" /\ \A m \in Link : m # l => link'[m] = link[m]
    BY <2>1, MarkedLinks DEF LinkState, AccountsInv, RowsOK
  <2>3. \A b \in Account : origin[b] # l
    BY <1>8 DEF MadeOnce, Live
  <2>4. \A b \in Account : origin'[b] = l <=> b = a
    BY <1>2, <1>8, <2>3
  <2>5. ASSUME NEW m \in Link, m # l
        PROVE  \A b \in Account : origin'[b] = m <=> origin[b] = m
    BY <1>1, <1>2, <1>8, <2>5
  <2>6. ASSUME NEW m \in Link, link'[m].kind = "invitation"
        PROVE  IF link'[m].state = "used"
               THEN \E c \in Account : \A b \in Account : origin'[b] = m <=> b = c
               ELSE \A b \in Account : origin'[b] # m
    <3>1. CASE m = l
      BY <2>2, <2>4, <3>1
    <3>2. CASE m # l
      BY <2>2, <2>5, <2>6, <3>2 DEF MadeOnce
    <3>. QED
      BY <3>1, <3>2
  <2>7. ASSUME NEW q \in Req, request'[q].step \notin {"send", "done"}, ~Past(request'[q])
        PROVE  \A b \in Account : origin'[b] # q
    <3>1. q # l /\ q \in Link
      BY <1>4, <1>8, <2>7 DEF Live, NoLink
    <3>. QED
      BY <1>5, <2>5, <2>7, <3>1
  <2>. QED
    BY <2>6, <2>7 DEF MadeOnce, Untaken
<1>. QED
  BY <1>6, <1>7, <1>8, OriginStep

LEMMA InitOrigins == AccountsInit => OriginsInv
<1>. SUFFICES ASSUME AccountsInit PROVE OriginsInv
  OBVIOUS
<1>1. \A a \in Account : origin[a] \notin Link
  BY StandingAssumption DEF AccountsInit, Before
<1>2. \A l \in Link : link[l] = NoLink \/ (l \in DOMAIN Standing /\ link[l] = Standing[l])
  BY DEF AccountsInit, Link
<1>3. \A l \in Link : link[l].state # "used"
  BY <1>2, StandingAssumption DEF NoLink
<1>4. MadeOnce /\ Untaken
  BY <1>1, <1>3 DEF MadeOnce, Untaken, Link
<1>. QED
  BY <1>4, InitInv DEF OriginsInv

LEMMA OriginsMeanOneAccount ==
  ASSUME OriginsInv
  PROVE  InvitationMakesOneAccount
<1>. SUFFICES ASSUME NEW l \in Link, link[l].state # "none", link[l].kind = "invitation"
              PROVE  Cardinality({a \in Account : origin[a] = l})
                       = IF link[l].state = "used" THEN 1 ELSE 0
  BY DEF InvitationMakesOneAccount
<1>. DEFINE made == {a \in Account : origin[a] = l}
<1>1. CASE link[l].state = "used"
  <2>1. PICK a \in Account : \A b \in Account : origin[b] = l <=> b = a
    BY <1>1 DEF OriginsInv, MadeOnce
  <2>2. made = {a}
    BY <2>1
  <2>. QED
    BY <1>1, <2>2, FS_Singleton
<1>2. CASE link[l].state # "used"
  <2>1. made = {}
    BY <1>2 DEF OriginsInv, MadeOnce
  <2>. QED
    BY <1>2, <2>1, FS_EmptySet
<1>. QED
  BY <1>1, <1>2

-----------------------------------------------------------------------------
(***************************************************************************)
(* A reset ends what was opened before it                                  *)
(***************************************************************************)
LEMMA GenerationStep ==
  ASSUME Told
  PROVE  \/ generation' = generation /\ overtaken' = overtaken
         \/ \E r \in Req, l \in Link, p \in Person : Resets(r, l, p)
<1>. DEFINE Kept == generation' = generation /\ overtaken' = overtaken
<1>1. ASSUME NEW r \in Req, Calm(r) \/ Closes(r) PROVE Kept
  BY <1>1 DEF Calm, Closes, ghosts
<1>2. ASSUME NEW r \in Req, NEW a \in Account, Opens(r, a) \/ Removes(r, a)
      PROVE  Kept
  BY <1>2 DEF Opens, Removes
<1>3. ASSUME NEW r \in Req, NEW a \in Account, NEW p \in Person, Founds(r, a, p) \/ Regrades(r, a, p)
      PROVE  Kept
  BY <1>3 DEF Founds, Regrades
<1>4. ASSUME NEW r \in Req, NEW ls \in SUBSET Link, NEW row \in LinkRow, Issues(r, ls, row)
      PROVE  Kept
  BY <1>4 DEF Issues, ghosts
<1>5. ASSUME NEW r \in Req, NEW l \in Link, NEW a \in Account, NEW p \in Person,
             Accepts(r, l, a, p) \/ Confirms(r, l, p)
      PROVE  Kept
  BY <1>5 DEF Accepts, Confirms, ghosts
<1>6. ASSUME NEW r \in Req, NEW l \in Link, NEW p \in Person, Confirms(r, l, p)
      PROVE  Kept
  BY <1>6 DEF Confirms, ghosts
<1>7. ASSUME Still \/ \E ls \in SUBSET Link, s \in {"gone", "lapsed"} : Marks(ls, s)
      PROVE  Kept
  BY <1>7 DEF Still, Marks, ghosts
<1>. HIDE DEF Kept
<1>8. Kept \/ \E r \in Req, l \in Link, p \in Person : Resets(r, l, p)
  BY <1>1, <1>2, <1>3, <1>4, <1>5, <1>6, <1>7 DEF Told, Tells
<1>. QED
  BY <1>8 DEF Kept

\* A password that is replaced takes the sessions and the reset links of its account along.
LEMMA ReplacedStep ==
  ASSUME AccountsInv, NEW r \in Req, NEW m \in Link, NEW p \in Person, Resets(r, m, p)
  PROVE  /\ \A s \in session' : /\ s \in session /\ s.user # link[m].user
                                /\ generation'[s.user] = generation[s.user]
         /\ opened' = opened
         /\ \A l \in Link : Live(l)' /\ link'[l].kind = "reset" =>
              link'[l] = link[l] /\ generation'[link[l].user] = generation[link[l].user]
<1>. DEFINE a == link[m].user
<1>1. generation \in [Account -> Nat] /\ \A s \in session : s.user \in Account
  BY DEF AccountsInv, RowsOK
<1>2. /\ generation' = [generation EXCEPT ![a] = @ + 1]
      /\ session' = {s \in session : s.user # a} /\ opened' = opened
  BY DEF Resets
<1>3. ASSUME NEW l \in Link, Live(l)', link'[l].kind = "reset"
      PROVE  link'[l] = link[l] /\ generation'[link[l].user] = generation[link[l].user]
  <2>1. /\ link'[m].state = "used" /\ Same(l)
        /\ l # m => IF l \in LinksOf(a, "reset") /\ link[l].state # "used"
                     THEN link'[l].state = "gone" ELSE link'[l] = link[l]
    BY SpentLinks
  <2>2. l # m /\ ~(l \in LinksOf(a, "reset") /\ link[l].state # "used") /\ link'[l] = link[l]
    BY <1>3, <2>1 DEF Live
  <2>3. link[l].state = "live" /\ link[l].kind = "reset"
    BY <1>3, <2>2 DEF Live
  <2>4. link[l].user # a
    BY <2>2, <2>3 DEF LinksOf
  <2>5. link[l].user \in Account
    BY <2>3 DEF AccountsInv, NoOrphans, Live, Present
  <2>. QED
    BY <1>1, <1>2, <2>2, <2>4, <2>5
<1>. QED
  BY <1>1, <1>2, <1>3

\* Whoever is signing in goes by the password of the account, or was found at it by a reset.
LEMMA SigningKept ==
  ASSUME AccountsInv, Fenced, Told
  PROVE  \A q \in Req : Signs(request'[q]) =>
           generation'[request'[q].user] \in {request'[q].gen, overtaken'[q]}
<1>. SUFFICES ASSUME NEW q \in Req, Signs(request'[q])
              PROVE  generation'[request'[q].user] \in {request'[q].gen, overtaken'[q]}
  OBVIOUS
<1>1. Fresh(request'[q]) \/ (/\ request'[q].op = request[q].op /\ request'[q].user = request[q].user
                             /\ request'[q].gen = request[q].gen)
  BY RequestStep DEF Carries
<1>2. Signs(request[q]) => generation[request[q].user] \in {request[q].gen, overtaken[q]}
  BY DEF Fenced
<1>3. CASE generation' = generation /\ overtaken' = overtaken
  BY <1>1, <1>2, <1>3 DEF Fresh, Signs
<1>4. ASSUME NEW r \in Req, NEW m \in Link, NEW p \in Person, Resets(r, m, p)
      PROVE  generation'[request'[q].user] \in {request'[q].gen, overtaken'[q]}
  <2>. DEFINE a == link[m].user
  <2>1. q # r /\ request'[q] = request[q]
    BY <1>4 DEF Resets, Finishes, Moves, Signs
  <2>2. /\ generation \in [Account -> Nat] /\ generation' = [generation EXCEPT ![a] = @ + 1]
        /\ overtaken'[q] = IF q \in SigningIn(a) THEN generation[a] + 1 ELSE overtaken[q]
    BY <1>4 DEF Resets, Overtake, AccountsInv, RowsOK
  <2>3. request[q].user \in Account /\ (q \in SigningIn(a) <=> request[q].user = a)
    BY <2>1 DEF Signs, SigningIn
  <2>. HIDE DEF a
  <2>4. CASE request[q].user = a
    BY <2>1, <2>2, <2>3, <2>4
  <2>5. CASE request[q].user # a
    BY <1>2, <2>1, <2>2, <2>3, <2>5
  <2>. QED
    BY <2>4, <2>5
<1>. QED
  BY <1>3, <1>4, GenerationStep

\* A session that stays is as good as it was.
LEMMA StandingSession ==
  ASSUME AccountsInv, Fenced, Told, NEW s \in session, s \in session'
  PROVE  /\ s.by \in Req => Past(request'[s.by])
         /\ opened'[s.by] = opened[s.by] => generation'[s.user] \in {opened'[s.by], overtaken'[s.by]}
<1>1. s.by \in Req => Past(request[s.by]) /\ Past(request'[s.by])
  BY RequestStep DEF Fenced, Carries
<1>2. generation[s.user] \in {opened[s.by], overtaken[s.by]}
  BY DEF Fenced, ResetRevokes
<1>3. CASE generation' = generation /\ overtaken' = overtaken
  BY <1>1, <1>2, <1>3
<1>4. ASSUME NEW r \in Req, NEW m \in Link, NEW p \in Person, Resets(r, m, p)
      PROVE  generation'[s.user] = generation[s.user] /\ overtaken'[s.by] = overtaken[s.by]
  <2>1. s.by \in Req \cup {Before}
    BY DEF AccountsInv, RowsOK
  <2>2. s.by \notin SigningIn(link[m].user)
    BY <1>1 DEF SigningIn, Past
  <2>. QED
    BY <1>4, <2>1, <2>2, ReplacedStep DEF Resets, Overtake
<1>. QED
  BY <1>1, <1>2, <1>3, <1>4, GenerationStep

LEMMA FencedKept ==
  ASSUME AccountsInv, Fenced, Told
  PROVE  Fenced'
<1>1. opened \in [Req \cup {Before} -> Nat \cup {None}]
      /\ \A s \in session : s.by \in Req \cup {Before}
  BY DEF AccountsInv, RowsOK
<1>. DEFINE Good(s) == /\ s.by \in Req => Past(request'[s.by])
                       /\ generation'[s.user] \in {opened'[s.by], overtaken'[s.by]}
<1>2. ASSUME session' \subseteq session, opened' = opened, NEW s \in session' PROVE Good(s)
  BY <1>2, StandingSession
<1>3. ASSUME NEW r \in Req, NEW a \in Account,
             session' = session \cup {[by |-> r, user |-> a]}, Stamps(r, a),
             UNCHANGED <<generation, overtaken>>, ~Past(request[r]), Past(request'[r]),
             NEW s \in session'
      PROVE  Good(s)
  <2>1. PICK g \in {request[r].gen, generation[a]} :
          /\ opened' = [opened EXCEPT ![r] = g]
          /\ g = generation[a] \/ (Signs(request[r]) /\ request[r].user = a)
    BY <1>3 DEF Stamps
  <2>2. CASE s \in session
    <3>1. s.by # r
      BY <1>3, <2>2 DEF Fenced
    <3>. QED
      BY <1>1, <1>3, <2>1, <2>2, <3>1, StandingSession
  <2>3. CASE s = [by |-> r, user |-> a]
    <3>1. g = generation[a] \/ generation[a] \in {request[r].gen, overtaken[r]}
      BY <2>1 DEF Fenced
    <3>2. opened'[r] = g
      BY <1>1, <2>1
    <3>. QED
      BY <1>3, <2>1, <2>3, <3>1, <3>2
  <2>. QED
    BY <1>3, <2>2, <2>3
<1>4. \A s \in session' : Good(s)
  BY <1>2, <1>3, SessionStepCases
<1>5. ASSUME NEW l \in Link, Live(l)', link'[l].kind = "reset"
      PROVE  link'[l].gen = generation'[link'[l].user]
  <2>1. link'[l] = link[l] \/ Born(l)
    BY <1>5, LinkStep DEF Live, Ends
  <2>2. CASE Born(l)
    BY <1>5, <2>2 DEF Born, ghosts
  <2>3. CASE link'[l] = link[l]
    <3>1. link[l].gen = generation[link[l].user]
      BY <1>5, <2>3 DEF Fenced, ResetRevokes, Live
    <3>2. generation'[link[l].user] = generation[link[l].user]
      BY <1>5, GenerationStep, ReplacedStep
    <3>. QED
      BY <2>3, <3>1, <3>2
  <2>. QED
    BY <2>1, <2>2, <2>3
<1>. QED
  BY <1>4, <1>5, SigningKept DEF Fenced, ResetRevokes

LEMMA InitFenced == AccountsInit => Fenced
<1>. SUFFICES ASSUME AccountsInit PROVE Fenced
  OBVIOUS
<1>1. \A s \in session : s.by = Before /\ s.user \in Account
  BY AccountsAssumption DEF AccountsInit
<1>2. Before \notin Req
  BY StandingAssumption DEF Before, Link
<1>3. \A s \in session : opened[s.by] = generation[s.user]
  BY <1>1 DEF AccountsInit
<1>4. \A l \in Link : link[l] = NoLink \/ (l \in DOMAIN Standing /\ link[l] = Standing[l])
  BY DEF AccountsInit, Link
<1>5. \A l \in Link : link[l].kind = "reset" => link[l].gen = 0 /\ link[l].user \in Account
  BY <1>4, StandingAssumption, AccountsAssumption DEF NoLink
<1>6. \A l \in Link : link[l].kind = "reset" => link[l].gen = generation[link[l].user]
  BY <1>5 DEF AccountsInit
<1>7. \A r \in Req : ~Signs(request[r])
  BY DEF AccountsInit, New, Signs
<1>. QED
  BY <1>1, <1>2, <1>3, <1>6, <1>7 DEF Fenced, ResetRevokes

-----------------------------------------------------------------------------
(***************************************************************************)
(* The theorems about the tables                                           *)
(***************************************************************************)
LEMMA EveryStepIsTold ==
  ASSUME AccountsInv, [AccountsNext]_accountVars
  PROVE  Told
BY StepCases DEF Told

\* The tables keep their types, what a request has in hand fits its operation, and no session
\* or usable link belongs to an account that is gone.
THEOREM AccountsKeepTheirTables == AccountsSpec => []AccountsInv
<1>1. AccountsInv /\ [AccountsNext]_accountVars => AccountsInv'
  BY InvKept, EveryStepIsTold
<1>. QED
  BY <1>1, InitInv, PTL DEF AccountsSpec

\* An organization keeps an owner (lockOwners, SetRole and RemoveMember of src/internal/auth),
\* however many demotions and removals run at once, as long as each locked at least one.
THEOREM EveryOrganizationKeepsAnOwner == AccountsSpec => []OwnerRemains
<1>1. AccountsInv /\ OwnerRemains /\ [AccountsNext]_accountVars => OwnerRemains'
  BY OwnersKept, EveryStepIsTold
<1>. QED
  BY <1>1, InitOwners, AccountsKeepTheirTables, PTL DEF AccountsSpec

\* An invitation makes one account, and a withdrawn one none (AcceptInvitation and
\* RevokeInvitation of src/internal/auth/tokens.go), however often it is opened.
THEOREM AnInvitationMakesOneAccount == AccountsSpec => []InvitationMakesOneAccount
<1>1. OriginsInv /\ [AccountsNext]_accountVars => OriginsInv'
  <2>1. ASSUME OriginsInv, [AccountsNext]_accountVars PROVE OriginsInv'
    <3>1. Told /\ AccountsInv
      BY <2>1, EveryStepIsTold DEF OriginsInv
    <3>. QED
      BY <2>1, <3>1, InvKept, MadeKept DEF OriginsInv
  <2>. QED
    BY <2>1
<1>2. OriginsInv => InvitationMakesOneAccount
  BY OriginsMeanOneAccount
<1>. QED
  BY <1>1, <1>2, InitOrigins, PTL DEF AccountsSpec

\* A reset ends every session stored before it and every reset link issued before it (ResetPassword
\* of src/internal/auth/tokens.go).  A session that is there goes by the password its account has
\* now, unless its request had read an older one and was still signing in at the last reset.
THEOREM AResetEndsWhatWasOpened == AccountsSpec => []ResetRevokes
<1>1. AccountsInv /\ Fenced /\ [AccountsNext]_accountVars => Fenced'
  BY FencedKept, EveryStepIsTold
<1>2. Fenced => ResetRevokes
  BY DEF Fenced
<1>. QED
  BY <1>1, <1>2, InitFenced, AccountsKeepTheirTables, PTL DEF AccountsSpec

-----------------------------------------------------------------------------
(***************************************************************************)
(* Buckets.  What a question takes from a key, what a refund and time give *)
(* back, and that making room for a key changes nobody's credit.           *)
(***************************************************************************)
\* The limiter's buckets are buckets at the given time.
GoodLimiter(limiter, now) ==
  \A k \in DOMAIN limiter : limiter[k] \in [shares : 0..Full, last : 0..now]

LEMMA SmallerOfTwo ==
  ASSUME NEW a \in Int, NEW b \in Int
  PROVE  Min({a, b}) = IF a <= b THEN a ELSE b
<1>. DEFINE m == IF a <= b THEN a ELSE b
<1>1. m \in {a, b} /\ \A y \in {a, b} : m <= y
  OBVIOUS
<1>2. \A x \in {a, b} : (\A y \in {a, b} : x <= y) => x = m
  OBVIOUS
<1>. HIDE DEF m
<1>3. Min({a, b}) = m
  BY <1>1, <1>2 DEF Min
<1>. QED
  BY <1>3 DEF m

LEMMA LargerOfTwo ==
  ASSUME NEW a \in Int, NEW b \in Int
  PROVE  Max({a, b}) = IF a >= b THEN a ELSE b
<1>. DEFINE m == IF a >= b THEN a ELSE b
<1>1. m \in {a, b} /\ \A y \in {a, b} : m >= y
  OBVIOUS
<1>2. \A x \in {a, b} : (\A y \in {a, b} : x >= y) => x = m
  OBVIOUS
<1>. HIDE DEF m
<1>3. Max({a, b}) = m
  BY <1>1, <1>2 DEF Max
<1>. QED
  BY <1>3 DEF m

LEMMA FullType == Full \in Nat /\ Refill \in Nat
BY LimitAssumption DEF Full

LEMMA RefilledIs ==
  ASSUME NEW now \in Nat, NEW b, b.shares \in 0..Full, b.last \in 0..now
  PROVE  Refilled(b, now) = IF Full <= b.shares + (now - b.last)
                            THEN Full ELSE b.shares + (now - b.last)
<1>1. Full \in Int /\ b.shares + (now - b.last) \in Int
  BY FullType
<1>. QED
  BY <1>1, SmallerOfTwo DEF Refilled

LEMMA CreditBounds ==
  ASSUME NEW limiter, NEW now \in Nat, GoodLimiter(limiter, now), NEW k
  PROVE  Credit(limiter, k, now) \in 0..Full
<1>1. CASE Holds(limiter, k)
  <2>1. limiter[k].shares \in 0..Full /\ limiter[k].last \in 0..now
    BY <1>1 DEF Holds, GoodLimiter
  <2>2. Refilled(limiter[k], now) \in 0..Full
    BY <2>1, RefilledIs, FullType
  <2>. QED
    BY <1>1, <2>2 DEF Credit
<1>2. CASE ~Holds(limiter, k)
  BY <1>2, FullType DEF Credit
<1>. QED
  BY <1>1, <1>2

\* What is forgotten was full.
LEMMA SweepForgivesNobody ==
  ASSUME NEW limiter, NEW now \in Nat, GoodLimiter(limiter, now)
  PROVE  /\ GoodLimiter(SweepFull(limiter, now), now)
         /\ \A k : Credit(SweepFull(limiter, now), k, now) = Credit(limiter, k, now)
<1>. DEFINE kept == {k \in DOMAIN limiter : Refilled(limiter[k], now) < Full}
            swept == SweepFull(limiter, now)
<1>1. DOMAIN swept = kept /\ \A k \in kept : swept[k] = limiter[k]
  BY DEF SweepFull, Restrict
<1>2. GoodLimiter(swept, now)
  BY <1>1 DEF GoodLimiter
<1>3. ASSUME NEW k PROVE Credit(swept, k, now) = Credit(limiter, k, now)
  <2>1. CASE k \in kept
    BY <1>1, <2>1 DEF Credit, Holds
  <2>2. CASE k \in DOMAIN limiter /\ k \notin kept
    <3>1. Credit(limiter, k, now) \in 0..Full /\ Credit(limiter, k, now) = Refilled(limiter[k], now)
      BY <2>2, CreditBounds DEF Credit, Holds
    <3>2. ~(Refilled(limiter[k], now) < Full)
      BY <2>2
    <3>3. Credit(limiter, k, now) = Full
      BY <3>1, <3>2, FullType
    <3>4. Credit(swept, k, now) = Full
      BY <1>1, <2>2 DEF Credit, Holds
    <3>. QED
      BY <3>3, <3>4
  <2>3. CASE k \notin DOMAIN limiter
    BY <1>1, <2>3 DEF Credit, Holds
  <2>. QED
    BY <1>1, <2>1, <2>2, <2>3
<1>. QED
  BY <1>2, <1>3

\* Asking costs a token where it is allowed, and costs nobody else anything.
LEMMA AskingSpends ==
  ASSUME NEW limiter, NEW now \in Nat, GoodLimiter(limiter, now), NEW k
  PROVE  /\ GoodLimiter(AfterAllow(limiter, k, now), now)
         /\ \A x : x # k => Credit(AfterAllow(limiter, k, now), x, now) = Credit(limiter, x, now)
         /\ Allowed(limiter, k, now) =>
              Credit(AfterAllow(limiter, k, now), k, now) = Credit(limiter, k, now) - Refill
         /\ ~Allowed(limiter, k, now) =>
              Credit(AfterAllow(limiter, k, now), k, now) = Credit(limiter, k, now)
<1>. DEFINE l == Admitting(limiter, k, now)
            c == Credit(limiter, k, now)
            spent == IF Allowed(limiter, k, now) THEN Refill ELSE 0
            after == AfterAllow(limiter, k, now)
<1>1. GoodLimiter(l, now) /\ \A x : Credit(l, x, now) = Credit(limiter, x, now)
  BY SweepForgivesNobody DEF Admitting
<1>2. CASE ~Admitted(limiter, k, now)
  <2>1. after = l /\ ~Allowed(limiter, k, now)
    BY <1>2 DEF AfterAllow, Allowed
  <2>. QED
    BY <1>1, <2>1
<1>3. CASE Admitted(limiter, k, now)
  <2>1. c \in 0..Full /\ Full \in Nat /\ Refill \in Nat
    BY CreditBounds, FullType
  <2>2. c - spent \in 0..Full /\ spent \in Nat
    <3>1. CASE Allowed(limiter, k, now)
      <4>1. c >= Refill /\ spent = Refill
        BY <3>1 DEF Allowed
      <4>. QED
        BY <2>1, <4>1
    <3>2. CASE ~Allowed(limiter, k, now)
      BY <2>1, <3>2
    <3>. QED
      BY <3>1, <3>2
  <2>. DEFINE at == IF Holds(l, k) THEN Max({now, l[k].last}) ELSE now
  <2>3. at = now
    <3>1. CASE Holds(l, k)
      <4>1. l[k].last \in 0..now
        BY <1>1, <3>1 DEF GoodLimiter, Holds
      <4>2. Max({now, l[k].last}) = now
        BY <4>1, LargerOfTwo
      <4>. QED
        BY <3>1, <4>2
    <3>. QED
      BY <3>1
  <2>4. after = [x \in DOMAIN l \cup {k} |->
                   IF x = k THEN [shares |-> c - spent, last |-> at] ELSE l[x]]
    BY <1>3 DEF AfterAllow
  <2>. HIDE DEF l, c, spent, after, at
  <2>5. DOMAIN after = DOMAIN l \cup {k} /\ after[k] = [shares |-> c - spent, last |-> now]
    BY <2>3, <2>4
  <2>6. \A x \in DOMAIN l : x # k => after[x] = l[x]
    BY <2>4
  <2>7. GoodLimiter(after, now)
    BY <1>1, <2>2, <2>5, <2>6 DEF GoodLimiter
  <2>8. ASSUME NEW x, x # k PROVE Credit(after, x, now) = Credit(limiter, x, now)
    <3>1. Holds(after, x) <=> Holds(l, x)
      BY <2>5, <2>8 DEF Holds
    <3>2. Holds(l, x) => after[x] = l[x]
      BY <2>6, <2>8 DEF Holds
    <3>3. Credit(after, x, now) = Credit(l, x, now)
      BY <3>1, <3>2 DEF Credit
    <3>. QED
      BY <1>1, <3>3
  <2>9. Credit(after, k, now) = c - spent
    <3>1. Credit(after, k, now) = Refilled(after[k], now)
      BY <2>5 DEF Credit, Holds
    <3>2. after[k].shares = c - spent /\ after[k].last = now
      BY <2>5
    <3>3. Refilled(after[k], now) = IF Full <= c - spent + (now - now) THEN Full ELSE c - spent + (now - now)
      <4>1. after[k].shares \in 0..Full /\ after[k].last \in 0..now
        BY <2>2, <3>2
      <4>. QED
        BY <3>2, <4>1, RefilledIs
    <3>. QED
      BY <2>1, <2>2, <3>1, <3>3
  <2>10. Allowed(limiter, k, now) => Credit(after, k, now) = c - Refill
    BY <2>9 DEF spent
  <2>11. ~Allowed(limiter, k, now) => Credit(after, k, now) = c
    BY <2>1, <2>9 DEF spent
  <2>. QED
    BY <2>7, <2>8, <2>10, <2>11 DEF c, after
<1>. QED
  BY <1>2, <1>3

\* A token given back is a token, or fills the bucket.
LEMMA RestoringGives ==
  ASSUME NEW limiter, NEW now \in Nat, GoodLimiter(limiter, now), NEW k
  PROVE  /\ GoodLimiter(Restored(limiter, k), now)
         /\ \A x : x # k => Credit(Restored(limiter, k), x, now) = Credit(limiter, x, now)
         /\ Credit(Restored(limiter, k), k, now) <= Credit(limiter, k, now) + Refill
         /\ \/ Credit(Restored(limiter, k), k, now) = Full
            \/ Credit(Restored(limiter, k), k, now) = Credit(limiter, k, now) + Refill
<1>1. /\ Credit(limiter, k, now) \in 0..Full /\ Full \in Nat /\ Refill \in Nat
  BY CreditBounds, FullType
<1>2. CASE ~Holds(limiter, k)
  <2>1. Restored(limiter, k) = limiter /\ Credit(limiter, k, now) = Full
    BY <1>2 DEF Restored, Credit
  <2>. QED
    BY <1>1, <2>1
<1>3. CASE Holds(limiter, k)
  <2>. DEFINE b == limiter[k]
              s == b.shares
              t == b.last
              more == Min({Full, s + Refill})
              back == [b EXCEPT !.shares = more]
              after == Restored(limiter, k)
  <2>1. s \in 0..Full /\ t \in 0..now /\ b \in [shares : 0..Full, last : 0..now]
    BY <1>3 DEF Holds, GoodLimiter
  <2>2. more = IF Full <= s + Refill THEN Full ELSE s + Refill
    BY <1>1, <2>1, SmallerOfTwo
  <2>3. more \in 0..Full
    BY <1>1, <2>1, <2>2
  <2>4. back \in [shares : 0..Full, last : 0..now] /\ back.shares = more /\ back.last = t
    BY <2>1, <2>3
  <2>5. after = [limiter EXCEPT ![k] = back]
    BY <1>3 DEF Restored
  <2>6. DOMAIN after = DOMAIN limiter /\ after[k] = back
    BY <1>3, <2>5 DEF Holds
  <2>7. \A x \in DOMAIN limiter : x # k => after[x] = limiter[x]
    BY <2>5
  <2>8. Credit(limiter, k, now) = IF Full <= s + (now - t) THEN Full ELSE s + (now - t)
    BY <1>3, <2>1, RefilledIs DEF Credit
  <2>9. Credit(after, k, now) = IF Full <= more + (now - t) THEN Full ELSE more + (now - t)
    <3>1. Credit(after, k, now) = Refilled(back, now)
      BY <1>3, <2>6 DEF Credit, Holds
    <3>. HIDE DEF back
    <3>2. Refilled(back, now) = IF Full <= back.shares + (now - back.last)
                                THEN Full ELSE back.shares + (now - back.last)
      <4>1. back.shares \in 0..Full /\ back.last \in 0..now
        BY <2>1, <2>3, <2>4
      <4>. QED
        BY <4>1, RefilledIs
    <3>. QED
      BY <2>4, <3>1, <3>2
  <2>. HIDE DEF after, back, more, s, t, b
  <2>10. GoodLimiter(after, now)
    BY <2>4, <2>6, <2>7 DEF GoodLimiter
  <2>11. ASSUME NEW x, x # k PROVE Credit(after, x, now) = Credit(limiter, x, now)
    BY <2>6, <2>7, <2>11 DEF Credit, Holds
  <2>12. /\ Credit(after, k, now) <= Credit(limiter, k, now) + Refill
         /\ Credit(after, k, now) = Full \/ Credit(after, k, now) = Credit(limiter, k, now) + Refill
    BY <1>1, <2>1, <2>2, <2>8, <2>9
  <2>. QED
    BY <2>10, <2>11, <2>12 DEF after
<1>. QED
  BY <1>2, <1>3

\* A tick gives back one share at the most.
LEMMA TimeGivesBack ==
  ASSUME NEW limiter, NEW now \in Nat, GoodLimiter(limiter, now), NEW k
  PROVE  /\ GoodLimiter(limiter, now + 1)
         /\ Credit(limiter, k, now) <= Credit(limiter, k, now + 1)
         /\ Credit(limiter, k, now + 1) <= Credit(limiter, k, now) + 1
<1>1. 0..now \subseteq 0..(now + 1) /\ now + 1 \in Nat
  OBVIOUS
<1>2. GoodLimiter(limiter, now + 1)
  BY <1>1 DEF GoodLimiter
<1>3. CASE Holds(limiter, k)
  <2>. DEFINE s == limiter[k].shares
              t == limiter[k].last
  <2>1. s \in 0..Full /\ t \in 0..now /\ t \in 0..(now + 1)
    BY <1>1, <1>3 DEF Holds, GoodLimiter
  <2>2. Credit(limiter, k, now) = IF Full <= s + (now - t) THEN Full ELSE s + (now - t)
    BY <1>3, <2>1, RefilledIs DEF Credit
  <2>3. Credit(limiter, k, now + 1) = IF Full <= s + (now + 1 - t) THEN Full ELSE s + (now + 1 - t)
    BY <1>1, <1>3, <2>1, RefilledIs DEF Credit
  <2>. HIDE DEF s, t
  <2>. QED
    BY <1>2, <2>1, <2>2, <2>3, FullType
<1>4. CASE ~Holds(limiter, k)
  <2>1. Credit(limiter, k, now) = Full /\ Credit(limiter, k, now + 1) = Full
    BY <1>4 DEF Credit
  <2>. QED
    BY <1>2, <2>1, FullType
<1>. QED
  BY <1>3, <1>4

-----------------------------------------------------------------------------
(***************************************************************************)
(* What a step is to the limiters: nothing, a question, a payment, a       *)
(* refund or a tick.  A request that owes a token has been let through by  *)
(* one limiter under one key, and settles with it once.                    *)
(***************************************************************************)
AnyKey == Address \cup Link \cup {None}
Billed == {"login", "signup", "accept", "forgot", "reset", "resend"}

\* Only a public request that is under way owes a token.
OwesAsItMay(r) ==
  request[r].limiter # None => request[r].op \in Billed /\ request[r].step \notin {"new", "done"}

MovesOnly(r) ==
  /\ \A q \in Req : q # r => request'[q] = request[q]
  /\ request[r].step # "done" /\ OwesAsItMay(r)'

Stays(r) ==
  /\ MovesOnly(r)
  /\ request'[r].limiter = request[r].limiter
  /\ request[r].limiter # None => request'[r].key = request[r].key
  /\ UNCHANGED <<limit, charged, clock>>

Questions(r, l, k) ==
  /\ MovesOnly(r) /\ request[r].limiter = None /\ clock' = clock
  /\ limit' = [limit EXCEPT ![l] = AfterAllow(@, k, clock)]
  /\ \/ /\ Allowed(limit[l], k, clock) /\ charged' = charged
        /\ request'[r].limiter = l /\ request'[r].key = k
     \/ /\ Allowed(limit[l], k, clock) /\ charged' = charged \cup {<<l, k, r>>}
        /\ request'[r] = Done
     \/ ~Allowed(limit[l], k, clock) /\ charged' = charged /\ request'[r] = Done

Pays(r) ==
  /\ MovesOnly(r) /\ request'[r] = Done
  /\ charged' = charged \cup {<<request[r].limiter, request[r].key, r>>}
  /\ UNCHANGED <<limit, clock>>

Recovers(r) ==
  /\ MovesOnly(r) /\ request'[r] = Done
  /\ limit' = [limit EXCEPT ![request[r].limiter] = Restored(@, request[r].key)]
  /\ UNCHANGED <<charged, clock>>

Ages == clock < MaxClock /\ clock' = clock + 1 /\ UNCHANGED <<limit, charged, request>>

Settling(r) ==
  \/ Stays(r) \/ Pays(r) \/ Recovers(r)
  \/ \E l \in Limiters, k \in Address \cup Link : Questions(r, l, k)

LEMMA DoneOwesNothing == Done.limiter = None /\ Done.step = "done" /\ Done.op = "none"
BY DEF Done, New

LEMMA AdvancedOwesTheSame ==
  ASSUME NEW q \in Request, NEW s
  PROVE  /\ [q EXCEPT !.step = s].limiter = q.limiter /\ [q EXCEPT !.step = s].key = q.key
         /\ [q EXCEPT !.step = s].op = q.op /\ [q EXCEPT !.step = s].step = s
BY DEF Request

LEMMA LeavingMoves ==
  ASSUME RequestsOK, NEW r \in Req, Leave(r), request[r].step # "done"
  PROVE  MovesOnly(r) /\ request'[r] = Done
BY DoneOwesNothing DEF RequestsOK, Leave, MovesOnly, OwesAsItMay

LEMMA PayingSettles ==
  ASSUME RequestsOK, NEW r \in Req, Pay(r), request[r].step # "done", clock' = clock
  PROVE  Pays(r)
BY LeavingMoves DEF Pay, Pays

LEMMA RefundSettles ==
  ASSUME RequestsOK, NEW r \in Req, Refund(r), request[r].step # "done", clock' = clock
  PROVE  Recovers(r)
BY LeavingMoves DEF Refund, Recovers

LEMMA LeavingStays ==
  ASSUME RequestsOK, NEW r \in Req, Leave(r), request[r].step # "done", request[r].limiter = None,
         UNCHANGED <<limit, charged, clock>>
  PROVE  Stays(r)
BY LeavingMoves, DoneOwesNothing DEF Stays

LEMMA AdvancingStays ==
  ASSUME RequestsOK, NEW r \in Req, NEW s, Advance(r, s), s \notin {"new", "done"},
         request[r].step # "done", OwesAsItMay(r), UNCHANGED <<limit, charged, clock>>
  PROVE  Stays(r)
<1>. DEFINE n == [request[r] EXCEPT !.step = s]
<1>1. /\ n.limiter = request[r].limiter /\ n.key = request[r].key
      /\ n.op = request[r].op /\ n.step = s
  BY AdvancedOwesTheSame DEF RequestsOK
<1>2. request' = [request EXCEPT ![r] = n]
  BY DEF Advance
<1>. HIDE DEF n
<1>3. request'[r] = n /\ \A q \in Req : q # r => request'[q] = request[q]
  BY <1>2 DEF RequestsOK
<1>. QED
  BY <1>1, <1>3 DEF Stays, MovesOnly, OwesAsItMay

LEMMA KnockAsks ==
  ASSUME RequestsOK, NEW r \in Req, NEW l \in Limiters, NEW k \in Address \cup Link,
         NEW found, NEW next, Knock(r, l, k, found, next), OwesAsItMay(r),
         Keyed(next, l, k).limiter = l, Keyed(next, l, k).key = k,
         Keyed(next, l, k).op \in Billed, Keyed(next, l, k).step \notin {"new", "done"}
  PROVE  Questions(r, l, k)
<1>. DEFINE n == Keyed(next, l, k)
            ok == Allowed(limit[l], k, clock)
<1>1. /\ request' = [request EXCEPT ![r] = IF ok /\ found THEN n ELSE Done]
      /\ limit' = [limit EXCEPT ![l] = AfterAllow(@, k, clock)]
      /\ charged' = IF ok /\ ~found THEN charged \cup {<<l, k, r>>} ELSE charged
      /\ clock' = clock /\ request[r].step = "new"
  BY DEF Knock, Keyed, Step
<1>. HIDE DEF n, ok
<1>2. /\ request'[r] = IF ok /\ found THEN n ELSE Done
      /\ \A q \in Req : q # r => request'[q] = request[q]
  BY <1>1 DEF RequestsOK
<1>3. n.limiter = l /\ n.key = k /\ n.op \in Billed /\ n.step \notin {"new", "done"}
  BY DEF n
<1>4. request[r].limiter = None
  BY <1>1 DEF OwesAsItMay
<1>5. MovesOnly(r)
  <2>1. CASE ok /\ found
    BY <1>1, <1>2, <1>3, <2>1 DEF MovesOnly, OwesAsItMay
  <2>2. CASE ~(ok /\ found)
    BY <1>1, <1>2, <2>2, DoneOwesNothing DEF MovesOnly, OwesAsItMay
  <2>. QED
    BY <2>1, <2>2
<1>6. CASE ok /\ found
  BY <1>1, <1>2, <1>3, <1>4, <1>5, <1>6 DEF Questions, ok
<1>7. CASE ok /\ ~found
  BY <1>1, <1>2, <1>4, <1>5, <1>7 DEF Questions, ok
<1>8. CASE ~ok
  BY <1>1, <1>2, <1>4, <1>5, <1>8 DEF Questions, ok
<1>. QED
  BY <1>6, <1>7, <1>8

LEMMA ArrivalsAsk ==
  ASSUME AccountsInv, NEW r \in Req, OwesAsItMay(r),
         \/ LoginArrive(r) \/ SignupArrive(r) \/ AcceptArrive(r) \/ ResetArrive(r)
         \/ ForgotArrive(r) \/ ResendArrive(r)
  PROVE  \E l \in Limiters, k \in Address \cup Link : Questions(r, l, k)
<1>0. RequestsOK /\ mailed \subseteq Link
  BY DEF AccountsInv, RowsOK
<1>1. CASE LoginArrive(r)
  <2>1. PICK e \in Address, p \in Password :
          Knock(r, "login", e, TRUE,
            [New EXCEPT !.op = "login", !.step = "queue", !.pw = p,
                        !.user = IF Known(e) THEN AccountOf(e) ELSE None,
                        !.held = IF Known(e) THEN user[AccountOf(e)].pw ELSE None,
                        !.gen = IF Known(e) THEN generation[AccountOf(e)] ELSE None])
    BY <1>1 DEF LoginArrive
  <2>. DEFINE u == IF Known(e) THEN AccountOf(e) ELSE None
              h == IF Known(e) THEN user[AccountOf(e)].pw ELSE None
              g == IF Known(e) THEN generation[AccountOf(e)] ELSE None
              next == [New EXCEPT !.op = "login", !.step = "queue", !.pw = p, !.user = u, !.held = h,
                                  !.gen = g]
  <2>2. Knock(r, "login", e, TRUE, next)
    BY <2>1
  <2>. HIDE DEF u, h, g
  <2>3. /\ Keyed(next, "login", e).limiter = "login" /\ Keyed(next, "login", e).key = e
        /\ Keyed(next, "login", e).op = "login" /\ Keyed(next, "login", e).step = "queue"
    BY DEF Keyed, New
  <2>. HIDE DEF next
  <2>. QED
    BY <1>0, <2>2, <2>3, KnockAsks DEF Billed, Limiters
<1>2. CASE SignupArrive(r)
  <2>1. PICK e \in Address, o \in Org \ {Home} :
          Knock(r, "signup", e, TRUE,
            [New EXCEPT !.op = "signup", !.step = "queue", !.org = o, !.pw = "first"])
    BY <1>2 DEF SignupArrive
  <2>. DEFINE next == [New EXCEPT !.op = "signup", !.step = "queue", !.org = o, !.pw = "first"]
  <2>2. Knock(r, "signup", e, TRUE, next)
    BY <2>1
  <2>3. /\ Keyed(next, "signup", e).limiter = "signup" /\ Keyed(next, "signup", e).key = e
        /\ Keyed(next, "signup", e).op = "signup" /\ Keyed(next, "signup", e).step = "queue"
    BY DEF Keyed, New
  <2>. HIDE DEF next
  <2>. QED
    BY <1>0, <2>2, <2>3, KnockAsks DEF Billed, Limiters
<1>3. CASE AcceptArrive(r)
  <2>1. PICK l \in mailed, p \in Password :
          Knock(r, "accept", l, Live(l), [New EXCEPT !.op = "accept", !.step = "queue", !.pw = p])
    BY <1>3 DEF AcceptArrive
  <2>. DEFINE next == [New EXCEPT !.op = "accept", !.step = "queue", !.pw = p]
  <2>2. Knock(r, "accept", l, Live(l), next)
    BY <2>1
  <2>3. /\ Keyed(next, "accept", l).limiter = "accept" /\ Keyed(next, "accept", l).key = l
        /\ Keyed(next, "accept", l).op = "accept" /\ Keyed(next, "accept", l).step = "queue"
    BY DEF Keyed, New
  <2>. HIDE DEF next
  <2>. QED
    BY <1>0, <2>2, <2>3, KnockAsks DEF Billed, Limiters
<1>4. CASE ResetArrive(r)
  <2>1. PICK l \in mailed, p \in Password :
          Knock(r, "redeem", l, Live(l), [New EXCEPT !.op = "reset", !.step = "queue", !.pw = p])
    BY <1>4 DEF ResetArrive
  <2>. DEFINE next == [New EXCEPT !.op = "reset", !.step = "queue", !.pw = p]
  <2>2. Knock(r, "redeem", l, Live(l), next)
    BY <2>1
  <2>3. /\ Keyed(next, "redeem", l).limiter = "redeem" /\ Keyed(next, "redeem", l).key = l
        /\ Keyed(next, "redeem", l).op = "reset" /\ Keyed(next, "redeem", l).step = "queue"
    BY DEF Keyed, New
  <2>. HIDE DEF next
  <2>. QED
    BY <1>0, <2>2, <2>3, KnockAsks DEF Billed, Limiters
<1>5. CASE ForgotArrive(r)
  <2>1. PICK e \in Address :
          Knock(r, "forgot", e, Known(e),
            [New EXCEPT !.op = "forgot", !.step = "issue",
                        !.user = IF Known(e) THEN AccountOf(e) ELSE None])
    BY <1>5 DEF ForgotArrive
  <2>. DEFINE u == IF Known(e) THEN AccountOf(e) ELSE None
              next == [New EXCEPT !.op = "forgot", !.step = "issue", !.user = u]
  <2>2. Knock(r, "forgot", e, Known(e), next)
    BY <2>1
  <2>. HIDE DEF u
  <2>3. /\ Keyed(next, "forgot", e).limiter = "forgot" /\ Keyed(next, "forgot", e).key = e
        /\ Keyed(next, "forgot", e).op = "forgot" /\ Keyed(next, "forgot", e).step = "issue"
    BY DEF Keyed, New
  <2>. HIDE DEF next
  <2>. QED
    BY <1>0, <2>2, <2>3, KnockAsks DEF Billed, Limiters
<1>6. CASE ResendArrive(r)
  <2>1. PICK p \in Principals :
          Knock(r, "resend", user[p.user].email, ~user[p.user].verified,
            [New EXCEPT !.op = "resend", !.step = "clear", !.user = p.user])
    BY <1>6 DEF ResendArrive
  <2>. DEFINE next == [New EXCEPT !.op = "resend", !.step = "clear", !.user = p.user]
              e == user[p.user].email
  <2>2. Knock(r, "resend", e, ~user[p.user].verified, next)
    BY <2>1
  <2>3. e \in Address
    <3>1. p.user \in Present
      BY DEF Principals, AccountsInv, NoOrphans
    <3>2. user[p.user] \in Person
      BY <3>1, PresentRow DEF AccountsInv
    <3>. QED
      BY <3>2 DEF Person
  <2>. HIDE DEF e
  <2>4. /\ Keyed(next, "resend", e).limiter = "resend" /\ Keyed(next, "resend", e).key = e
        /\ Keyed(next, "resend", e).op = "resend" /\ Keyed(next, "resend", e).step = "clear"
    BY DEF Keyed, New
  <2>. HIDE DEF next
  <2>. QED
    BY <1>0, <2>2, <2>3, <2>4, KnockAsks DEF Billed, Limiters
<1>. QED
  BY <1>1, <1>2, <1>3, <1>4, <1>5, <1>6

LEMMA ConfirmingAsks ==
  ASSUME AccountsInv, NEW r \in Req, OwesAsItMay(r), VerifyEmail(r)
  PROVE  \E l \in Limiters, k \in Address \cup Link : Questions(r, l, k)
<1>1. PICK l \in mailed :
        /\ Step(r, "new") /\ Leave(r) /\ clock' = clock
        /\ limit' = [limit EXCEPT !["confirm"] = AfterAllow(@, l, clock)]
        /\ charged' = IF Allowed(limit["confirm"], l, clock)
                      THEN charged \cup {<<"confirm", l, r>>} ELSE charged
  BY DEF VerifyEmail
<1>2. l \in Link /\ RequestsOK
  BY DEF AccountsInv, RowsOK
<1>3. MovesOnly(r) /\ request'[r] = Done /\ request[r].limiter = None
  BY <1>1, <1>2, LeavingMoves DEF Step, OwesAsItMay
<1>4. Questions(r, "confirm", l)
  BY <1>1, <1>3 DEF Questions
<1>. QED
  BY <1>2, <1>4 DEF Limiters

\* Requests of people who are signed in, and what people do to them.
LEMMA SignedInStays ==
  ASSUME AccountsInv, NEW r \in Req, OwesAsItMay(r),
         \/ Logout(r) \/ RoleArrive(r) \/ RemoveArrive(r) \/ ReadOwners(r) \/ SetRole(r)
         \/ RemoveMember(r) \/ InviteArrive(r) \/ CreateInvitation(r) \/ SendInvitation(r)
         \/ WithdrawUnsent(r) \/ RevokeInvitation(r)
  PROVE  Stays(r)
<1>0. RequestsOK
  BY DEF AccountsInv
<1>1. CASE Logout(r) \/ RevokeInvitation(r)
  <2>1. /\ Leave(r) /\ request[r].step = "new" /\ UNCHANGED <<limit, charged, clock>>
    BY <1>1 DEF Logout, RevokeInvitation, Step
  <2>. QED
    BY <1>0, <2>1, LeavingStays DEF OwesAsItMay
<1>2. CASE SetRole(r) \/ RemoveMember(r) \/ SendInvitation(r) \/ WithdrawUnsent(r)
  <2>1. /\ Leave(r) /\ request[r].step \in {"decide", "send"} /\ UNCHANGED <<limit, charged, clock>>
        /\ request[r].op \in {"role", "remove", "invite"}
    BY <1>2 DEF SetRole, RemoveMember, SendInvitation, WithdrawUnsent, At
  <2>. QED
    BY <1>0, <2>1, LeavingStays DEF OwesAsItMay, Billed
<1>3. CASE CreateInvitation(r)
  <2>1. Advance(r, "send") /\ request[r].step = "place" /\ UNCHANGED <<limit, charged, clock>>
    BY <1>3 DEF CreateInvitation, At
  <2>. QED
    BY <1>0, <2>1, AdvancingStays
<1>4. CASE ReadOwners(r)
  <2>. DEFINE n == [request[r] EXCEPT !.step = "decide", !.owners = Owners(request[r].actor.org)]
  <2>1. /\ request' = [request EXCEPT ![r] = n] /\ request[r].step = "owners"
        /\ UNCHANGED <<limit, charged, clock>>
    BY <1>4 DEF ReadOwners, Step
  <2>2. /\ n.limiter = request[r].limiter /\ n.key = request[r].key
        /\ n.op = request[r].op /\ n.step = "decide"
    BY <1>0 DEF RequestsOK, Request
  <2>. HIDE DEF n
  <2>3. request'[r] = n /\ \A q \in Req : q # r => request'[q] = request[q]
    BY <1>0, <2>1 DEF RequestsOK
  <2>. QED
    BY <2>1, <2>2, <2>3 DEF Stays, MovesOnly, OwesAsItMay
<1>5. ASSUME NEW n, n.limiter = None, request' = [request EXCEPT ![r] = n],
             request[r].step = "new", UNCHANGED <<limit, charged, clock>>
      PROVE  Stays(r)
  <2>1. request'[r] = n /\ \A q \in Req : q # r => request'[q] = request[q]
    BY <1>0, <1>5 DEF RequestsOK
  <2>2. request[r].limiter = None
    BY <1>5 DEF OwesAsItMay
  <2>. QED
    BY <1>5, <2>1, <2>2 DEF Stays, MovesOnly, OwesAsItMay
<1>6. ASSUME NEW op, NEW need, NEW p, NEW next, Enter(r, op, need, p, next),
             Entered(next, op, p).limiter = None
      PROVE  Stays(r)
  <2>1. /\ request' = [request EXCEPT ![r] = Entered(next, op, p)] /\ request[r].step = "new"
        /\ UNCHANGED <<limit, charged, clock>>
    BY <1>6 DEF Enter, Entered, Step
  <2>. QED
    BY <1>5, <1>6, <2>1
<1>7. CASE RoleArrive(r)
  <2>1. PICK p \in Principals, a \in Present, n \in AllRoles :
          Enter(r, "role", "member.manage", p,
                [New EXCEPT !.step = "owners", !.user = a, !.role = n])
    BY <1>7 DEF RoleArrive
  <2>. DEFINE next == [New EXCEPT !.step = "owners", !.user = a, !.role = n]
  <2>2. Enter(r, "role", "member.manage", p, next) /\ Entered(next, "role", p).limiter = None
    BY <2>1 DEF Entered, New
  <2>. HIDE DEF next
  <2>. QED
    BY <1>6, <2>2
<1>8. CASE RemoveArrive(r)
  <2>1. PICK p \in Principals, a \in Present :
          Enter(r, "remove", "member.manage", p, [New EXCEPT !.step = "owners", !.user = a])
    BY <1>8 DEF RemoveArrive
  <2>. DEFINE next == [New EXCEPT !.step = "owners", !.user = a]
  <2>2. Enter(r, "remove", "member.manage", p, next) /\ Entered(next, "remove", p).limiter = None
    BY <2>1 DEF Entered, New
  <2>. HIDE DEF next
  <2>. QED
    BY <1>6, <2>2
<1>9. CASE InviteArrive(r)
  <2>1. PICK p \in Principals, e \in Address, n \in AllRoles \ {Owner} :
          Enter(r, "invite", "member.invite", p,
                [New EXCEPT !.step = "place", !.email = e, !.role = n])
    BY <1>9 DEF InviteArrive
  <2>. DEFINE next == [New EXCEPT !.step = "place", !.email = e, !.role = n]
  <2>2. Enter(r, "invite", "member.invite", p, next) /\ Entered(next, "invite", p).limiter = None
    BY <2>1 DEF Entered, New
  <2>. HIDE DEF next
  <2>. QED
    BY <1>6, <2>2
<1>. QED
  BY <1>1, <1>2, <1>3, <1>4, <1>7, <1>8, <1>9

LEMMA PublicSettles ==
  ASSUME AccountsInv, NEW r \in Req, OwesAsItMay(r),
         \/ LoginVerify(r) \/ LoginInsert(r) \/ SignUp(r) \/ AcceptClaim(r) \/ AcceptInsert(r)
         \/ CreatePasswordReset(r) \/ ResetPassword(r) \/ ClearConfirmations(r)
         \/ CreateEmailVerification(r) \/ Acquire(r) \/ Shed(r) \/ Drop(r)
  PROVE  Settling(r)
<1>0. RequestsOK
  BY DEF AccountsInv
<1>. USE <1>0, AdvancingStays, PayingSettles, RefundSettles, LeavingStays DEF Settling
<1>1. CASE LoginVerify(r)
  <2>1. request[r].step = "hashing" /\ clock' = clock
        /\ ((Advance(r, "insert") /\ UNCHANGED <<limit, charged>>) \/ Pay(r))
    BY <1>1 DEF LoginVerify, At
  <2>. QED
    BY <2>1
<1>2. CASE LoginInsert(r)
  <2>1. request[r].step = "insert" /\ clock' = clock /\ (Refund(r) \/ Pay(r))
    BY <1>2 DEF LoginInsert, At
  <2>. QED
    BY <2>1
<1>3. CASE AcceptInsert(r) \/ CreatePasswordReset(r) \/ ResetPassword(r)
           \/ CreateEmailVerification(r)
  <2>1. request[r].step \in {"hashing", "insert", "issue"} /\ clock' = clock /\ Pay(r)
    BY <1>3 DEF AcceptInsert, CreatePasswordReset, ResetPassword, CreateEmailVerification, At
  <2>. QED
    BY <2>1
<1>4. CASE AcceptClaim(r)
  <2>. DEFINE n == [request[r] EXCEPT !.step = "insert", !.user = NextAccount,
                                      !.gen = generation[NextAccount]]
  <2>1. /\ request[r].step = "hashing" /\ clock' = clock
        /\ \/ Pay(r)
           \/ request' = [request EXCEPT ![r] = n] /\ UNCHANGED <<limit, charged>>
    BY <1>4 DEF AcceptClaim, At
  <2>2. /\ n.limiter = request[r].limiter /\ n.key = request[r].key
        /\ n.op = request[r].op /\ n.step = "insert"
    BY DEF RequestsOK, Request
  <2>. HIDE DEF n
  <2>3. CASE request' = [request EXCEPT ![r] = n] /\ UNCHANGED <<limit, charged>>
    <3>1. request'[r] = n /\ \A q \in Req : q # r => request'[q] = request[q]
      BY <2>3 DEF RequestsOK
    <3>2. Stays(r)
      BY <2>1, <2>2, <2>3, <3>1 DEF Stays, MovesOnly, OwesAsItMay
    <3>. QED
      BY <3>2
  <2>. QED
    BY <2>1, <2>3
<1>5. CASE ClearConfirmations(r)
  <2>1. Advance(r, "issue") /\ request[r].step = "clear" /\ UNCHANGED <<limit, charged, clock>>
    BY <1>5 DEF ClearConfirmations, At
  <2>. QED
    BY <2>1
<1>6. CASE Acquire(r)
  <2>1. Advance(r, "hashing") /\ request[r].step = "queue" /\ UNCHANGED <<limit, charged, clock>>
    BY <1>6 DEF Acquire, Step
  <2>. QED
    BY <2>1
<1>7. CASE Shed(r)
  <2>1. Refund(r) /\ request[r].step = "queue" /\ clock' = clock
    BY <1>7 DEF Shed, Step
  <2>. QED
    BY <2>1
<1>8. CASE Drop(r)
  <2>1. /\ request[r].step # "done" /\ clock' = clock
        /\ \/ Pay(r)
           \/ request[r].limiter = None /\ Leave(r) /\ UNCHANGED <<limit, charged>>
    BY <1>8 DEF Drop, Step
  <2>. QED
    BY <2>1
<1>9. CASE SignUp(r)
  <2>. DEFINE n == [request[r] EXCEPT !.op = "resend", !.step = "clear", !.user = NextAccount]
  <2>1. /\ request[r].step = "hashing" /\ request[r].op = "signup" /\ clock' = clock
        /\ \/ Pay(r)
           \/ request' = [request EXCEPT ![r] = n] /\ UNCHANGED <<limit, charged>>
    BY <1>9 DEF SignUp, At
  <2>2. /\ n.limiter = request[r].limiter /\ n.key = request[r].key
        /\ n.op = "resend" /\ n.step = "clear"
    BY DEF RequestsOK, Request
  <2>. HIDE DEF n
  <2>3. CASE request' = [request EXCEPT ![r] = n] /\ UNCHANGED <<limit, charged>>
    <3>1. request'[r] = n /\ \A q \in Req : q # r => request'[q] = request[q]
      BY <2>3 DEF RequestsOK
    <3>2. Stays(r)
      BY <2>1, <2>2, <2>3, <3>1 DEF Stays, MovesOnly, OwesAsItMay, Billed
    <3>. QED
      BY <3>2
  <2>. QED
    BY <2>1, <2>3
<1>. QED
  BY <1>1, <1>2, <1>3, <1>4, <1>5, <1>6, <1>7, <1>8, <1>9

LEMMA LimiterStepCases ==
  ASSUME AccountsInv, [AccountsNext]_accountVars, \A r \in Req : OwesAsItMay(r)
  PROVE  \/ UNCHANGED <<limit, charged, clock, request>>
         \/ Ages
         \/ \E r \in Req : Settling(r)
<1>1. CASE UNCHANGED accountVars \/ \E l \in Link : Lapse(l)
  BY <1>1 DEF accountVars, Lapse
<1>2. CASE Tick
  BY <1>2 DEF Tick, Ages
<1>3. ASSUME NEW r \in Req,
             \/ LoginArrive(r) \/ SignupArrive(r) \/ AcceptArrive(r) \/ ResetArrive(r)
             \/ ForgotArrive(r) \/ ResendArrive(r) \/ VerifyEmail(r)
      PROVE  Settling(r)
  BY <1>3, ArrivalsAsk, ConfirmingAsks DEF Settling
<1>4. ASSUME NEW r \in Req,
             \/ Logout(r) \/ RoleArrive(r) \/ RemoveArrive(r) \/ ReadOwners(r) \/ SetRole(r)
             \/ RemoveMember(r) \/ InviteArrive(r) \/ CreateInvitation(r) \/ SendInvitation(r)
             \/ WithdrawUnsent(r) \/ RevokeInvitation(r)
      PROVE  Settling(r)
  BY <1>4, SignedInStays DEF Settling
<1>5. ASSUME NEW r \in Req,
             \/ LoginVerify(r) \/ LoginInsert(r) \/ SignUp(r) \/ AcceptClaim(r) \/ AcceptInsert(r)
             \/ CreatePasswordReset(r) \/ ResetPassword(r) \/ ClearConfirmations(r)
             \/ CreateEmailVerification(r) \/ Acquire(r) \/ Shed(r) \/ Drop(r)
      PROVE  Settling(r)
  BY <1>5, PublicSettles
<1>. QED
  BY <1>1, <1>2, <1>3, <1>4, <1>5 DEF AccountsNext

-----------------------------------------------------------------------------
(***************************************************************************)
(* The budget.  For every key, in use or not, what it can spend and the    *)
(* tokens that are out add up: BudgetIsExact looks only at keys in use,    *)
(* and a key nobody uses may be the next one's.                            *)
(***************************************************************************)
Owing == {r \in Req : request[r].limiter # None}
Flying(l, k) == {r \in Req : request[r].limiter = l /\ request[r].key = k}
Spent(l, k) == {c \in charged : c[1] = l /\ c[2] = k}
Out(l, k) == Cardinality(Flying(l, k)) + Cardinality(Spent(l, k))
Balance(l, k) == Credit(limit[l], k, clock) + Refill * Out(l, k)

BillsOK ==
  /\ \A r \in Req : OwesAsItMay(r)
  /\ IsFiniteSet(Owing) /\ IsFiniteSet(charged)
  /\ \A c \in charged : c[2] \in AnyKey /\ c[3] \in Req /\ request[c[3]].step = "done"

LimitersOK ==
  /\ clock \in 0..MaxClock
  /\ limit = [l \in Limiters |-> limit[l]]
  /\ \A l \in Limiters : GoodLimiter(limit[l], clock)

Balanced ==
  \A l \in Limiters, k \in AnyKey : Full <= Balance(l, k) /\ Balance(l, k) <= Full + clock

BudgetInv == BillsOK /\ LimitersOK /\ Balanced

LEMMA OutIsNatural ==
  ASSUME BillsOK, NEW l \in Limiters, NEW k
  PROVE  /\ IsFiniteSet(Flying(l, k)) /\ IsFiniteSet(Spent(l, k)) /\ Out(l, k) \in Nat
         /\ Cardinality(Flying(l, k)) \in Nat /\ Cardinality(Spent(l, k)) \in Nat
<1>1. Flying(l, k) \subseteq Owing
  BY StandingAssumption DEF Flying, Owing
<1>2. IsFiniteSet(Flying(l, k)) /\ IsFiniteSet(Spent(l, k))
  BY <1>1, FS_Subset DEF BillsOK, Spent
<1>. QED
  BY <1>2, FS_CardinalityType DEF Out

LEMMA StayingKeepsBills ==
  ASSUME BillsOK, NEW r \in Req, Stays(r)
  PROVE  BillsOK' /\ \A l \in Limiters, k \in AnyKey : Out(l, k)' = Out(l, k)
<1>1. \A q \in Req : /\ request'[q].limiter = request[q].limiter
                     /\ request[q].limiter # None => request'[q].key = request[q].key
                     /\ request[q].step = "done" => request'[q].step = "done"
                     /\ OwesAsItMay(q)'
  BY DEF Stays, MovesOnly, BillsOK, OwesAsItMay
<1>2. charged' = charged /\ Owing' = Owing
  BY <1>1 DEF Stays, Owing
<1>3. BillsOK'
  BY <1>1, <1>2 DEF BillsOK
<1>4. ASSUME NEW l \in Limiters, NEW k \in AnyKey PROVE Out(l, k)' = Out(l, k)
  <2>1. l # None
    BY StandingAssumption
  <2>2. Flying(l, k)' = Flying(l, k) /\ Spent(l, k)' = Spent(l, k)
    BY <1>1, <1>2, <2>1 DEF Flying, Spent
  <2>. QED
    BY <2>2 DEF Out
<1>. QED
  BY <1>3, <1>4

LEMMA QuestionsKeepBills ==
  ASSUME BillsOK, NEW r \in Req, NEW m \in Limiters, NEW j \in Address \cup Link, Questions(r, m, j)
  PROVE  /\ BillsOK'
         /\ \A l \in Limiters, k \in AnyKey :
              Out(l, k)' = IF l = m /\ k = j /\ Allowed(limit[m], j, clock)
                           THEN Out(l, k) + 1 ELSE Out(l, k)
<1>0. /\ None \notin Limiters /\ request[r].limiter = None /\ request[r].step # "done"
      /\ \A q \in Req : q # r => request'[q] = request[q]
      /\ OwesAsItMay(r)' /\ \A q \in Req : OwesAsItMay(q)
  BY StandingAssumption DEF Questions, MovesOnly, BillsOK
<1>1. \A q \in Req : OwesAsItMay(q)'
  BY <1>0 DEF OwesAsItMay
<1>2. \A c \in charged : c[2] \in AnyKey /\ c[3] \in Req /\ request'[c[3]].step = "done"
  BY <1>0 DEF BillsOK
<1>3. CASE Allowed(limit[m], j, clock) /\ charged' = charged /\ request'[r].limiter = m
           /\ request'[r].key = j
  <2>1. Owing' = Owing \cup {r}
    BY <1>0, <1>3 DEF Owing
  <2>2. IsFiniteSet(Owing')
    BY <2>1, FS_AddElement DEF BillsOK
  <2>3. BillsOK'
    BY <1>1, <1>2, <1>3, <2>2 DEF BillsOK
  <2>4. ASSUME NEW l \in Limiters, NEW k \in AnyKey
        PROVE  Out(l, k)' = IF l = m /\ k = j THEN Out(l, k) + 1 ELSE Out(l, k)
    <3>1. Spent(l, k)' = Spent(l, k) /\ r \notin Flying(l, k)
      BY <1>0, <1>3 DEF Spent, Flying
    <3>2. Flying(l, k)' = IF l = m /\ k = j THEN Flying(l, k) \cup {r} ELSE Flying(l, k)
      BY <1>0, <1>3 DEF Flying
    <3>3. Cardinality(Flying(l, k) \cup {r}) = Cardinality(Flying(l, k)) + 1
      BY <3>1, OutIsNatural, FS_AddElement
    <3>. QED
      BY <3>1, <3>2, <3>3, OutIsNatural DEF Out
  <2>. QED
    BY <1>3, <2>3, <2>4
<1>4. CASE Allowed(limit[m], j, clock) /\ charged' = charged \cup {<<m, j, r>>}
           /\ request'[r] = Done
  <2>. DEFINE bill == <<m, j, r>>
  <2>1. bill[1] = m /\ bill[2] = j /\ bill[3] = r /\ bill \notin charged
    BY <1>0 DEF BillsOK
  <2>2. request'[r].limiter = None /\ request'[r].step = "done"
    BY <1>4, DoneOwesNothing
  <2>3. charged' = charged \cup {bill}
    BY <1>4
  <2>. HIDE DEF bill
  <2>4. Owing' = Owing
    BY <1>0, <2>2 DEF Owing
  <2>5. IsFiniteSet(charged')
    BY <2>3, FS_AddElement DEF BillsOK
  <2>6. BillsOK'
    BY <1>1, <1>2, <2>1, <2>2, <2>3, <2>4, <2>5 DEF BillsOK, AnyKey
  <2>7. ASSUME NEW l \in Limiters, NEW k \in AnyKey
        PROVE  Out(l, k)' = IF l = m /\ k = j THEN Out(l, k) + 1 ELSE Out(l, k)
    <3>1. Flying(l, k)' = Flying(l, k)
      BY <1>0, <2>2 DEF Flying
    <3>2. Spent(l, k)' = IF l = m /\ k = j THEN Spent(l, k) \cup {bill} ELSE Spent(l, k)
      BY <2>1, <2>3 DEF Spent
    <3>3. bill \notin Spent(l, k)
      BY <2>1 DEF Spent
    <3>4. Cardinality(Spent(l, k) \cup {bill}) = Cardinality(Spent(l, k)) + 1
      BY <3>3, OutIsNatural, FS_AddElement
    <3>. QED
      BY <3>1, <3>2, <3>4, OutIsNatural DEF Out
  <2>. QED
    BY <1>4, <2>6, <2>7
<1>5. CASE ~Allowed(limit[m], j, clock) /\ charged' = charged /\ request'[r] = Done
  <2>1. request'[r].limiter = None
    BY <1>5, DoneOwesNothing
  <2>2. Owing' = Owing /\ \A l \in Limiters, k \in AnyKey : Flying(l, k)' = Flying(l, k)
    BY <1>0, <2>1 DEF Owing, Flying
  <2>3. BillsOK'
    BY <1>1, <1>2, <1>5, <2>2 DEF BillsOK
  <2>4. \A l \in Limiters, k \in AnyKey : Out(l, k)' = Out(l, k)
    BY <1>5, <2>2 DEF Out, Spent
  <2>. QED
    BY <1>5, <2>3, <2>4
<1>. QED
  BY <1>3, <1>4, <1>5 DEF Questions

LEMMA EndingKeepsBills ==
  ASSUME BillsOK, RequestsOK, NEW r \in Req, MovesOnly(r), request'[r] = Done
  PROVE  /\ \A q \in Req : OwesAsItMay(q)'
         /\ IsFiniteSet(Owing')
         /\ \A c \in charged : c[2] \in AnyKey /\ c[3] \in Req /\ request'[c[3]].step = "done"
         /\ request'[r].step = "done"
         /\ \A l \in Limiters, k \in AnyKey :
              /\ Flying(l, k)' = Flying(l, k) \ {r}
              /\ Cardinality(Flying(l, k)') =
                   IF l = request[r].limiter /\ k = request[r].key
                   THEN Cardinality(Flying(l, k)) - 1 ELSE Cardinality(Flying(l, k))
<1>0. /\ None \notin Limiters /\ request[r].step # "done"
      /\ \A q \in Req : q # r => request'[q] = request[q]
      /\ request'[r].limiter = None /\ request'[r].step = "done"
  BY StandingAssumption, DoneOwesNothing DEF MovesOnly
<1>1. \A q \in Req : OwesAsItMay(q)'
  BY <1>0 DEF OwesAsItMay, BillsOK
<1>2. IsFiniteSet(Owing')
  <2>1. Owing' = Owing \ {r}
    BY <1>0 DEF Owing
  <2>. QED
    BY <2>1, FS_RemoveElement DEF BillsOK
<1>3. \A c \in charged : c[2] \in AnyKey /\ c[3] \in Req /\ request'[c[3]].step = "done"
  BY <1>0 DEF BillsOK
<1>4. ASSUME NEW l \in Limiters, NEW k \in AnyKey
      PROVE  /\ Flying(l, k)' = Flying(l, k) \ {r}
             /\ Cardinality(Flying(l, k)') =
                  IF l = request[r].limiter /\ k = request[r].key
                  THEN Cardinality(Flying(l, k)) - 1 ELSE Cardinality(Flying(l, k))
  <2>1. Flying(l, k)' = Flying(l, k) \ {r}
    BY <1>0 DEF Flying
  <2>2. r \in Flying(l, k) <=> l = request[r].limiter /\ k = request[r].key
    BY DEF Flying
  <2>. QED
    BY <2>1, <2>2, OutIsNatural, FS_RemoveElement
<1>. QED
  BY <1>0, <1>1, <1>2, <1>3, <1>4

LEMMA PayingKeepsBills ==
  ASSUME BillsOK, RequestsOK, NEW r \in Req, Pays(r)
  PROVE  BillsOK' /\ \A l \in Limiters, k \in AnyKey : Out(l, k)' = Out(l, k)
<1>. DEFINE m == request[r].limiter
            j == request[r].key
            bill == <<m, j, r>>
<1>1. /\ MovesOnly(r) /\ request'[r] = Done /\ request[r].step # "done"
      /\ charged' = charged \cup {bill}
  BY DEF Pays, MovesOnly
<1>2. j \in AnyKey
  BY DEF RequestsOK, Request, AnyKey
<1>3. bill[1] = m /\ bill[2] = j /\ bill[3] = r /\ bill \notin charged
  BY <1>1 DEF BillsOK
<1>. HIDE DEF bill, m, j
<1>4. IsFiniteSet(charged')
  BY <1>1, FS_AddElement DEF BillsOK
<1>5. BillsOK'
  BY <1>1, <1>2, <1>3, <1>4, EndingKeepsBills DEF BillsOK
<1>6. ASSUME NEW l \in Limiters, NEW k \in AnyKey PROVE Out(l, k)' = Out(l, k)
  <2>1. Spent(l, k)' = IF l = m /\ k = j THEN Spent(l, k) \cup {bill} ELSE Spent(l, k)
    BY <1>1, <1>3 DEF Spent
  <2>2. bill \notin Spent(l, k)
    BY <1>3 DEF Spent
  <2>3. Cardinality(Spent(l, k) \cup {bill}) = Cardinality(Spent(l, k)) + 1
    BY <2>2, OutIsNatural, FS_AddElement
  <2>4. Cardinality(Flying(l, k)') =
          IF l = m /\ k = j THEN Cardinality(Flying(l, k)) - 1 ELSE Cardinality(Flying(l, k))
    BY <1>1, EndingKeepsBills DEF m, j
  <2>. QED
    BY <2>1, <2>3, <2>4, OutIsNatural DEF Out
<1>. QED
  BY <1>5, <1>6

LEMMA RecoveringKeepsBills ==
  ASSUME BillsOK, RequestsOK, NEW r \in Req, Recovers(r)
  PROVE  /\ BillsOK'
         /\ \A l \in Limiters, k \in AnyKey :
              IF l = request[r].limiter /\ k = request[r].key
              THEN Out(l, k) \in Nat \ {0} /\ Out(l, k)' = Out(l, k) - 1
              ELSE Out(l, k)' = Out(l, k)
<1>. DEFINE m == request[r].limiter
            j == request[r].key
<1>1. MovesOnly(r) /\ request'[r] = Done /\ charged' = charged
  BY DEF Recovers
<1>2. BillsOK'
  BY <1>1, EndingKeepsBills DEF BillsOK
<1>3. ASSUME NEW l \in Limiters, NEW k \in AnyKey
      PROVE  IF l = m /\ k = j
             THEN Out(l, k) \in Nat \ {0} /\ Out(l, k)' = Out(l, k) - 1
             ELSE Out(l, k)' = Out(l, k)
  <2>1. Spent(l, k)' = Spent(l, k)
    BY <1>1 DEF Spent
  <2>2. Cardinality(Flying(l, k)') =
          IF l = m /\ k = j THEN Cardinality(Flying(l, k)) - 1 ELSE Cardinality(Flying(l, k))
    BY <1>1, EndingKeepsBills
  <2>3. l = m /\ k = j => Cardinality(Flying(l, k)) # 0
    <3>1. l = m /\ k = j => r \in Flying(l, k)
      BY DEF Flying
    <3>. QED
      BY <3>1, OutIsNatural, FS_EmptySet
  <2>. HIDE DEF m, j
  <2>. QED
    BY <2>1, <2>2, <2>3, OutIsNatural DEF Out
<1>. QED
  BY <1>2, <1>3

LEMMA BalancesAreNumbers ==
  ASSUME BillsOK, LimitersOK, NEW l \in Limiters, NEW k \in AnyKey
  PROVE  /\ clock \in Nat /\ Full \in Nat /\ Refill \in Nat /\ Out(l, k) \in Nat
         /\ Credit(limit[l], k, clock) \in 0..Full
         /\ GoodLimiter(limit[l], clock)
         /\ Refill * Out(l, k) \in Nat
         /\ Refill * (Out(l, k) + 1) = Refill * Out(l, k) + Refill
         /\ Refill * (Out(l, k) - 1) = Refill * Out(l, k) - Refill
<1>1. clock \in Nat
  BY AccountsAssumption DEF LimitersOK
<1>2. Full \in Nat /\ Refill \in Nat /\ Out(l, k) \in Nat
  BY FullType, OutIsNatural
<1>3. GoodLimiter(limit[l], clock) /\ Credit(limit[l], k, clock) \in 0..Full
  BY <1>1, CreditBounds DEF LimitersOK
<1>4. /\ Refill * Out(l, k) \in Nat
      /\ Refill * (Out(l, k) + 1) = Refill * Out(l, k) + Refill
      /\ Refill * (Out(l, k) - 1) = Refill * Out(l, k) - Refill
  BY <1>2
<1>. QED
  BY <1>1, <1>2, <1>3, <1>4

LEMMA SameKeepsBudget ==
  ASSUME BillsOK, LimitersOK, Balanced, UNCHANGED <<limit, clock>>,
         \A l \in Limiters, k \in AnyKey : Out(l, k)' = Out(l, k)
  PROVE  LimitersOK' /\ Balanced'
<1>1. LimitersOK'
  BY DEF LimitersOK
<1>2. Balanced'
  BY DEF Balanced, Balance
<1>. QED
  BY <1>1, <1>2

LEMMA QuestionsKeepBudget ==
  ASSUME BudgetInv, NEW r \in Req, NEW m \in Limiters, NEW j \in Address \cup Link, Questions(r, m, j)
  PROVE  BudgetInv'
<1>. DEFINE asked == AfterAllow(limit[m], j, clock)
<1>0. BillsOK /\ LimitersOK /\ j \in AnyKey
  BY DEF BudgetInv, AnyKey
<1>1. /\ clock' = clock
      /\ limit' = [limit EXCEPT ![m] = asked]
  BY DEF Questions
<1>2. /\ clock \in Nat /\ GoodLimiter(limit[m], clock)
  BY <1>0, BalancesAreNumbers
<1>3. /\ GoodLimiter(asked, clock)
      /\ \A x : x # j => Credit(asked, x, clock) = Credit(limit[m], x, clock)
      /\ Allowed(limit[m], j, clock) =>
           Credit(asked, j, clock) = Credit(limit[m], j, clock) - Refill
      /\ ~Allowed(limit[m], j, clock) =>
           Credit(asked, j, clock) = Credit(limit[m], j, clock)
  BY <1>2, AskingSpends
<1>. HIDE DEF asked
<1>4. DOMAIN limit = Limiters
  BY <1>0 DEF LimitersOK
<1>5. limit'[m] = asked /\ \A l \in Limiters : l # m => limit'[l] = limit[l]
  BY <1>1, <1>4
<1>6. LimitersOK'
  <2>1. limit' = [l \in Limiters |-> limit'[l]]
    BY <1>1, <1>4
  <2>2. \A l \in Limiters : GoodLimiter(limit'[l], clock)
    BY <1>0, <1>3, <1>5 DEF LimitersOK
  <2>. QED
    BY <1>0, <1>1, <2>1, <2>2 DEF LimitersOK
<1>7. BillsOK'
  BY <1>0, QuestionsKeepBills
<1>8. ASSUME NEW l \in Limiters, NEW k \in AnyKey
      PROVE  Balance(l, k)' = Balance(l, k)
  <2>1. /\ Refill * (Out(l, k) + 1) = Refill * Out(l, k) + Refill
        /\ Refill * Out(l, k) \in Nat /\ Refill \in Nat
        /\ Credit(limit[l], k, clock) \in 0..Full /\ Full \in Nat
    BY <1>0, BalancesAreNumbers
  <2>2. Out(l, k)' = IF l = m /\ k = j /\ Allowed(limit[m], j, clock)
                     THEN Out(l, k) + 1 ELSE Out(l, k)
    BY <1>0, QuestionsKeepBills
  <2>3. Balance(l, k)' = Credit(limit'[l], k, clock) + Refill * Out(l, k)'
    BY <1>1 DEF Balance
  <2>4. CASE l = m /\ k = j /\ Allowed(limit[m], j, clock)
    <3>1. Credit(limit'[l], k, clock) = Credit(limit[l], k, clock) - Refill
      BY <1>3, <1>5, <2>4
    <3>2. Refill * Out(l, k)' = Refill * Out(l, k) + Refill
      BY <2>1, <2>2, <2>4
    <3>. QED
      BY <2>1, <2>3, <3>1, <3>2 DEF Balance
  <2>5. CASE ~(l = m /\ k = j /\ Allowed(limit[m], j, clock))
    <3>1. Credit(limit'[l], k, clock) = Credit(limit[l], k, clock)
      BY <1>3, <1>5, <2>5
    <3>2. Out(l, k)' = Out(l, k)
      BY <2>2, <2>5
    <3>. QED
      BY <2>3, <3>1, <3>2 DEF Balance
  <2>. QED
    BY <2>4, <2>5
<1>9. Balanced'
  BY <1>1, <1>8 DEF Balanced, BudgetInv
<1>. QED
  BY <1>6, <1>7, <1>9 DEF BudgetInv

LEMMA RecoveringKeepsBudget ==
  ASSUME BudgetInv, RequestsOK, NEW r \in Req, Recovers(r)
  PROVE  BudgetInv'
<1>. DEFINE m == request[r].limiter
            j == request[r].key
            given == Restored(limit[m], j)
<1>0. BillsOK /\ LimitersOK /\ j \in AnyKey
  BY DEF BudgetInv, AnyKey, RequestsOK, Request
<1>1. clock' = clock /\ limit' = [limit EXCEPT ![m] = given]
  BY DEF Recovers
<1>2. BillsOK'
  BY <1>0, RecoveringKeepsBills
<1>3. /\ \A l \in Limiters, k \in AnyKey :
           IF l = m /\ k = j
           THEN Out(l, k) \in Nat \ {0} /\ Out(l, k)' = Out(l, k) - 1
           ELSE Out(l, k)' = Out(l, k)
  BY <1>0, RecoveringKeepsBills
<1>4. DOMAIN limit = Limiters
  BY <1>0 DEF LimitersOK
<1>5. CASE m \notin Limiters
  <2>1. limit' = limit
    BY <1>0, <1>1, <1>4, <1>5 DEF LimitersOK
  <2>2. LimitersOK' /\ Balanced'
    BY <1>0, <1>1, <1>3, <1>5, <2>1, SameKeepsBudget DEF BudgetInv
  <2>. QED
    BY <1>2, <2>2 DEF BudgetInv
<1>6. CASE m \in Limiters
  <2>1. clock \in Nat /\ GoodLimiter(limit[m], clock)
    BY <1>0, <1>6, BalancesAreNumbers
  <2>2. /\ GoodLimiter(given, clock)
        /\ \A x : x # j => Credit(given, x, clock) = Credit(limit[m], x, clock)
        /\ Credit(given, j, clock) <= Credit(limit[m], j, clock) + Refill
        /\ \/ Credit(given, j, clock) = Full
           \/ Credit(given, j, clock) = Credit(limit[m], j, clock) + Refill
    BY <2>1, RestoringGives
  <2>. HIDE DEF given
  <2>3. limit'[m] = given /\ \A l \in Limiters : l # m => limit'[l] = limit[l]
    BY <1>1, <1>4, <1>6
  <2>4. LimitersOK'
    <3>1. limit' = [l \in Limiters |-> limit'[l]]
      BY <1>1, <1>4
    <3>2. \A l \in Limiters : GoodLimiter(limit'[l], clock)
      BY <1>0, <2>2, <2>3 DEF LimitersOK
    <3>. QED
      BY <1>0, <1>1, <3>1, <3>2 DEF LimitersOK
  <2>5. ASSUME NEW l \in Limiters, NEW k \in AnyKey
        PROVE  Full <= Balance(l, k)' /\ Balance(l, k)' <= Full + clock
    <3>. DEFINE before == Credit(limit[l], k, clock)
                after == Credit(limit'[l], k, clock)
    <3>1. /\ Refill * (Out(l, k) - 1) = Refill * Out(l, k) - Refill
          /\ Refill * Out(l, k) \in Nat /\ Refill \in Nat /\ Out(l, k) \in Nat
          /\ before \in 0..Full /\ Full \in Nat
      BY <1>0, BalancesAreNumbers
    <3>2. Full <= before + Refill * Out(l, k) /\ before + Refill * Out(l, k) <= Full + clock
      BY DEF BudgetInv, Balanced, Balance
    <3>3. Balance(l, k)' = after + Refill * Out(l, k)'
      BY <1>1 DEF Balance
    <3>4. CASE l = m /\ k = j
      <4>1. after <= before + Refill /\ (after = Full \/ after = before + Refill)
        BY <2>2, <2>3, <3>4
      <4>2. Out(l, k)' = Out(l, k) - 1 /\ Out(l, k) - 1 \in Nat
        BY <1>3, <3>1, <3>4
      <4>3. Refill * (Out(l, k) - 1) \in Nat
        BY <3>1, <4>2
      <4>. HIDE DEF before, after
      <4>4. Balance(l, k)' = after + (Refill * Out(l, k) - Refill)
        BY <3>1, <3>3, <4>2
      <4>5. Refill * Out(l, k) - Refill \in Nat
        BY <3>1, <4>3
      <4>. QED
        BY <2>1, <3>1, <3>2, <4>1, <4>4, <4>5
    <3>5. CASE ~(l = m /\ k = j)
      <4>1. after = before
        BY <2>2, <2>3, <3>5
      <4>2. Out(l, k)' = Out(l, k)
        BY <1>3, <3>5
      <4>. QED
        BY <3>2, <3>3, <4>1, <4>2
    <3>. QED
      BY <3>4, <3>5
  <2>6. Balanced'
    BY <1>1, <2>5 DEF Balanced
  <2>. QED
    BY <1>2, <2>4, <2>6 DEF BudgetInv
<1>. QED
  BY <1>5, <1>6

LEMMA AgeingKeepsBudget ==
  ASSUME BudgetInv, Ages
  PROVE  BudgetInv'
<1>1. /\ clock < MaxClock /\ clock' = clock + 1 /\ UNCHANGED <<limit, charged, request>>
      /\ clock \in 0..MaxClock /\ MaxClock \in Nat /\ BillsOK /\ LimitersOK
  BY AccountsAssumption DEF Ages, BudgetInv, LimitersOK
<1>2. BillsOK'
  BY <1>1 DEF BillsOK, OwesAsItMay, Owing
<1>3. LimitersOK'
  <2>1. \A l \in Limiters : GoodLimiter(limit[l], clock + 1)
    BY <1>1, TimeGivesBack DEF LimitersOK
  <2>. QED
    BY <1>1, <2>1 DEF LimitersOK
<1>4. ASSUME NEW l \in Limiters, NEW k \in AnyKey
      PROVE  Full <= Balance(l, k)' /\ Balance(l, k)' <= Full + clock'
  <2>. DEFINE before == Credit(limit[l], k, clock)
              after == Credit(limit[l], k, clock + 1)
              out == Refill * Out(l, k)
  <2>1. /\ GoodLimiter(limit[l], clock) /\ before \in 0..Full /\ Full \in Nat /\ clock \in Nat
        /\ out \in Nat
    BY <1>1, BalancesAreNumbers
  <2>2. before <= after /\ after <= before + 1 /\ GoodLimiter(limit[l], clock + 1)
    BY <2>1, TimeGivesBack
  <2>3. after \in 0..Full
    BY <2>1, <2>2, CreditBounds
  <2>4. Full <= before + out /\ before + out <= Full + clock
    BY DEF BudgetInv, Balanced, Balance
  <2>5. Out(l, k)' = Out(l, k)
    BY <1>1 DEF Out, Flying, Spent
  <2>6. Balance(l, k)' = after + out
    BY <1>1, <2>5 DEF Balance
  <2>. HIDE DEF before, after, out
  <2>. QED
    BY <1>1, <2>1, <2>2, <2>3, <2>4, <2>6
<1>5. Balanced'
  BY <1>4 DEF Balanced
<1>. QED
  BY <1>2, <1>3, <1>5 DEF BudgetInv

LEMMA BudgetStep ==
  ASSUME AccountsInv, BudgetInv, [AccountsNext]_accountVars
  PROVE  BudgetInv'
<1>0. BillsOK /\ LimitersOK /\ Balanced /\ RequestsOK /\ \A r \in Req : OwesAsItMay(r)
  BY DEF BudgetInv, BillsOK, AccountsInv
<1>1. CASE UNCHANGED <<limit, charged, clock, request>>
  <2>1. BillsOK' /\ \A l \in Limiters, k \in AnyKey : Out(l, k)' = Out(l, k)
    BY <1>0, <1>1 DEF BillsOK, OwesAsItMay, Owing, Out, Flying, Spent
  <2>2. LimitersOK' /\ Balanced'
    BY <1>0, <1>1, <2>1, SameKeepsBudget
  <2>. QED
    BY <2>1, <2>2 DEF BudgetInv
<1>2. ASSUME NEW r \in Req, Stays(r) \/ Pays(r) PROVE BudgetInv'
  <2>1. BillsOK' /\ \A l \in Limiters, k \in AnyKey : Out(l, k)' = Out(l, k)
    BY <1>0, <1>2, StayingKeepsBills, PayingKeepsBills
  <2>2. UNCHANGED <<limit, clock>>
    BY <1>2 DEF Stays, Pays
  <2>3. LimitersOK' /\ Balanced'
    BY <1>0, <2>1, <2>2, SameKeepsBudget
  <2>. QED
    BY <2>1, <2>3 DEF BudgetInv
<1>3. ASSUME NEW r \in Req, Recovers(r) PROVE BudgetInv'
  BY <1>0, <1>3, RecoveringKeepsBudget
<1>4. ASSUME NEW r \in Req, NEW l \in Limiters, NEW k \in Address \cup Link, Questions(r, l, k)
      PROVE  BudgetInv'
  BY <1>4, QuestionsKeepBudget
<1>5. CASE Ages
  BY <1>5, AgeingKeepsBudget
<1>. QED
  BY <1>0, <1>1, <1>2, <1>3, <1>4, <1>5, LimiterStepCases DEF Settling

LEMMA InitBudget == AccountsInit => BudgetInv
<1>. SUFFICES ASSUME AccountsInit PROVE BudgetInv
  OBVIOUS
<1>1. /\ limit = [l \in Limiters |-> EmptyLimiter] /\ clock = 0 /\ charged = {}
      /\ request = [r \in Req |-> New]
  BY DEF AccountsInit
<1>2. New.limiter = None
  BY DEF New
<1>3. BillsOK
  <2>1. Owing = {}
    BY <1>1, <1>2 DEF Owing
  <2>. QED
    BY <1>1, <1>2, <2>1, FS_EmptySet DEF BillsOK, OwesAsItMay
<1>4. \A k : k \notin DOMAIN EmptyLimiter
  BY DEF EmptyLimiter
<1>5. LimitersOK
  <2>1. \A l \in Limiters : limit[l] = EmptyLimiter
    BY <1>1
  <2>. QED
    BY <1>1, <1>4, <2>1, AccountsAssumption DEF LimitersOK, GoodLimiter
<1>6. ASSUME NEW l \in Limiters, NEW k \in AnyKey
      PROVE  Full <= Balance(l, k) /\ Balance(l, k) <= Full + clock
  <2>1. Credit(limit[l], k, clock) = Full
    BY <1>1, <1>4 DEF Credit, Holds
  <2>2. Flying(l, k) = {} /\ Spent(l, k) = {}
    BY <1>1, <1>2, StandingAssumption DEF Flying, Spent
  <2>3. Out(l, k) = 0
    BY <2>2, FS_EmptySet DEF Out
  <2>. QED
    BY <1>1, <2>1, <2>3, FullType DEF Balance
<1>. QED
  BY <1>3, <1>5, <1>6 DEF BudgetInv, Balanced

LEMMA BudgetHolds == AccountsSpec => []BudgetInv
<1>1. AccountsInv /\ BudgetInv /\ [AccountsNext]_accountVars => BudgetInv'
  BY BudgetStep
<1>. QED
  BY <1>1, InitBudget, AccountsKeepTheirTables, PTL DEF AccountsSpec

\* What a limiter lets through is what it has, for any number of requests and keys: tokens in
\* hand, in flight and spent for good add up to the burst, plus at most what time gave back
\* (Allow, Restore and the sweep of src/internal/ratelimit, and the handlers that settle).
THEOREM BudgetsAreExact == AccountsSpec => []BudgetIsExact
<1>1. AccountsInv /\ BudgetInv => BudgetIsExact
  <2>. SUFFICES ASSUME AccountsInv, BudgetInv PROVE BudgetIsExact
    OBVIOUS
  <2>1. SUFFICES ASSUME NEW l \in Limiters, NEW k,
                        k \in {request[r].key : r \in {r \in Req : request[r].limiter = l}}
                              \cup {c[2] : c \in {d \in charged : d[1] = l}}
                 PROVE  /\ Full <= Balance(l, k) /\ Balance(l, k) <= Full + clock
                        /\ Cardinality({r \in {r \in Req : request[r].limiter = l} :
                                          request[r].key = k}) = Cardinality(Flying(l, k))
    BY DEF BudgetIsExact, Balance, Out, Spent
  <2>2. k \in AnyKey
    BY <2>1 DEF AccountsInv, RequestsOK, Request, BudgetInv, BillsOK, AnyKey
  <2>3. {r \in {r \in Req : request[r].limiter = l} : request[r].key = k} = Flying(l, k)
    BY DEF Flying
  <2>. QED
    BY <2>2, <2>3 DEF BudgetInv, Balanced
<1>. QED
  BY <1>1, AccountsKeepTheirTables, BudgetHolds, PTL

-----------------------------------------------------------------------------
(***************************************************************************)
(* The gate of the password package, and the type invariant.  Only Acquire *)
(* starts a hash; every other step leaves the requests that are hashing    *)
(* as they were, or one of them ends.                                      *)
(***************************************************************************)
HashingOK == IsFiniteSet(Hashing) /\ Cardinality(Hashing) <= Slots

LEMMA FewerHash ==
  ASSUME HashingOK, Hashing' \subseteq Hashing
  PROVE  HashingOK'
<1>1. IsFiniteSet(Hashing') /\ Cardinality(Hashing') <= Cardinality(Hashing)
  BY FS_Subset DEF HashingOK
<1>2. Cardinality(Hashing) \in Nat /\ Cardinality(Hashing') \in Nat
  BY <1>1, FS_CardinalityType DEF HashingOK
<1>3. IsFiniteSet(Hashing') /\ Cardinality(Hashing') <= Slots
  BY <1>1, <1>2, AccountsAssumption DEF HashingOK
<1>. QED
  BY <1>3 DEF HashingOK

LEMMA OneMoreHashes ==
  ASSUME RequestsOK, HashingOK, NEW r \in Req, Acquire(r)
  PROVE  HashingOK'
<1>1. /\ Cardinality(Hashing) < Slots
      /\ request[r].step = "queue"
      /\ request' = [request EXCEPT ![r] = [request[r] EXCEPT !.step = "hashing"]]
  BY DEF Acquire, Advance, Step
<1>2. Hashing' \subseteq Hashing \cup {r}
  BY <1>1 DEF Hashing, Step, RequestsOK
<1>3. /\ IsFiniteSet(Hashing \cup {r})
      /\ Cardinality(Hashing \cup {r}) <= Cardinality(Hashing) + 1
  <2>1. IsFiniteSet(Hashing) /\ Cardinality(Hashing) \in Nat
    BY FS_CardinalityType DEF HashingOK
  <2>2. /\ IsFiniteSet(Hashing \cup {r})
        /\ \/ Cardinality(Hashing \cup {r}) = Cardinality(Hashing)
           \/ Cardinality(Hashing \cup {r}) = Cardinality(Hashing) + 1
    BY <2>1, FS_AddElement
  <2>. QED
    BY <2>1, <2>2
<1>4. IsFiniteSet(Hashing') /\ Cardinality(Hashing') <= Cardinality(Hashing \cup {r})
  BY <1>2, <1>3, FS_Subset
<1>5. /\ Cardinality(Hashing) \in Nat /\ Cardinality(Hashing') \in Nat
      /\ Cardinality(Hashing \cup {r}) \in Nat
  BY <1>3, <1>4, FS_CardinalityType DEF HashingOK
<1>6. IsFiniteSet(Hashing') /\ Cardinality(Hashing') <= Slots
  BY <1>1, <1>3, <1>4, <1>5, AccountsAssumption
<1>. QED
  BY <1>6 DEF HashingOK

LEMMA NoNewHash ==
  ASSUME RequestsOK, NEW r \in Req, NEW n, request' = [request EXCEPT ![r] = n], n.step # "hashing"
  PROVE  Hashing' \subseteq Hashing
BY DEF RequestsOK, Hashing, Step

LEMMA EndingStopsAHash ==
  ASSUME RequestsOK, NEW r \in Req, Leave(r) \/ Pay(r) \/ Refund(r)
  PROVE  Hashing' \subseteq Hashing
BY NoNewHash, DoneIsARequest DEF Leave, Pay, Refund

LEMMA AdvancingStartsNone ==
  ASSUME RequestsOK, NEW r \in Req, NEW s, Advance(r, s), s # "hashing"
  PROVE  Hashing' \subseteq Hashing
<1>. DEFINE n == [request[r] EXCEPT !.step = s]
<1>1. n.step = s /\ request' = [request EXCEPT ![r] = n]
  BY DEF Advance, RequestsOK, Request
<1>. HIDE DEF n
<1>. QED
  BY <1>1, NoNewHash

LEMMA KnockingStartsNone ==
  ASSUME RequestsOK, NEW r \in Req, NEW l, NEW k, NEW found, NEW next,
         Knock(r, l, k, found, next), Keyed(next, l, k).step # "hashing"
  PROVE  Hashing' \subseteq Hashing
<1>. DEFINE n == IF Allowed(limit[l], k, clock) /\ found THEN Keyed(next, l, k) ELSE Done
<1>1. request' = [request EXCEPT ![r] = n]
  BY DEF Knock, Keyed
<1>2. n.step # "hashing"
  BY DoneIsARequest
<1>. HIDE DEF n
<1>. QED
  BY <1>1, <1>2, NoNewHash

LEMMA EnteringStartsNone ==
  ASSUME RequestsOK, NEW r \in Req, NEW op, NEW need, NEW p, NEW next,
         Enter(r, op, need, p, next), Entered(next, op, p).step # "hashing"
  PROVE  Hashing' \subseteq Hashing
<1>1. request' = [request EXCEPT ![r] = Entered(next, op, p)]
  BY DEF Enter, Entered
<1>. QED
  BY <1>1, NoNewHash

LEMMA ArrivalsStartNone ==
  ASSUME RequestsOK, NEW r \in Req,
         \/ LoginArrive(r) \/ SignupArrive(r) \/ AcceptArrive(r) \/ ResetArrive(r)
         \/ ForgotArrive(r) \/ ResendArrive(r)
         \/ RoleArrive(r) \/ RemoveArrive(r) \/ InviteArrive(r)
  PROVE  Hashing' \subseteq Hashing
<1>1. CASE LoginArrive(r)
  <2>1. PICK e \in Address, p \in Password :
          Knock(r, "login", e, TRUE,
            [New EXCEPT !.op = "login", !.step = "queue", !.pw = p,
                        !.user = IF Known(e) THEN AccountOf(e) ELSE None,
                        !.held = IF Known(e) THEN user[AccountOf(e)].pw ELSE None,
                        !.gen = IF Known(e) THEN generation[AccountOf(e)] ELSE None])
    BY <1>1 DEF LoginArrive
  <2>. DEFINE u == IF Known(e) THEN AccountOf(e) ELSE None
              h == IF Known(e) THEN user[AccountOf(e)].pw ELSE None
              g == IF Known(e) THEN generation[AccountOf(e)] ELSE None
              next == [New EXCEPT !.op = "login", !.step = "queue", !.pw = p, !.user = u, !.held = h,
                                  !.gen = g]
  <2>2. Knock(r, "login", e, TRUE, next)
    BY <2>1
  <2>. HIDE DEF u, h, g
  <2>3. Keyed(next, "login", e).step = "queue"
    BY DEF Keyed, New
  <2>. HIDE DEF next
  <2>. QED
    BY <2>2, <2>3, KnockingStartsNone
<1>2. CASE SignupArrive(r)
  <2>1. PICK e \in Address, o \in Org \ {Home} :
          Knock(r, "signup", e, TRUE,
            [New EXCEPT !.op = "signup", !.step = "queue", !.org = o, !.pw = "first"])
    BY <1>2 DEF SignupArrive
  <2>. DEFINE next == [New EXCEPT !.op = "signup", !.step = "queue", !.org = o, !.pw = "first"]
  <2>2. Knock(r, "signup", e, TRUE, next) /\ Keyed(next, "signup", e).step = "queue"
    BY <2>1 DEF Keyed, New
  <2>. HIDE DEF next
  <2>. QED
    BY <2>2, KnockingStartsNone
<1>3. CASE AcceptArrive(r) \/ ResetArrive(r)
  <2>1. \E l, p, op, m : Knock(r, m, l, Live(l), [New EXCEPT !.op = op, !.step = "queue", !.pw = p])
    BY <1>3 DEF AcceptArrive, ResetArrive
  <2>2. PICK l, p, op, m :
          Knock(r, m, l, Live(l), [New EXCEPT !.op = op, !.step = "queue", !.pw = p])
    BY <2>1
  <2>. DEFINE next == [New EXCEPT !.op = op, !.step = "queue", !.pw = p]
  <2>3. Knock(r, m, l, Live(l), next) /\ Keyed(next, m, l).step = "queue"
    BY <2>2 DEF Keyed, New
  <2>. HIDE DEF next
  <2>. QED
    BY <2>3, KnockingStartsNone
<1>4. CASE ForgotArrive(r)
  <2>1. PICK e \in Address :
          Knock(r, "forgot", e, Known(e),
            [New EXCEPT !.op = "forgot", !.step = "issue",
                        !.user = IF Known(e) THEN AccountOf(e) ELSE None])
    BY <1>4 DEF ForgotArrive
  <2>. DEFINE u == IF Known(e) THEN AccountOf(e) ELSE None
              next == [New EXCEPT !.op = "forgot", !.step = "issue", !.user = u]
  <2>2. Knock(r, "forgot", e, Known(e), next)
    BY <2>1
  <2>. HIDE DEF u
  <2>3. Keyed(next, "forgot", e).step = "issue"
    BY DEF Keyed, New
  <2>. HIDE DEF next
  <2>. QED
    BY <2>2, <2>3, KnockingStartsNone
<1>5. CASE ResendArrive(r)
  <2>1. PICK p \in Principals :
          Knock(r, "resend", user[p.user].email, ~user[p.user].verified,
            [New EXCEPT !.op = "resend", !.step = "clear", !.user = p.user])
    BY <1>5 DEF ResendArrive
  <2>. DEFINE next == [New EXCEPT !.op = "resend", !.step = "clear", !.user = p.user]
              e == user[p.user].email
  <2>2. Knock(r, "resend", e, ~user[p.user].verified, next)
    BY <2>1
  <2>. HIDE DEF e
  <2>3. Keyed(next, "resend", e).step = "clear"
    BY DEF Keyed, New
  <2>. HIDE DEF next
  <2>. QED
    BY <2>2, <2>3, KnockingStartsNone
<1>6. CASE RoleArrive(r)
  <2>1. PICK p \in Principals, a \in Present, n \in AllRoles :
          Enter(r, "role", "member.manage", p,
                [New EXCEPT !.step = "owners", !.user = a, !.role = n])
    BY <1>6 DEF RoleArrive
  <2>. DEFINE next == [New EXCEPT !.step = "owners", !.user = a, !.role = n]
  <2>2. Enter(r, "role", "member.manage", p, next) /\ Entered(next, "role", p).step = "owners"
    BY <2>1 DEF Entered, New
  <2>. HIDE DEF next
  <2>. QED
    BY <2>2, EnteringStartsNone
<1>7. CASE RemoveArrive(r)
  <2>1. PICK p \in Principals, a \in Present :
          Enter(r, "remove", "member.manage", p, [New EXCEPT !.step = "owners", !.user = a])
    BY <1>7 DEF RemoveArrive
  <2>. DEFINE next == [New EXCEPT !.step = "owners", !.user = a]
  <2>2. Enter(r, "remove", "member.manage", p, next) /\ Entered(next, "remove", p).step = "owners"
    BY <2>1 DEF Entered, New
  <2>. HIDE DEF next
  <2>. QED
    BY <2>2, EnteringStartsNone
<1>8. CASE InviteArrive(r)
  <2>1. PICK p \in Principals, e \in Address, n \in AllRoles \ {Owner} :
          Enter(r, "invite", "member.invite", p,
                [New EXCEPT !.step = "place", !.email = e, !.role = n])
    BY <1>8 DEF InviteArrive
  <2>. DEFINE next == [New EXCEPT !.step = "place", !.email = e, !.role = n]
  <2>2. Enter(r, "invite", "member.invite", p, next) /\ Entered(next, "invite", p).step = "place"
    BY <2>1 DEF Entered, New
  <2>. HIDE DEF next
  <2>. QED
    BY <2>2, EnteringStartsNone
<1>. QED
  BY <1>1, <1>2, <1>3, <1>4, <1>5, <1>6, <1>7, <1>8

LEMMA HashingStep ==
  ASSUME AccountsInv, HashingOK, [AccountsNext]_accountVars
  PROVE  HashingOK'
<1>0. RequestsOK
  BY DEF AccountsInv
<1>1. CASE UNCHANGED accountVars \/ Tick \/ \E l \in Link : Lapse(l)
  <2>1. request' = request
    BY <1>1 DEF accountVars, Tick, Lapse
  <2>. QED
    BY <2>1, FewerHash DEF Hashing, Step
<1>2. ASSUME NEW r \in Req, Acquire(r) PROVE HashingOK'
  BY <1>0, <1>2, OneMoreHashes
<1>3. ASSUME NEW r \in Req,
             \/ LoginArrive(r) \/ SignupArrive(r) \/ AcceptArrive(r) \/ ResetArrive(r)
             \/ ForgotArrive(r) \/ ResendArrive(r)
             \/ RoleArrive(r) \/ RemoveArrive(r) \/ InviteArrive(r)
      PROVE  Hashing' \subseteq Hashing
  BY <1>0, <1>3, ArrivalsStartNone
<1>4. ASSUME NEW r \in Req,
             \/ Logout(r) \/ SetRole(r) \/ RemoveMember(r) \/ SendInvitation(r)
             \/ WithdrawUnsent(r) \/ RevokeInvitation(r) \/ VerifyEmail(r)
             \/ LoginInsert(r) \/ AcceptInsert(r) \/ CreatePasswordReset(r)
             \/ ResetPassword(r) \/ CreateEmailVerification(r) \/ Shed(r) \/ Drop(r)
      PROVE  Hashing' \subseteq Hashing
  <2>1. Leave(r) \/ Pay(r) \/ Refund(r)
    BY <1>4 DEF Logout, SetRole, RemoveMember, SendInvitation, WithdrawUnsent, RevokeInvitation,
                VerifyEmail, LoginInsert, AcceptInsert, CreatePasswordReset, ResetPassword,
                CreateEmailVerification, Shed, Drop
  <2>. QED
    BY <1>0, <2>1, EndingStopsAHash
<1>5. ASSUME NEW r \in Req,
             LoginVerify(r) \/ CreateInvitation(r) \/ ClearConfirmations(r)
      PROVE  Hashing' \subseteq Hashing
  <2>1. Pay(r) \/ \E s : Advance(r, s) /\ s # "hashing"
    BY <1>5 DEF LoginVerify, CreateInvitation, ClearConfirmations
  <2>. QED
    BY <1>0, <2>1, EndingStopsAHash, AdvancingStartsNone
<1>6. ASSUME NEW r \in Req, ReadOwners(r) PROVE Hashing' \subseteq Hashing
  <2>. DEFINE n == [request[r] EXCEPT !.step = "decide", !.owners = Owners(request[r].actor.org)]
  <2>1. request' = [request EXCEPT ![r] = n] /\ n.step = "decide"
    BY <1>0, <1>6 DEF ReadOwners, RequestsOK, Request
  <2>. HIDE DEF n
  <2>. QED
    BY <1>0, <2>1, NoNewHash
<1>7. ASSUME NEW r \in Req, AcceptClaim(r) PROVE Hashing' \subseteq Hashing
  <2>. DEFINE n == [request[r] EXCEPT !.step = "insert", !.user = NextAccount,
                                      !.gen = generation[NextAccount]]
  <2>1. Pay(r) \/ request' = [request EXCEPT ![r] = n]
    BY <1>7 DEF AcceptClaim
  <2>2. n.step = "insert"
    BY <1>0 DEF RequestsOK, Request
  <2>. HIDE DEF n
  <2>. QED
    BY <1>0, <2>1, <2>2, NoNewHash, EndingStopsAHash
<1>8. ASSUME NEW r \in Req, SignUp(r) PROVE Hashing' \subseteq Hashing
  <2>. DEFINE n == [request[r] EXCEPT !.op = "resend", !.step = "clear", !.user = NextAccount]
  <2>1. Pay(r) \/ request' = [request EXCEPT ![r] = n]
    BY <1>8 DEF SignUp
  <2>2. n.step = "clear"
    BY <1>0 DEF RequestsOK, Request
  <2>. HIDE DEF n
  <2>. QED
    BY <1>0, <2>1, <2>2, NoNewHash, EndingStopsAHash
<1>. QED
  BY <1>1, <1>2, <1>3, <1>4, <1>5, <1>6, <1>7, <1>8, FewerHash DEF AccountsNext

LEMMA InitHashing == AccountsInit => HashingOK
<1>. SUFFICES ASSUME AccountsInit PROVE HashingOK
  OBVIOUS
<1>1. Hashing = {}
  BY DEF AccountsInit, Hashing, Step, New
<1>. QED
  BY <1>1, FS_EmptySet, AccountsAssumption DEF HashingOK

\* The tables hold what their columns allow, sessions belong to accounts that are there, no
\* bucket is overfull, and no more passwords are hashed at once than there are slots (acquire
\* of src/internal/auth/password.go), for any number of requests.
THEOREM AccountsTypeCorrect == AccountsSpec => []AccountsTypeOK
<1>1. AccountsInv /\ HashingOK /\ [AccountsNext]_accountVars => HashingOK'
  BY HashingStep
<1>2. AccountsInv /\ LimitersOK /\ HashingOK => AccountsTypeOK
  <2>. SUFFICES ASSUME AccountsInv, LimitersOK, HashingOK PROVE AccountsTypeOK
    OBVIOUS
  <2>1. \A l \in Link : link[l].state \in {"none", "live", "used", "lapsed", "gone"}
    BY DEF AccountsInv, RowsOK, LinkRow, LinkState
  <2>2. session \subseteq [by : Req \cup {Before}, user : Present]
    BY DEF AccountsInv, RowsOK, NoOrphans
  <2>3. \A l \in Limiters : \A k \in DOMAIN limit[l] : limit[l][k].shares \in 0..Full
    BY DEF LimitersOK, GoodLimiter
  <2>. QED
    BY <2>1, <2>2, <2>3 DEF AccountsTypeOK, AccountsInv, RowsOK, LimitersOK, HashingOK
<1>3. BudgetInv => LimitersOK
  BY DEF BudgetInv
<1>. QED
  BY <1>1, <1>2, <1>3, InitHashing, AccountsKeepTheirTables, BudgetHolds, PTL DEF AccountsSpec
=============================================================================
