--------------------------------- MODULE Boot ---------------------------------
(***************************************************************************)
(* Starting the daemon, by several processes on one database:              *)
(* src/cmd/herosd/main.go, src/db/migrations/embed.go, and what they read  *)
(* of the environment (src/internal/auth/password.go,                      *)
(* src/internal/mailer/mailer.go, src/internal/mailer/render.go).          *)
(*                                                                         *)
(* Every process runs the whole chain of migrations at every start, one    *)
(* statement at a time and in no transaction, while another transaction    *)
(* that does nothing else holds an advisory lock, the gate.  A process can *)
(* die at any moment; the statement it had sent may still be executed      *)
(* after that, and the connection of the gate can die alone.               *)
(***************************************************************************)
EXTENDS Naturals, Sequences

CONSTANTS
  Process,
  Chain,         \* the statements, in order: [kind, on], kind one of
                 \*   "create" (if it is not there), "drop" (if it is), "add", "promote"
  Environment,   \* [key, hashing, relay, mode, url, admin, weak]: what an operator may have set
  Installed,     \* the accounts a database may hold already: sequences of [email, role]
  MaxBoots, MaxDeaths   \* bounds

Free == "free"   \* the gate, when nobody holds it

\* A statement that leaves a thing of this name there, and one that takes it away.
Makes(s, n) == s.kind \in {"create", "add"} /\ s.on = n
Drops(s, n) == s.kind = "drop" /\ s.on = n

\* What the migrations are written to be: a constraint is dropped before it is added, everything
\* that is dropped is made again, and an organization without owners is given one.
ASSUME ChainAssumption ==
  /\ Chain \in Seq([kind : {"create", "drop", "add", "promote"}, on : STRING])
  /\ \A i \in 1..Len(Chain) : Chain[i].kind = "add" =>
       \E j \in 1..(i - 1) : /\ Drops(Chain[j], Chain[i].on)
                            /\ \A k \in (j + 1)..(i - 1) : ~Makes(Chain[k], Chain[i].on)
  /\ \A i \in 1..Len(Chain) : Makes(Chain[i], Chain[i].on) =>
       \E j \in 1..Len(Chain) : /\ Makes(Chain[j], Chain[i].on)
                                /\ \A k \in (j + 1)..Len(Chain) : ~Drops(Chain[k], Chain[i].on)
  /\ \E i \in 1..Len(Chain) : Chain[i].kind = "promote"

\* No two accounts of a database have one address: users_email_global.
ASSUME InstalledAssumption ==
  /\ Free \notin Process /\ Environment # {}
  /\ \A e \in Environment : e.admin \in STRING
  /\ Installed \subseteq Seq([email : STRING, role : {"owner", "admin", "member", "viewer"}])
  /\ \A known \in Installed : \A i, j \in DOMAIN known : known[i].email = known[j].email => i = j

RelaySetting == {"host", "username", "password", "from"}   \* and a port, which may be unset

VARIABLES
  schema,      \* what the database has: tables, columns, indexes and constraints
  accounts,    \* its accounts, oldest first
  tenants,     \* its organizations
  gate,        \* who holds the lock
  inFlight,        \* statements of dead processes that the database may still execute
  proc,        \* process |-> [step, env, at, why]
  torn,        \* ghost: the schema was left by a chain that did not run whole and alone
  unguarded,   \* ghost: a statement of the chain ran, or may run, without the lock
  boots, deaths

bootVars == <<schema, accounts, tenants, gate, inFlight, proc, torn, unguarded, boots, deaths>>

Names(i) == {Chain[j].on : j \in {j \in 1..i : Chain[j].kind \in {"create", "add"}}}
Whole == Names(Len(Chain))

BootInit ==
  /\ \E release \in 0..Len(Chain) : schema = Names(release)   \* what an older release left
  /\ accounts \in (IF "users" \in schema THEN Installed ELSE {<< >>})
  /\ tenants = IF accounts = << >> THEN {} ELSE {"local"}
  /\ gate = Free /\ inFlight = {}
  /\ proc = [p \in Process |-> [step |-> "down", env |-> CHOOSE e \in Environment : TRUE, at |-> 0, why |-> ""]]
  /\ torn = FALSE /\ unguarded = FALSE /\ boots = 0 /\ deaths = 0

Reach(p, s) == proc' = [proc EXCEPT ![p].step = s]
Exit(p, s, why) == proc' = [proc EXCEPT ![p].step = s, ![p].why = why]

-----------------------------------------------------------------------------
(***************************************************************************)
(* The environment                                                         *)
(***************************************************************************)
\* ConfigureFromEnv: nonsense in the two numbers of the password gate is refused.
PasswordWorkConfigured(e) == e.hashing \in {"unset", "sensible"}

\* FromEnv: a relay, wholly configured; or, with none of it set, what the mode says.
MailOf(e) ==
  IF e.relay # {}
  THEN IF RelaySetting \subseteq e.relay THEN "relay" ELSE "refused"
  ELSE IF e.mode \in {"log", "off"} THEN e.mode ELSE "refused"

\* NewLinks: an origin, and nothing more than an origin.
LinksOf(e) == IF e.url = "origin" THEN "origin" ELSE "refused"

-----------------------------------------------------------------------------
(***************************************************************************)
(* main, in its order                                                      *)
(***************************************************************************)
\* The file, the key and the password gate, before the database is touched.
Start(p) ==
  /\ proc[p].step \in {"down", "refused", "failed"} /\ boots < MaxBoots /\ boots' = boots + 1
  /\ \E e \in Environment :
       proc' = [proc EXCEPT ![p] =
         [step |-> IF e.key /\ PasswordWorkConfigured(e) THEN "gating" ELSE "refused",
          env |-> e, at |-> 1, why |-> ""]]
  /\ UNCHANGED <<schema, accounts, tenants, gate, inFlight, torn, unguarded, deaths>>

\* mutant: the chain runs beside that of another process
SkipGate(p) ==
  /\ proc[p].step = "gating" /\ gate' = p /\ torn' = FALSE /\ Reach(p, "migrating")
  /\ UNCHANGED <<schema, accounts, tenants, inFlight, unguarded, boots, deaths>>

\* Apply waits for the gate.
LockGate(p) ==
  /\ proc[p].step = "gating" /\ gate = Free /\ gate' = p
  /\ torn' = FALSE
  /\ Reach(p, "migrating")
  /\ UNCHANGED <<schema, accounts, tenants, inFlight, unguarded, boots, deaths>>

\* Postgres knows no ADD CONSTRAINT IF NOT EXISTS.
Refuses(s) == s.kind = "add" /\ s.on \in schema

\* The oldest account becomes owner where there is none.
Promoted ==
  IF accounts = << >> \/ \E i \in DOMAIN accounts : accounts[i].role = "owner"
  THEN accounts ELSE [accounts EXCEPT ![1].role = "owner"]

Execute(s) ==
  /\ schema' = IF s.kind = "drop" THEN schema \ {s.on}
               ELSE IF s.kind = "promote" THEN schema ELSE schema \cup {s.on}
  /\ accounts' = IF s.kind = "promote" THEN Promoted ELSE accounts

Unlock(p) == gate' = IF gate = p THEN Free ELSE gate

\* One statement; an error ends the process, and its transaction with it.
Migrate(p) ==
  LET s == Chain[proc[p].at] IN
  /\ proc[p].step = "migrating" /\ proc[p].at <= Len(Chain)
  /\ IF Refuses(s)
     THEN /\ Exit(p, "failed", "already exists") /\ Unlock(p) /\ torn' = TRUE
          /\ UNCHANGED <<schema, accounts>>
     ELSE /\ Execute(s) /\ proc' = [proc EXCEPT ![p].at = @ + 1]
          /\ torn' = (torn \/ gate # p) /\ UNCHANGED gate
  /\ UNCHANGED <<tenants, inFlight, unguarded, boots, deaths>>

\* Apply returns, and the lock goes with the transaction.
OpenGate(p) ==
  /\ proc[p].step = "migrating" /\ proc[p].at > Len(Chain)
  /\ Unlock(p) /\ Reach(p, "wiring")
  /\ UNCHANGED <<schema, accounts, tenants, inFlight, torn, unguarded, boots, deaths>>

\* The planners, the tools and the mail; a public address is needed by whoever sends mail.
Configure(p) ==
  LET e == proc[p].env IN
  /\ proc[p].step = "wiring"
  /\ IF MailOf(e) = "refused" \/ (MailOf(e) # "off" /\ LinksOf(e) = "refused")
     THEN Reach(p, "refused") ELSE Reach(p, "counting")
  /\ UNCHANGED <<schema, accounts, tenants, gate, inFlight, torn, unguarded, boots, deaths>>

\* bootstrapIdentity: nothing to do where there are accounts, nothing possible without credentials.
CountUsers(p) ==
  /\ proc[p].step = "counting"
  /\ Reach(p, IF accounts # << >> THEN "listening"
              ELSE IF proc[p].env.admin = "" THEN "refused" ELSE "founding")
  /\ UNCHANGED <<schema, accounts, tenants, gate, inFlight, torn, unguarded, boots, deaths>>

CreateTenant(p) ==
  /\ proc[p].step = "founding"
  /\ tenants' = tenants \cup {"local"} /\ Reach(p, "hiring")
  /\ UNCHANGED <<schema, accounts, gate, inFlight, torn, unguarded, boots, deaths>>

\* A weak password or an address that is taken ends the process, and the organization stays.
CreateUser(p) ==
  LET email == proc[p].env.admin IN
  /\ proc[p].step = "hiring"
  /\ IF proc[p].env.weak \/ \E i \in DOMAIN accounts : accounts[i].email = email
     THEN Exit(p, "failed", "no first account") /\ UNCHANGED accounts
     ELSE /\ accounts' = Append(accounts, [email |-> email, role |-> "owner"])
          /\ Reach(p, IF MailOf(proc[p].env) = "off" THEN "listening" ELSE "confirming")
  /\ UNCHANGED <<schema, tenants, gate, inFlight, torn, unguarded, boots, deaths>>

\* The link that confirms the address: it may not arrive, and the process goes on all the same.
SendConfirmation(p) ==
  /\ proc[p].step = "confirming" /\ Reach(p, "listening")
  /\ UNCHANGED <<schema, accounts, tenants, gate, inFlight, torn, unguarded, boots, deaths>>

\* The server is put together, and listens if the address is free.
Listen(p) ==
  /\ proc[p].step = "listening" /\ (Reach(p, "serving") \/ Exit(p, "failed", "address in use"))
  /\ UNCHANGED <<schema, accounts, tenants, gate, inFlight, torn, unguarded, boots, deaths>>

-----------------------------------------------------------------------------
(***************************************************************************)
(* What can go wrong                                                       *)
(***************************************************************************)
Dies == deaths < MaxDeaths /\ deaths' = deaths + 1

\* The process is killed, or the database fails it: the gate opens with its connection, and what
\* was sent on the other connection may still be executed.
Die(p) ==
  /\ Dies /\ proc[p].step \notin {"down", "refused", "failed"}
  /\ Reach(p, "down") /\ Unlock(p)
  /\ torn' = (torn \/ proc[p].step = "migrating")
  /\ IF proc[p].step = "migrating" /\ proc[p].at <= Len(Chain)
     THEN inFlight' \in {inFlight, inFlight \cup {Chain[proc[p].at]}} ELSE UNCHANGED inFlight
  /\ unguarded' = (unguarded \/ inFlight' # inFlight)
  /\ UNCHANGED <<schema, accounts, tenants, boots>>

\* The idle connection that holds the gate is cut: its process does not notice.
LoseGate(p) ==
  /\ Dies /\ gate = p /\ gate' = Free
  /\ torn' = TRUE /\ unguarded' = TRUE
  /\ UNCHANGED <<schema, accounts, tenants, inFlight, proc, boots>>

ExecuteLate(s) ==
  /\ s \in inFlight /\ inFlight' = inFlight \ {s} /\ torn' = TRUE
  /\ IF Refuses(s) THEN UNCHANGED <<schema, accounts>> ELSE Execute(s)
  /\ UNCHANGED <<tenants, gate, proc, unguarded, boots, deaths>>

BootNext ==
  \/ \E p \in Process :
       \/ Start(p) \/ LockGate(p) \/ Migrate(p) \/ OpenGate(p) \/ Configure(p)
       \/ CountUsers(p) \/ CreateTenant(p) \/ CreateUser(p) \/ SendConfirmation(p) \/ Listen(p)
       \/ Die(p) \/ LoseGate(p)
  \/ \E s \in inFlight : ExecuteLate(s)

BootSpec == BootInit /\ [][BootNext]_bootVars

-----------------------------------------------------------------------------
\* Processes that start together do not make each other fail over a constraint, unless a
\* connection died under one of them ("Two processes interleaving those four statements ... leaves
\* the second one failing with 'constraint already exists'", src/db/migrations/embed.go); while
\* nobody migrates, whoever serves has the whole schema under it; an organization that lost its
\* owners has one again once a process serves, and the first account is made once, as an owner.
BootIsSafe ==
  /\ \A p \in Process : proc[p].why = "already exists" => unguarded
  /\ \A p \in Process :
       proc[p].step = "serving" =>
         /\ gate = Free /\ ~torn => schema = Whole
         /\ \E i \in DOMAIN accounts : accounts[i].role = "owner"
         /\ "local" \in tenants
  /\ \A i, j \in DOMAIN accounts : accounts[i].email = accounts[j].email => i = j
=============================================================================
