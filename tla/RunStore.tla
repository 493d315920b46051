------------------------------ MODULE RunStore ------------------------------
(***************************************************************************)
(* The durable store of ONE goal, as the deployed service runs it: the     *)
(* Postgres leg (src/internal/store/postgres.go).  A goal row, a row per   *)
(* task, and the lease columns that stop two workers executing one task.   *)
(*                                                                         *)
(* Each operator below is one SQL statement or one transaction, so each is *)
(* one step.  The exception is failure propagation: Complete and Decide    *)
(* commit first and then issue one UPDATE per pass until a pass changes    *)
(* nothing, so a client can die between the passes (Sweep, Vanish).        *)
(*                                                                         *)
(* Operators take the caller's worker id and the caller's `now`.  Expiry   *)
(* is judged on read, against the `now` the CALLER brings, which may be    *)
(* older than the clock: RunOnce reads the clock once per cycle.           *)
(***************************************************************************)
EXTENDS TaskDag, Integers, FiniteSets

CONSTANTS Client,          \* who calls the store: worker processes and console handlers
          WorkerId,        \* the strings written to leased_by
          Nobody,          \* the empty leased_by
          Lease,           \* how long a claim is held
          MaxClock,        \* bound on the clock
          MaxIterations    \* Ceilings.MaxIterations; also bounds the ledger column

ASSUME PlanShape ==
  /\ DependsOn \in [Task -> SUBSET Task]
  /\ Contributes \in [Task -> SUBSET Task]
ASSUME PlanIsAcyclic == Acyclic
ASSUME StoreConstants ==
  /\ Nobody \notin WorkerId
  /\ Lease \in Nat \ {0}
  /\ MaxClock \in Nat
  /\ MaxIterations \in Nat \ {0}

Instant == 0..MaxClock

GoalTerminal == {"succeeded", "failed", "refused", "cancelled"}
GoalState == GoalTerminal \cup {"draft", "running", "paused"}
Cause == {"none", "ceiling_exceeded", "plan_exhausted", "plan_stalled"}

\* The columns of a goal row that decide anything: SaveGoal overwrites all of them at once.
GoalRow == [state : GoalState, iterations : Nat, cause : Cause]

VARIABLES
  clock,     \* wall-clock time
  goal,      \* the goal row
  state,     \* task columns: state, attempt, leased_by, lease_expiry, approved
  attempt,
  leasedBy,
  expiry,
  approved,
  sweeping   \* clients inside propagateFailure's loop

leaseVars == <<attempt, leasedBy, expiry, approved>>
taskVars == <<state, leaseVars>>
storeVars == <<clock, goal, taskVars, sweeping>>

StoreTypeOK ==
  /\ clock \in Instant
  /\ goal \in GoalRow
  /\ state \in [Task -> TaskState]
  /\ attempt \in [Task -> Nat]
  /\ leasedBy \in [Task -> WorkerId \cup {Nobody}]
  /\ expiry \in [Task -> Nat]
  /\ approved \in [Task -> BOOLEAN]
  /\ sweeping \in SUBSET Client

\* startGoal admits a draft and creates the row running, before the plan exists.
StoreInit ==
  /\ clock = 0
  /\ goal = [state |-> "running", iterations |-> 0, cause |-> "none"]
  /\ state = [t \in Task |-> Absent]
  /\ attempt = [t \in Task |-> 0]
  /\ leasedBy = [t \in Task |-> Nobody]
  /\ expiry = [t \in Task |-> 0]
  /\ approved = [t \in Task |-> FALSE]
  /\ sweeping = {}

-----------------------------------------------------------------------------
(***************************************************************************)
(* The goal row.                                                           *)
(***************************************************************************)
\* mutant: the guard that stops a stale writer relabelling a finished run is gone
NeverRefused(g) == FALSE

RefuseTerminalOverwrite(g) == goal.state \in GoalTerminal /\ g.state # goal.state

\* The whole row is overwritten, from the copy the caller holds.
SaveGoal(g) ==
  /\ ~RefuseTerminalOverwrite(g)
  /\ goal' = g
  /\ UNCHANGED <<clock, taskVars, sweeping>>

\* mutant: every unfinished task is cancelled, even under a live lease
CancellableEvenIfHeld(t, now) == Unfinished(state, t)

Cancellable(t, now) ==
  Unfinished(state, t) /\ ~(leasedBy[t] # Nobody /\ expiry[t] > now)

\* leased_by and lease_expiry are left as they were, also on the rows it cancels.
Cancel(now) ==
  /\ goal.state \notin GoalTerminal
  /\ goal' = [goal EXCEPT !.state = "cancelled"]
  /\ state' = [t \in Task |-> IF Cancellable(t, now) THEN "cancelled" ELSE state[t]]
  /\ UNCHANGED <<clock, leaseVars, sweeping>>

\* An upsert: rows that exist keep every execution column, new rows enter pending.
SaveDAG(tasks) ==
  /\ \A t \in tasks : \A d \in Edges(t) : d \in tasks \/ state[d] # Absent
  /\ state' = [t \in Task |->
                 IF t \in tasks /\ state[t] = Absent THEN "pending" ELSE state[t]]
  /\ UNCHANGED <<clock, goal, leaseVars, sweeping>>

-----------------------------------------------------------------------------
(***************************************************************************)
(* Leases.                                                                 *)
(***************************************************************************)
\* mutant: a running task is claimable whatever its lease says
ClaimableWhileHeld(now) ==
  {t \in Task : state[t] \in {"pending", "ready", "running"} /\ DependenciesSucceeded(state, t)}

\* mutant: a running task is never claimable, so a dead worker keeps its task for good
ClaimableUnstarted(now) == ReadySet(state)

ClaimableSet(now) ==
  {t \in Task : /\ \/ state[t] \in {"pending", "ready"}
                   \/ state[t] = "running" /\ expiry[t] <= now
                /\ DependenciesSucceeded(state, t)}

\* Which claimable row: the first by id that no concurrent statement has locked, so any.
Claim(t, id, now) ==
  /\ goal.state = "running"
  /\ t \in ClaimableSet(now)
  /\ state' = [state EXCEPT ![t] = "running"]
  /\ leasedBy' = [leasedBy EXCEPT ![t] = id]
  /\ expiry' = [expiry EXCEPT ![t] = now + Lease]
  /\ attempt' = [attempt EXCEPT ![t] = @ + 1]
  /\ UNCHANGED <<clock, goal, approved, sweeping>>

\* mutant: a lease is a lease, whoever holds it
HeldByAnybody(t, id, now) == leasedBy[t] # Nobody /\ expiry[t] > now

Held(t, id, now) == leasedBy[t] = id /\ expiry[t] > now

Renew(t, id, now) ==
  /\ Held(t, id, now)
  /\ expiry' = [expiry EXCEPT ![t] = now + Lease]
  /\ UNCHANGED <<clock, goal, state, attempt, leasedBy, approved, sweeping>>

\* mutant: a failure is recorded and nothing is propagated
CompleteAlone(c, t, id, next, now) ==
  /\ Held(t, id, now)
  /\ state' = [state EXCEPT ![t] = next]
  /\ leasedBy' = [leasedBy EXCEPT ![t] = Nobody]
  /\ expiry' = [expiry EXCEPT ![t] = 0]
  /\ UNCHANGED <<clock, goal, attempt, approved, sweeping>>

\* The statement that records an outcome: guarded by the lease alone, not by the state.
Complete(c, t, id, next, now) ==
  /\ Held(t, id, now)
  /\ state' = [state EXCEPT ![t] = next]
  /\ leasedBy' = [leasedBy EXCEPT ![t] = Nobody]
  /\ expiry' = [expiry EXCEPT ![t] = 0]
  /\ sweeping' = IF next = "failed" THEN sweeping \cup {c} ELSE sweeping
  /\ UNCHANGED <<clock, goal, attempt, approved>>

\* mutant: the lease is made to end in the past instead of being cleared
ReleaseBackdated(t, id, now) ==
  /\ Held(t, id, now)
  /\ state' = [state EXCEPT ![t] = "ready"]
  /\ leasedBy' = [leasedBy EXCEPT ![t] = Nobody]
  /\ expiry' = [expiry EXCEPT ![t] = now - Lease]
  /\ UNCHANGED <<clock, goal, attempt, approved, sweeping>>

Release(t, id, now) ==
  /\ Held(t, id, now)
  /\ state' = [state EXCEPT ![t] = "ready"]
  /\ leasedBy' = [leasedBy EXCEPT ![t] = Nobody]
  /\ expiry' = [expiry EXCEPT ![t] = 0]
  /\ UNCHANGED <<clock, goal, attempt, approved, sweeping>>

\* mutant: a decision is accepted for a task whatever its state
DecideAnything(c, t, approve) ==
  /\ state[t] # Absent
  /\ state' = [state EXCEPT ![t] = IF approve THEN "ready" ELSE "cancelled"]
  /\ approved' = [approved EXCEPT ![t] = approve]
  /\ sweeping' = IF approve THEN sweeping ELSE sweeping \cup {c}
  /\ UNCHANGED <<clock, goal, attempt, leasedBy, expiry>>

\* A person answers a parked task.  The state is the guard; the goal's is not asked.
Decide(c, t, approve) ==
  /\ state[t] = "awaiting_approval"
  /\ state' = [state EXCEPT ![t] = IF approve THEN "ready" ELSE "cancelled"]
  /\ approved' = [approved EXCEPT ![t] = approve]
  /\ sweeping' = IF approve THEN sweeping ELSE sweeping \cup {c}
  /\ UNCHANGED <<clock, goal, attempt, leasedBy, expiry>>

-----------------------------------------------------------------------------
(***************************************************************************)
(* One pass of propagateFailure, by a client in its loop.  A pass blocks   *)
(* what directly needs a dead task; the pass that finds nothing ends the   *)
(* loop.                                                                   *)
(***************************************************************************)
Sweep(c) ==
  /\ c \in sweeping
  /\ state' = [t \in Task |-> IF NeedsDead(state, t) THEN "blocked" ELSE state[t]]
  /\ sweeping' = IF \E t \in Task : NeedsDead(state, t) THEN sweeping ELSE sweeping \ {c}
  /\ UNCHANGED <<clock, goal, leaseVars>>

\* Clients die, one or a whole process of them: the passes they still owed are never made.
Vanish(clients) ==
  /\ sweeping' = sweeping \ clients
  /\ UNCHANGED <<clock, goal, taskVars>>

Tick ==
  /\ clock < MaxClock
  /\ clock' = clock + 1
  /\ UNCHANGED <<goal, taskVars, sweeping>>

-----------------------------------------------------------------------------
(***************************************************************************)
(* The store under ANY clients: every operation, with any worker id and    *)
(* any `now` up to the present, in any order.  What holds here holds       *)
(* whatever the workers do; WorkerRun is the client the program has.       *)
(***************************************************************************)
CONSTANT MaxClaims   \* bound on the claims of one task under any clients

ASSUME ClaimsBounded == MaxClaims \in Nat \ {0}

Outcome == {"succeeded", "failed", "awaiting_approval"}

ClientClaim(t, id, now) == attempt[t] < MaxClaims /\ Claim(t, id, now)
ClientSave(g) == goal # g /\ SaveGoal(g)
\* Rows that exist keep what they have, so a plan is told by the rows it adds.
ClientGrow(tasks) ==
  /\ tasks # {} /\ \A t \in tasks : state[t] = Absent
  /\ SaveDAG(tasks)
ClientComplete(t, id, now) ==
  /\ Held(t, id, now)
  /\ \E c \in Client \ sweeping, next \in Outcome : Complete(c, t, id, next, now)
ClientsDie(clients) == clients \cap sweeping # {} /\ Vanish(clients)

StoreNext ==
  \/ \E g \in [state : GoalState, iterations : 0..MaxIterations, cause : Cause] : ClientSave(g)
  \/ \E now \in 0..clock : Cancel(now)
  \/ \E tasks \in SUBSET Task : ClientGrow(tasks)
  \/ \E t \in Task, id \in WorkerId, now \in 0..clock : ClientClaim(t, id, now)
  \/ \E t \in Task, id \in WorkerId, now \in 0..clock : Renew(t, id, now)
  \/ \E t \in Task, id \in WorkerId, now \in 0..clock : ClientComplete(t, id, now)
  \/ \E t \in Task, id \in WorkerId, now \in 0..clock : Release(t, id, now)
  \/ \E c \in Client \ sweeping, t \in Task, approve \in BOOLEAN : Decide(c, t, approve)
  \/ \E c \in Client : Sweep(c)
  \/ \E clients \in SUBSET Client : ClientsDie(clients)
  \/ Tick

StoreSpec == StoreInit /\ [][StoreNext]_storeVars

-----------------------------------------------------------------------------
(***************************************************************************)
(* What the store promises every client.                                   *)
(***************************************************************************)
Started == {"running", "awaiting_approval", "succeeded", "failed"}

Settled(t) == state[t] \in Terminal /\ leasedBy[t] = Nobody

Prerequisites(t) ==
  /\ \A d \in DependsOn[t] : state[d] = "succeeded"
  /\ \A d \in Contributes[t] : state[d] \in Terminal

\* The readiness rule survives everything that happens after it was checked: no cancel,
\* decision, propagation pass or late result takes a prerequisite back from a task that
\* has begun (ClaimableSet, Complete, Decide, Cancel, propagateFailure).
PrerequisitesHold == \A t \in Task : state[t] \in Started => Prerequisites(t)

\* A finished task that nobody holds keeps its outcome: no approval revives it, no pass
\* overwrites it, no replan resets it (Decide, Cancel, SaveDAG, propagateFailure).
SettledForever == [][\A t \in Task : Settled(t) => state'[t] = state[t]]_storeVars

\* While a lease is live by the real clock, nobody but its holder changes the task: a
\* claim with an older `now`, a cancel and a propagation pass all leave it alone, and the
\* holder gives the lease up when it changes the state (Claim, Cancel, Complete, Release).
LiveLeaseProtects ==
  [][\A t \in Task : leasedBy[t] # Nobody /\ expiry[t] > clock =>
       /\ leasedBy'[t] \in {leasedBy[t], Nobody}
       /\ leasedBy'[t] = leasedBy[t] => state'[t] = state[t]]_storeVars

\* An ended run is never relabelled: a completion that lands after a cancel, or a cancel
\* after a completion, is refused (SaveGoal, refuseTerminalOverwrite, Cancel).
GoalEndsOnce ==
  [][goal.state \in GoalTerminal => goal'.state = goal.state]_storeVars
=============================================================================
