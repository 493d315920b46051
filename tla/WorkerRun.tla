----------------------------- MODULE WorkerRun -----------------------------
(***************************************************************************)
(* worker.RunOnce (src/internal/worker/worker.go): one bounded cycle of    *)
(* observe, claim, gate, execute, account and persist, run by any number   *)
(* of workers over the store of one goal, with people who answer parked    *)
(* tasks and cancel the run.                                               *)
(*                                                                         *)
(* A cycle holds a copy of the goal row and the clock from its first step  *)
(* to its last; between any two store calls anything may happen, so every  *)
(* store call is a step of its own.  pc[w] names the call the cycle makes  *)
(* next, or how the last RunOnce returned ("more", "stop", "error").       *)
(***************************************************************************)
EXTENDS RunStore

CONSTANTS
  Worker,              \* calls of RunOnce that may be under way at once
  Console,             \* console requests that may be under way at once
  LeaseName,           \* LeaseName[w]: the worker id it leases under
  Initial,             \* the tasks Plan returned
  Spawns,              \* Spawns[t]: what Replan proposes once t has succeeded
  MaxTasks,            \* Ceilings.MaxTasks
  MaxAttemptsPerTask,  \* Ceilings.MaxAttemptsPerTask
  Gated,               \* tasks the approval policy wants a person for
  Counted,             \* tasks of the kind the completion criterion counts
  Threshold,           \* how many of them it takes
  MaxAborts            \* bound on cycles cut short

ASSUME Callers ==
  /\ Worker \cup Console \subseteq Client
  /\ Worker \cap Console = {}
  /\ LeaseName \in [Worker -> WorkerId]
ASSUME Planning ==
  /\ Initial \in (SUBSET Task) \ {{}}
  /\ Spawns \in [Task -> SUBSET Task]
  /\ Gated \cup Counted \subseteq Task
  /\ \A t \in Initial : Edges(t) \subseteq Initial
  /\ \A t \in Task : \A u \in Spawns[t] : Edges(u) \subseteq Initial \cup {t} \cup Spawns[t]
\* Improve.Replan: each finding starts a chain of its own, whose tasks need it and each other.
ASSUME ChainsStandAlone ==
  /\ \A t \in Task : Spawns[t] \cap Initial = {}
  /\ \A t, u \in Task : t # u => Spawns[t] \cap Spawns[u] = {}
  /\ \A t \in Task : \A u \in Spawns[t] : DependsOn[u] \subseteq {t} \cup Spawns[t]
ASSUME Ceilings ==
  /\ MaxTasks \in Nat
  /\ MaxAttemptsPerTask \in Nat \ {0}
  /\ Threshold \in Nat \ {0}
  /\ MaxAborts \in Nat

VARIABLES
  pc,         \* where each worker is
  cycle,      \* the locals of its RunOnce
  calls,      \* how often each task's tool was invoked
  checkpoint, \* the iteration of the latest checkpoint
  aborts      \* cycles cut short so far

runVars == <<pc, cycle, calls, checkpoint, aborts>>
workerVars == <<storeVars, runVars>>

Resting == {"more", "stop", "error"}
Step == {"claim", "gate", "tool", "spend", "settle", "propagate", "checkpoint",
         "idle", "grow", "conclude"}

\* What Invoke came back with: a result, an error worth retrying, an effect that could not
\* be confirmed, or any of them under a context that was cancelled meanwhile.
Answer == {"ok", "error", "inconclusive", "interrupted"}
NoAnswer == "none"
NoTask == "none"

\* seen: g, the copy of the goal row; task, try, permitted: t, t.Attempt and t.Approved as
\* Claim returned them; adding: the tasks Revise added.
Cycle == [now : Nat, seen : GoalRow, task : Task \cup {NoTask}, try : Nat, permitted : BOOLEAN,
          answer : Answer \cup {NoAnswer}, adding : SUBSET Task]

NoCycle ==
  [now |-> 0, seen |-> [state |-> "draft", iterations |-> 0, cause |-> "none"], task |-> NoTask,
   try |-> 0, permitted |-> FALSE, answer |-> NoAnswer, adding |-> {}]

WorkerTypeOK ==
  /\ StoreTypeOK
  /\ pc \in [Worker -> Resting \cup Step]
  /\ cycle \in [Worker -> Cycle]
  /\ calls \in [Task -> Nat]
  /\ checkpoint \in Nat
  /\ aborts \in 0..MaxAborts

WorkerInit ==
  /\ StoreInit
  /\ pc = [w \in Worker |-> "more"]
  /\ cycle = [w \in Worker |-> NoCycle]
  /\ calls = [t \in Task |-> 0]
  /\ checkpoint = 0
  /\ aborts = 0

\* The cycle's next store call; the cycle returns.
Go(w, step, c) == pc' = [pc EXCEPT ![w] = step] /\ cycle' = [cycle EXCEPT ![w] = c]
Return(w, how) == Go(w, how, NoCycle)

ghosts == <<calls, checkpoint, aborts>>

Now(w) == cycle[w].now
Seen(w) == cycle[w].seen
Job(w) == cycle[w].task
Ledger(w) == [NoCycle EXCEPT !.seen = Seen(w)]   \* all that is read after settling
Holds(w) == Held(Job(w), LeaseName[w], Now(w))

-----------------------------------------------------------------------------
(***************************************************************************)
(* What a plan looks like to idle.  st is the graph LoadDAG returned.      *)
(***************************************************************************)
Present(st) == {t \in Task : st[t] # Absent}
SucceededTasks(st) == {t \in Task : st[t] = "succeeded"}

\* Revise: what the results justify and the plan does not hold yet.
Proposed(st) == (UNION {Spawns[t] : t \in SucceededTasks(st)}) \ Present(st)
TooManyTasks(st) == Cardinality(Present(st) \cup Proposed(st)) > MaxTasks

\* mutant: a task that ended, however it ended, counts towards the objective
MetByEnding(st) == Cardinality({t \in Counted : st[t] \in Terminal}) >= Threshold

\* EvaluateCompletion over the observations idle counted.
CriteriaMet(st) == Cardinality(Counted \cap SucceededTasks(st)) >= Threshold

Exhausted(st) == \A t \in Task : ~Unfinished(st, t)

-----------------------------------------------------------------------------
(***************************************************************************)
(* observe                                                                 *)
(***************************************************************************)
\* A driver exists only once the plan is stored.
CycleStarts(w) == pc[w] \in Resting /\ Present(state) # {}

GoalNotClaimable(w) ==
  /\ CycleStarts(w) /\ goal.state # "running"
  /\ Return(w, "stop")
  /\ UNCHANGED <<storeVars, ghosts>>

\* mutant: the ceiling is compared one too late
ObserveLateCeiling(w) ==
  /\ CycleStarts(w) /\ goal.state = "running" /\ goal.iterations <= MaxIterations
  /\ Go(w, "claim", [NoCycle EXCEPT !.now = clock, !.seen = goal])
  /\ UNCHANGED <<storeVars, ghosts>>

Observe(w) ==
  /\ CycleStarts(w) /\ goal.state = "running" /\ goal.iterations < MaxIterations
  /\ Go(w, "claim", [NoCycle EXCEPT !.now = clock, !.seen = goal])
  /\ UNCHANGED <<storeVars, ghosts>>

\* The goal this cycle is about to save, with a new state and a reason.
Ended(g, end, why) == [g EXCEPT !.state = end, !.cause = why]

CeilingReached(w) ==
  /\ CycleStarts(w) /\ goal.state = "running" /\ goal.iterations >= MaxIterations
  /\ Go(w, "conclude",
        [NoCycle EXCEPT !.now = clock, !.seen = Ended(goal, "failed", "ceiling_exceeded")])
  /\ UNCHANGED <<storeVars, ghosts>>

(***************************************************************************)
(* claim, and the approval gate                                            *)
(***************************************************************************)
TakeTask(w) ==
  /\ pc[w] = "claim"
  /\ \E t \in Task :
       /\ ClientClaim(t, LeaseName[w], Now(w))
       /\ Go(w, "gate", [cycle[w] EXCEPT !.task = t, !.try = attempt'[t],
                                         !.permitted = approved[t]])
  /\ UNCHANGED ghosts

NothingToClaim(w) ==
  /\ pc[w] = "claim"
  /\ goal.state # "running" \/ ClaimableSet(Now(w)) = {}
  /\ Go(w, "idle", Ledger(w))
  /\ UNCHANGED <<storeVars, ghosts>>

NeedsPerson(w) == Job(w) \in Gated /\ ~cycle[w].permitted

\* Parked: the lease is given up so that a person's thinking time is not a held claim.
Park(w) ==
  /\ pc[w] = "gate" /\ NeedsPerson(w)
  /\ \/ Complete(w, Job(w), LeaseName[w], "awaiting_approval", Now(w)) /\ Return(w, "more")
     \/ ~Holds(w) /\ UNCHANGED storeVars /\ Return(w, "error")
  /\ UNCHANGED ghosts

\* mutant: the gate asks whether a person is needed and forgets whether one has answered
InvokeUnasked(w) ==
  /\ pc[w] = "gate"
  /\ calls' = [calls EXCEPT ![Job(w)] = @ + 1]
  /\ Go(w, "tool", cycle[w])
  /\ UNCHANGED <<storeVars, checkpoint, aborts>>

(***************************************************************************)
(* execute                                                                 *)
(***************************************************************************)
\* The inputs are results of settled tasks, so gathering them is part of the call.
Invoke(w) ==
  /\ pc[w] = "gate" /\ ~NeedsPerson(w)
  /\ calls' = [calls EXCEPT ![Job(w)] = @ + 1]
  /\ Go(w, "tool", cycle[w])
  /\ UNCHANGED <<storeVars, checkpoint, aborts>>

ToolReturns(w) ==
  /\ pc[w] = "tool"
  /\ \E answer \in Answer : Go(w, "spend", [cycle[w] EXCEPT !.answer = answer])
  /\ UNCHANGED <<storeVars, ghosts>>

\* mutant: only a successful call is charged to the goal
ChargeSuccess(w) ==
  /\ pc[w] = "spend"
  /\ LET spent == [Seen(w) EXCEPT !.iterations =
                     IF cycle[w].answer = "ok" THEN @ + 1 ELSE @]
     IN \/ SaveGoal(spent) /\ Go(w, "settle", [cycle[w] EXCEPT !.seen = spent])
        \/ RefuseTerminalOverwrite(spent) /\ UNCHANGED storeVars /\ Return(w, "stop")
  /\ UNCHANGED ghosts

\* Spend is saved whatever the call returned, by overwriting the row with the copy read
\* when the cycle began.  A run that ended meanwhile refuses it, and the cycle returns with
\* its task still leased and running.
RecordSpend(w) ==
  /\ pc[w] = "spend"
  /\ LET spent == [Seen(w) EXCEPT !.iterations = @ + 1]
     IN \/ SaveGoal(spent) /\ Go(w, "settle", [cycle[w] EXCEPT !.seen = spent])
        \/ RefuseTerminalOverwrite(spent) /\ UNCHANGED storeVars /\ Return(w, "stop")
  /\ UNCHANGED ghosts

(***************************************************************************)
(* persist, and the retry ladder                                           *)
(***************************************************************************)
\* mutant: a task that keeps failing is always given back
NeverGivesUp(w) == cycle[w].answer = "inconclusive"

\* handleFailure: an effect nobody could confirm is never tried again, nor a task out of
\* attempts.
GivesUp(w) ==
  \/ cycle[w].answer = "inconclusive"
  \/ cycle[w].answer = "error" /\ cycle[w].try >= MaxAttemptsPerTask

Succeed(w) ==
  /\ cycle[w].answer = "ok"
  /\ Complete(w, Job(w), LeaseName[w], "succeeded", Now(w))
  /\ Go(w, "checkpoint", Ledger(w))

Fail(w) ==
  /\ GivesUp(w)
  /\ Complete(w, Job(w), LeaseName[w], "failed", Now(w))
  /\ Go(w, "propagate", NoCycle)

Retry(w) ==
  /\ cycle[w].answer = "error" /\ ~GivesUp(w)
  /\ Release(Job(w), LeaseName[w], Now(w))
  /\ Return(w, "more")

\* The context was cancelled: the task goes back, and the cycle returns ctx.Err().
HandBack(w) ==
  /\ cycle[w].answer = "interrupted"
  /\ Release(Job(w), LeaseName[w], Now(w))
  /\ Return(w, "error")

\* ErrLeaseLost: another worker has the task, and this result is dropped.
LoseLease(w) == ~Holds(w) /\ UNCHANGED storeVars /\ Return(w, "error")

Settle(w) ==
  /\ pc[w] = "settle"
  /\ Succeed(w) \/ Fail(w) \/ Retry(w) \/ HandBack(w) \/ LoseLease(w)
  /\ UNCHANGED ghosts

Propagate(w) ==
  /\ pc[w] = "propagate"
  /\ Sweep(w)
  /\ IF w \in sweeping' THEN Go(w, "propagate", NoCycle) ELSE Return(w, "more")
  /\ UNCHANGED ghosts

\* mutant: the checkpoint names the iteration that comes next
CheckpointNext(w) ==
  /\ pc[w] = "checkpoint"
  /\ checkpoint' = Seen(w).iterations + 1
  /\ Return(w, "more")
  /\ UNCHANGED <<storeVars, calls, aborts>>

\* Idempotent on the iteration: the latest checkpoint is the one with the highest.
WriteCheckpoint(w) ==
  /\ pc[w] = "checkpoint"
  /\ checkpoint' = IF Seen(w).iterations > checkpoint THEN Seen(w).iterations ELSE checkpoint
  /\ Return(w, "more")
  /\ UNCHANGED <<storeVars, calls, aborts>>

(***************************************************************************)
(* idle: replan, wait for a person, succeed, give up, or come back later.  *)
(* One read of the graph; the write it leads to is a step of its own.      *)
(***************************************************************************)
Concluding(w, end, why) == Go(w, "conclude", [cycle[w] EXCEPT !.seen = Ended(@, end, why)])

Awaiting(st) == \E t \in Task : st[t] = "awaiting_approval"

\* mutant: a plan that could still grow is judged as it stands
QuietUngrown(w) == pc[w] = "idle" /\ ~Awaiting(state)

\* Nothing to add and nobody to wait for: the plan is judged.
Quiet(w) == pc[w] = "idle" /\ Proposed(state) = {} /\ ~Awaiting(state)

PlanOutgrown(w) ==
  /\ pc[w] = "idle" /\ Proposed(state) # {} /\ TooManyTasks(state)
  /\ Concluding(w, "failed", "ceiling_exceeded")
  /\ UNCHANGED <<storeVars, ghosts>>

Replan(w) ==
  /\ pc[w] = "idle" /\ Proposed(state) # {} /\ ~TooManyTasks(state)
  /\ Go(w, "grow", [NoCycle EXCEPT !.adding = Present(state) \cup Proposed(state)])
  /\ UNCHANGED <<storeVars, ghosts>>

BlockedOnApproval(w) ==
  /\ pc[w] = "idle" /\ Proposed(state) = {} /\ Awaiting(state)
  /\ Return(w, "stop")
  /\ UNCHANGED <<storeVars, ghosts>>

DeclareSuccess(w) ==
  /\ Quiet(w) /\ CriteriaMet(state)
  /\ Concluding(w, "succeeded", "none")
  /\ UNCHANGED <<storeVars, ghosts>>

DeclareExhausted(w) ==
  /\ Quiet(w) /\ ~CriteriaMet(state) /\ Exhausted(state)
  /\ Concluding(w, "failed", "plan_exhausted")
  /\ UNCHANGED <<storeVars, ghosts>>

DeclareStalled(w) ==
  /\ Quiet(w) /\ ~CriteriaMet(state) /\ ~Exhausted(state) /\ Stalled(state)
  /\ Concluding(w, "failed", "plan_stalled")
  /\ UNCHANGED <<storeVars, ghosts>>

\* Another worker holds the only claimable task.
ComeBackLater(w) ==
  /\ Quiet(w) /\ ~CriteriaMet(state) /\ ~Exhausted(state) /\ ~Stalled(state)
  /\ Return(w, "more")
  /\ UNCHANGED <<storeVars, ghosts>>

\* The goal's state is not asked again before the plan grows.
Grow(w) ==
  /\ pc[w] = "grow"
  /\ SaveDAG(cycle[w].adding)
  /\ Return(w, "more")
  /\ UNCHANGED ghosts

\* mutant: the row is overwritten without looking at the state it has
ConcludeBlindly(w) ==
  /\ pc[w] = "conclude"
  /\ goal' = Seen(w)
  /\ Return(w, "stop")
  /\ UNCHANGED <<clock, taskVars, sweeping, ghosts>>

Conclude(w) ==
  /\ pc[w] = "conclude"
  /\ \/ SaveGoal(Seen(w))
     \/ RefuseTerminalOverwrite(Seen(w)) /\ UNCHANGED storeVars
  /\ Return(w, "stop")
  /\ UNCHANGED ghosts

-----------------------------------------------------------------------------
(***************************************************************************)
(* Everybody else.                                                         *)
(***************************************************************************)
\* startGoal: the goal row exists, and its plan is stored before anything drives it.
StorePlan ==
  /\ Present(state) = {}
  /\ SaveDAG(Initial)
  /\ UNCHANGED runVars

CancelRun == Cancel(clock) /\ UNCHANGED runVars

Answered(k, t, approve) == k \notin sweeping /\ Decide(k, t, approve) /\ UNCHANGED runVars

FinishDecline(k) == Sweep(k) /\ UNCHANGED runVars

TimePasses == Tick /\ UNCHANGED runVars

\* The cycle ends here: its process died, or a store call failed and RunOnce returned that; but idle
\* takes a graph it could not read for a plan that is not there yet, and asks for another cycle.
Abort(w) ==
  /\ pc[w] \in Step /\ aborts < MaxAborts
  /\ aborts' = aborts + 1
  /\ Vanish({w})
  /\ \/ Return(w, "error")
     \/ pc[w] = "idle" /\ Return(w, "more")
  /\ UNCHANGED <<calls, checkpoint>>

\* What RunOnce does once a cycle has begun, and how a cycle begins.
Continue(w) ==
  \/ TakeTask(w) \/ NothingToClaim(w) \/ Park(w) \/ Invoke(w) \/ ToolReturns(w)
  \/ RecordSpend(w) \/ Settle(w) \/ Propagate(w) \/ WriteCheckpoint(w)
  \/ PlanOutgrown(w) \/ Replan(w) \/ BlockedOnApproval(w) \/ DeclareSuccess(w)
  \/ DeclareExhausted(w) \/ DeclareStalled(w) \/ ComeBackLater(w)
  \/ Grow(w) \/ Conclude(w)

Begin(w) == GoalNotClaimable(w) \/ Observe(w) \/ CeilingReached(w)

People ==
  \/ StorePlan
  \/ CancelRun
  \/ \E k \in Console, t \in Task, approve \in BOOLEAN : Answered(k, t, approve)
  \/ \E k \in Console : FinishDecline(k)

WorkerNext ==
  \/ \E w \in Worker : Begin(w) \/ Continue(w) \/ Abort(w)
  \/ People
  \/ TimePasses

WorkerSpec == WorkerInit /\ [][WorkerNext]_workerVars

-----------------------------------------------------------------------------
(***************************************************************************)
(* What must be true of a run, however cycles interleave.                  *)
(***************************************************************************)
Executing(w) == pc[w] \in {"gate", "tool", "spend", "settle"}
LeaseLives(w) == clock < Now(w) + Lease

\* Two cycles may both believe they have a task, when one is slower than its lease; they
\* never both have a live lease on it (Claim's expiry test against the claimer's clock).
LiveExecutorIsAlone ==
  \A v, w \in Worker :
    v # w /\ Executing(v) /\ Executing(w) /\ Job(v) = Job(w) => ~(LeaseLives(v) /\ LeaseLives(w))

\* An outcome is recorded, or a task given back, only by the cycle of its latest attempt: a
\* worker that was slow and then overtaken cannot write what it found (Complete, Release).
ResultFromHolder ==
  [][\A w \in Worker : Executing(w) =>
       LET t == Job(w) IN
         pc'[w] # pc[w] /\ leasedBy[t] # Nobody /\ leasedBy'[t] = Nobody
           => attempt[t] = cycle[w].try]_workerVars

\* The tool of a gated task never runs before a person has approved that task, through
\* parking, declining, retries, reclaims and cancels (the approval gate, Decide).
NoEffectWithoutConsent == \A t \in Gated : calls[t] > 0 => approved[t]

\* A run is reported successful only when the tasks that count have succeeded, and they
\* still have (idle, EvaluateCompletion).
SuccessMeansMet ==
  goal.state = "succeeded" => Cardinality({t \in Counted : state[t] = "succeeded"}) >= Threshold

\* No task has been blocked that others only took a contribution from.
NoContributorBlocked == \A t \in Task : \A d \in Contributes[t] : state[d] # "blocked"

\* A run that gave up on its plan had nothing left to do, and no result that would have made the
\* plan grow: no task unfinished, or nothing able to start -- unless a propagation pass that was
\* still owed has given a task its last contribution since (idle, Stalled, propagateFailure).
GivingUpIsRight ==
  /\ goal.cause = "plan_exhausted" => Exhausted(state)
  /\ goal.cause = "plan_stalled" /\ NoContributorBlocked => ReadySet(state) = {} /\ ~Awaiting(state)
  /\ goal.cause = "plan_exhausted" \/ (goal.cause = "plan_stalled" /\ NoContributorBlocked) =>
       Proposed(state) = {}

\* "work remains but none of it can ever run" (DidStall, src/internal/worker/worker.go): a run
\* that was reported stalled has no task that can start and none that is running.
StalledForGood ==
  goal.cause = "plan_stalled" => ReadySet(state) = {} /\ \A t \in Task : state[t] # "running"

\* When every propagation that began has ended, none that a dead worker owed is missing and
\* nothing waits for a dead dependency, whatever failed, was declined or ended meanwhile.
FailureReachesDependents ==
  sweeping = {} /\ aborts = 0 => \A t \in Task : ~NeedsDead(state, t)

\* "Leaving it means the task finishes normally and the goal is already terminal when it
\* does" (store.Cancel): once every cycle has returned and none was cut short, no task whose
\* tool ran is left unfinished in a cancelled run.
CancelledRunSettles ==
  goal.state = "cancelled" /\ aborts = 0 /\ (\A w \in Worker : pc[w] \in Resting)
    => \A t \in Task : calls[t] > 0 => ~Unfinished(state, t)
============================================================================
