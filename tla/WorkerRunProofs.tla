--------------------------- MODULE WorkerRunProofs ---------------------------
(***************************************************************************)
(* Every cycle of RunOnce, whatever it interleaves with, is a sequence of  *)
(* steps the store allows any client: WorkerSpec implements StoreSpec.     *)
(* What is proved of the store for any clients therefore holds of runs.    *)
(*                                                                         *)
(* What has to be known of a cycle for its calls to be legal is            *)
(* CyclesAreClients: its `now` is not in the future, the copy of the goal  *)
(* it will charge has room for one more iteration, its task is a task, and *)
(* it is inside the propagation loop only when it says so.                 *)
(***************************************************************************)
EXTENDS WorkerRun, RunStoreProofs, FiniteSetTheorems

CyclesAreClients ==
  \A w \in Worker :
    /\ cycle[w].now \in 0..clock
    /\ cycle[w].seen.iterations <= MaxIterations
    /\ pc[w] \in {"claim", "gate", "tool", "spend"} => cycle[w].seen.iterations < MaxIterations
    /\ pc[w] \in {"gate", "tool", "spend", "settle"} => cycle[w].task \in Task
    /\ w \in sweeping => pc[w] = "propagate"

CycleTypeOK ==
  /\ pc \in [Worker -> Resting \cup Step]
  /\ cycle \in [Worker -> Cycle]

LedgerWithinCeiling == goal.iterations <= MaxIterations

WorkerInv == StoreTypeOK /\ CycleTypeOK /\ CyclesAreClients /\ LedgerWithinCeiling

-----------------------------------------------------------------------------
(***************************************************************************)
(* Each step of a cycle is a step of the store or leaves it alone.         *)
(***************************************************************************)
StoreStep == [StoreNext]_storeVars

LEMMA ClaimIsAStoreStep ==
  ASSUME WorkerInv, NEW w \in Worker, TakeTask(w)
  PROVE  StoreStep
<1>1. PICK t \in Task : ClientClaim(t, LeaseName[w], Now(w))
  BY DEF TakeTask
<1>2. LeaseName[w] \in WorkerId /\ Now(w) \in 0..clock
  BY Callers DEF WorkerInv, CyclesAreClients, Now
<1>. QED
  BY <1>1, <1>2 DEF StoreStep, StoreNext

LEMMA OutcomeIsAStoreStep ==
  ASSUME WorkerInv, NEW w \in Worker, pc[w] \in {"gate", "settle"}, NEW next \in Outcome,
         Complete(w, Job(w), LeaseName[w], next, Now(w))
  PROVE  StoreStep
<1>1. LeaseName[w] \in WorkerId /\ Now(w) \in 0..clock /\ Job(w) \in Task
  BY Callers DEF WorkerInv, CyclesAreClients, Now, Job
<1>2. w \in Client \ sweeping
  BY Callers DEF WorkerInv, CyclesAreClients
<1>3. ClientComplete(Job(w), LeaseName[w], Now(w))
  BY <1>2 DEF ClientComplete, Complete
<1>. QED
  BY <1>1, <1>3 DEF StoreStep, StoreNext

LEMMA GivingBackIsAStoreStep ==
  ASSUME WorkerInv, NEW w \in Worker, pc[w] = "settle", Release(Job(w), LeaseName[w], Now(w))
  PROVE  StoreStep
<1>1. LeaseName[w] \in WorkerId /\ Now(w) \in 0..clock /\ Job(w) \in Task
  BY Callers DEF WorkerInv, CyclesAreClients, Now, Job
<1>. QED
  BY <1>1 DEF StoreStep, StoreNext

LEMMA SavingIsAStoreStep ==
  ASSUME StoreTypeOK, NEW g \in GoalRow, g.iterations <= MaxIterations, SaveGoal(g)
  PROVE  StoreStep
<1>1. g \in [state : GoalState, iterations : 0..MaxIterations, cause : Cause]
  BY StoreConstants DEF GoalRow
<1>2. CASE goal = g
  BY <1>2 DEF SaveGoal, StoreStep, storeVars
<1>3. CASE goal # g
  BY <1>1, <1>3 DEF ClientSave, StoreStep, StoreNext
<1>. QED
  BY <1>2, <1>3

LEMMA GrowingIsAStoreStep ==
  ASSUME StoreTypeOK, NEW tasks \in SUBSET Task, SaveDAG(tasks)
  PROVE  StoreStep
<1>1. CASE \E t \in tasks : state[t] = Absent
  <2>. DEFINE new == {t \in tasks : state[t] = Absent}
  <2>1. SaveDAG(new)
    BY <1>1 DEF SaveDAG
  <2>2. ClientGrow(new)
    BY <1>1, <2>1 DEF ClientGrow
  <2>. QED
    BY <2>2 DEF StoreStep, StoreNext
<1>2. CASE \A t \in tasks : state[t] # Absent
  <2>1. state' = state
    BY <1>2 DEF SaveDAG, StoreTypeOK
  <2>. QED
    BY <2>1 DEF SaveDAG, StoreStep, storeVars, taskVars
<1>. QED
  BY <1>1, <1>2

LEMMA SpendingIsAStoreStep ==
  ASSUME WorkerInv, NEW w \in Worker, RecordSpend(w)
  PROVE  StoreStep
<1>. DEFINE spent == [Seen(w) EXCEPT !.iterations = @ + 1]
<1>1. spent \in GoalRow /\ spent.iterations <= MaxIterations
  BY StoreConstants DEF WorkerInv, CycleTypeOK, Cycle, CyclesAreClients, RecordSpend, Seen, GoalRow
<1>2. SaveGoal(spent) \/ UNCHANGED storeVars
  BY DEF RecordSpend
<1>. QED
  BY <1>1, <1>2, SavingIsAStoreStep DEF WorkerInv, StoreStep

LEMMA SettlingIsAStoreStep ==
  ASSUME WorkerInv, NEW w \in Worker, Settle(w)
  PROVE  StoreStep
<1>. USE DEF Settle
<1>1. CASE Succeed(w)
  BY <1>1, OutcomeIsAStoreStep DEF Succeed, Outcome
<1>2. CASE Fail(w)
  BY <1>2, OutcomeIsAStoreStep DEF Fail, Outcome
<1>3. CASE Retry(w)
  BY <1>3, GivingBackIsAStoreStep DEF Retry
<1>4. CASE HandBack(w)
  BY <1>4, GivingBackIsAStoreStep DEF HandBack
<1>5. CASE LoseLease(w)
  BY <1>5 DEF LoseLease, StoreStep
<1>. QED
  BY <1>1, <1>2, <1>3, <1>4, <1>5

LEMMA CycleStepIsAStoreStep ==
  ASSUME WorkerInv, NEW w \in Worker, Begin(w) \/ Continue(w) \/ Abort(w)
  PROVE  StoreStep
<1>1. CASE TakeTask(w)
  BY <1>1, ClaimIsAStoreStep
<1>2. CASE Park(w)
  BY <1>2, OutcomeIsAStoreStep DEF Park, Outcome, StoreStep
<1>3. CASE RecordSpend(w)
  BY <1>3, SpendingIsAStoreStep
<1>4. CASE Settle(w)
  BY <1>4, SettlingIsAStoreStep
<1>5. CASE Propagate(w)
  BY <1>5, Callers DEF Propagate, StoreStep, StoreNext
<1>6. CASE Grow(w)
  BY <1>6, GrowingIsAStoreStep DEF Grow, WorkerInv, CycleTypeOK, Cycle
<1>7. CASE Conclude(w)
  <2>1. Seen(w) \in GoalRow /\ Seen(w).iterations <= MaxIterations
    BY DEF WorkerInv, CycleTypeOK, Cycle, CyclesAreClients, Seen
  <2>. QED
    BY <1>7, <2>1, SavingIsAStoreStep DEF Conclude, WorkerInv, StoreStep
<1>8. CASE Abort(w)
  <2>1. Vanish({w})
    BY <1>8 DEF Abort
  <2>2. CASE w \in sweeping
    BY <2>1, <2>2, Callers DEF ClientsDie, StoreStep, StoreNext
  <2>3. CASE w \notin sweeping
    <3>1. sweeping' = sweeping
      BY <2>1, <2>3 DEF Vanish
    <3>. QED
      BY <2>1, <3>1 DEF Vanish, StoreStep, storeVars
  <2>. QED
    BY <2>2, <2>3
<1>9. CASE UNCHANGED storeVars
  BY <1>9 DEF StoreStep
<1>. QED
  BY <1>1, <1>2, <1>3, <1>4, <1>5, <1>6, <1>7, <1>8, <1>9
     DEF Begin, Continue, GoalNotClaimable, Observe, CeilingReached, NothingToClaim, Invoke,
         ToolReturns, WriteCheckpoint, PlanOutgrown, Replan, BlockedOnApproval, DeclareSuccess,
         DeclareExhausted, DeclareStalled, ComeBackLater

LEMMA WorkerStepIsAStoreStep ==
  ASSUME WorkerInv, [WorkerNext]_workerVars
  PROVE  StoreStep
<1>1. ASSUME NEW w \in Worker, Begin(w) \/ Continue(w) \/ Abort(w) PROVE StoreStep
  BY <1>1, CycleStepIsAStoreStep
<1>2. CASE StorePlan
  BY <1>2, Planning, GrowingIsAStoreStep DEF StorePlan, WorkerInv
<1>3. CASE CancelRun
  <2>1. clock \in 0..clock
    BY DEF WorkerInv, StoreTypeOK, Instant
  <2>. QED
    BY <1>3, <2>1 DEF CancelRun, StoreStep, StoreNext
<1>4. CASE \E k \in Console, t \in Task, approve \in BOOLEAN : Answered(k, t, approve)
  BY <1>4, Callers DEF Answered, StoreStep, StoreNext
<1>5. CASE \E k \in Console : FinishDecline(k)
  BY <1>5, Callers DEF FinishDecline, StoreStep, StoreNext
<1>6. CASE TimePasses
  BY <1>6 DEF TimePasses, StoreStep, StoreNext
<1>7. CASE UNCHANGED workerVars
  BY <1>7 DEF workerVars, StoreStep
<1>. QED
  BY <1>1, <1>2, <1>3, <1>4, <1>5, <1>6, <1>7 DEF WorkerNext, People

-----------------------------------------------------------------------------
(***************************************************************************)
(* WorkerInv is inductive.                                                 *)
(***************************************************************************)
LEMMA LedgerStep ==
  ASSUME StoreTypeOK, LedgerWithinCeiling, StoreStep
  PROVE  LedgerWithinCeiling'
<1>. USE StoreConstants DEF LedgerWithinCeiling
<1>1. CASE AnySave
  BY <1>1 DEF AnySave, ClientSave, SaveGoal
<1>2. CASE AnyCancel
  BY <1>2 DEF AnyCancel, Cancel, StoreTypeOK, GoalRow
<1>3. AnySave \/ AnyCancel \/ goal' = goal
  BY StoreStepCases
     DEF StoreStep, AnyGrow, ClientGrow, SaveDAG, AnyClaim, ClientClaim, Claim, AnyRenew, Renew,
         AnyComplete, Complete, AnyRelease, Release, AnyDecide, Decide, AnySweep, Sweep,
         AnyDeath, ClientsDie, Vanish, Tick, storeVars
<1>. QED
  BY <1>1, <1>2, <1>3

LEMMA NoCycleIsACycle ==
  NoCycle \in Cycle /\ NoCycle.now = 0 /\ NoCycle.seen.iterations = 0
BY DEF NoCycle, Cycle, GoalRow, GoalState, GoalTerminal, Cause

\* What a cycle carries once it has settled, and what it carries when it sweeps or grows.
LEMMA LedgerIsACycle ==
  ASSUME WorkerInv, NEW w \in Worker
  PROVE  /\ Ledger(w) \in Cycle /\ Ledger(w).now \in 0..clock
         /\ Ledger(w).seen.iterations <= MaxIterations
         /\ NoCycle.now \in 0..clock /\ NoCycle.seen.iterations <= MaxIterations
<1>1. clock \in Nat /\ 0 \in 0..clock /\ 0 <= MaxIterations
  BY StoreConstants DEF WorkerInv, StoreTypeOK, Instant
<1>2. cycle[w].seen \in GoalRow /\ cycle[w].seen.iterations <= MaxIterations
  BY DEF WorkerInv, CycleTypeOK, CyclesAreClients, Cycle
<1>3. /\ Ledger(w) \in Cycle
      /\ Ledger(w).now = 0 /\ Ledger(w).seen = cycle[w].seen
  BY <1>2, NoCycleIsACycle DEF Ledger, Seen, Cycle
<1>. QED
  BY <1>1, <1>2, <1>3, NoCycleIsACycle

\* One worker moves on; what it moves to is legal, and nobody else's cycle is touched.
LEMMA GoKeepsInv ==
  ASSUME WorkerInv, StoreTypeOK', LedgerWithinCeiling', clock' = clock,
         NEW w \in Worker, NEW step \in Resting \cup Step, NEW c \in Cycle, Go(w, step, c),
         sweeping' \ {w} \subseteq sweeping,
         w \in sweeping' => step = "propagate",
         c.now \in 0..clock, c.seen.iterations <= MaxIterations,
         step \in {"claim", "gate", "tool", "spend"} => c.seen.iterations < MaxIterations,
         step \in {"gate", "tool", "spend", "settle"} => c.task \in Task
  PROVE  WorkerInv'
<1>1. CycleTypeOK'
  BY DEF WorkerInv, CycleTypeOK, Go
<1>2. CyclesAreClients'
  <2>. SUFFICES ASSUME NEW v \in Worker
       PROVE /\ cycle'[v].now \in 0..clock'
             /\ cycle'[v].seen.iterations <= MaxIterations
             /\ pc'[v] \in {"claim", "gate", "tool", "spend"}
                  => cycle'[v].seen.iterations < MaxIterations
             /\ pc'[v] \in {"gate", "tool", "spend", "settle"} => cycle'[v].task \in Task
             /\ v \in sweeping' => pc'[v] = "propagate"
    BY DEF CyclesAreClients
  <2>1. CASE v = w
    BY <2>1 DEF WorkerInv, CycleTypeOK, Go
  <2>2. CASE v # w
    <3>1. pc'[v] = pc[v] /\ cycle'[v] = cycle[v] /\ (v \in sweeping' => v \in sweeping)
      BY <2>2 DEF WorkerInv, CycleTypeOK, Go
    <3>. QED
      BY <3>1 DEF WorkerInv, CyclesAreClients
  <2>. QED
    BY <2>1, <2>2
<1>. QED
  BY <1>1, <1>2 DEF WorkerInv

LEMMA ReturnKeepsInv ==
  ASSUME WorkerInv, StoreTypeOK', LedgerWithinCeiling', clock' = clock,
         NEW w \in Worker, NEW how \in Resting, Return(w, how),
         sweeping' \ {w} \subseteq sweeping, w \notin sweeping'
  PROVE  WorkerInv'
<1>1. how \notin Step
  BY DEF Resting, Step
<1>2. NoCycle.now \in 0..clock /\ NoCycle.seen.iterations <= MaxIterations
  BY NoCycleIsACycle, StoreConstants DEF WorkerInv, StoreTypeOK, Instant
<1>. QED
  BY <1>1, <1>2, NoCycleIsACycle, GoKeepsInv DEF Return, Resting, Step

LEMMA BeginKeepsInv ==
  ASSUME WorkerInv, StoreTypeOK', LedgerWithinCeiling', NEW w \in Worker, Begin(w)
  PROVE  WorkerInv'
<1>. DEFINE start(g) == [NoCycle EXCEPT !.now = clock, !.seen = g]
<1>1. w \notin sweeping /\ clock \in Nat /\ goal \in GoalRow /\ UNCHANGED storeVars
  BY StoreConstants
     DEF Begin, GoalNotClaimable, Observe, CeilingReached, CycleStarts, Resting, WorkerInv,
         CyclesAreClients, StoreTypeOK, Instant
<1>2. clock' = clock /\ sweeping' = sweeping /\ clock \in 0..clock
  BY <1>1 DEF storeVars
<1>3. ASSUME NEW g \in GoalRow
      PROVE  start(g) \in Cycle /\ start(g).now = clock /\ start(g).seen = g
  BY <1>1, NoCycleIsACycle DEF Cycle
<1>4. CASE GoalNotClaimable(w)
  BY <1>1, <1>2, <1>4, ReturnKeepsInv DEF GoalNotClaimable, Resting
<1>5. CASE Observe(w)
  <2>1. goal.iterations < MaxIterations /\ Go(w, "claim", start(goal))
    BY <1>5 DEF Observe
  <2>2. goal.iterations <= MaxIterations
    BY DEF WorkerInv, LedgerWithinCeiling
  <2>. QED
    BY <1>1, <1>2, <1>3, <2>1, <2>2, GoKeepsInv DEF Step
<1>6. CASE CeilingReached(w)
  <2>. DEFINE over == Ended(goal, "failed", "ceiling_exceeded")
  <2>1. Go(w, "conclude", start(over))
    BY <1>6 DEF CeilingReached
  <2>2. over \in GoalRow /\ over.iterations <= MaxIterations
    BY <1>1 DEF Ended, GoalRow, GoalState, GoalTerminal, Cause, WorkerInv, LedgerWithinCeiling
  <2>. QED
    BY <1>1, <1>2, <1>3, <2>1, <2>2, GoKeepsInv DEF Step
<1>. QED
  BY <1>4, <1>5, <1>6 DEF Begin

\* The steps that only read: the store is as it was, and the cycle goes on or returns.
LEMMA QuietStepKeepsInv ==
  ASSUME WorkerInv, NEW w \in Worker, pc[w] # "propagate", UNCHANGED storeVars,
         \/ Go(w, "idle", Ledger(w))
         \/ pc[w] = "gate" /\ Go(w, "tool", cycle[w])
         \/ pc[w] = "tool" /\ \E answer \in Answer :
                                Go(w, "spend", [cycle[w] EXCEPT !.answer = answer])
         \/ \E tasks \in SUBSET Task : Go(w, "grow", [NoCycle EXCEPT !.adding = tasks])
         \/ \E end \in GoalState, why \in Cause : Concluding(w, end, why)
         \/ \E how \in Resting : Return(w, how)
  PROVE  WorkerInv'
<1>1. /\ clock' = clock /\ sweeping' = sweeping /\ w \notin sweeping
      /\ StoreTypeOK' /\ LedgerWithinCeiling'
  BY DEF WorkerInv, StoreTypeOK, CyclesAreClients, LedgerWithinCeiling, storeVars, taskVars,
         leaseVars
<1>2. /\ cycle[w] \in Cycle
      /\ cycle[w].now \in 0..clock
      /\ cycle[w].seen.iterations <= MaxIterations
      /\ pc[w] \in {"claim", "gate", "tool", "spend"} => cycle[w].seen.iterations < MaxIterations
      /\ pc[w] \in {"gate", "tool", "spend", "settle"} => cycle[w].task \in Task
  BY DEF WorkerInv, CycleTypeOK, CyclesAreClients
<1>3. CASE Go(w, "idle", Ledger(w))
  BY <1>1, <1>3, LedgerIsACycle, GoKeepsInv DEF Step
<1>4. CASE pc[w] = "gate" /\ Go(w, "tool", cycle[w])
  BY <1>1, <1>2, <1>4, GoKeepsInv DEF Step
<1>5. ASSUME NEW answer \in Answer, pc[w] = "tool",
             Go(w, "spend", [cycle[w] EXCEPT !.answer = answer])
      PROVE  WorkerInv'
  <2>. DEFINE c == [cycle[w] EXCEPT !.answer = answer]
  <2>1. c \in Cycle /\ c.now = cycle[w].now /\ c.seen = cycle[w].seen /\ c.task = cycle[w].task
    BY <1>2 DEF Cycle
  <2>. QED
    BY <1>1, <1>2, <1>5, <2>1, GoKeepsInv DEF Step
<1>6. ASSUME NEW tasks \in SUBSET Task, Go(w, "grow", [NoCycle EXCEPT !.adding = tasks])
      PROVE  WorkerInv'
  <2>. DEFINE c == [NoCycle EXCEPT !.adding = tasks]
  <2>1. c \in Cycle /\ c.now = NoCycle.now /\ c.seen = NoCycle.seen
    BY NoCycleIsACycle DEF Cycle
  <2>. QED
    BY <1>1, <1>6, <2>1, LedgerIsACycle, GoKeepsInv DEF Step
<1>7. ASSUME NEW end \in GoalState, NEW why \in Cause, Concluding(w, end, why)
      PROVE  WorkerInv'
  <2>. DEFINE c == [cycle[w] EXCEPT !.seen = Ended(@, end, why)]
  <2>1. c \in Cycle /\ c.now = cycle[w].now
        /\ c.seen.iterations = cycle[w].seen.iterations
    BY <1>2 DEF Cycle, Ended, GoalRow
  <2>2. Go(w, "conclude", c)
    BY <1>7 DEF Concluding
  <2>. QED
    BY <1>1, <1>2, <2>1, <2>2, GoKeepsInv DEF Step
<1>8. ASSUME NEW how \in Resting, Return(w, how) PROVE WorkerInv'
  BY <1>1, <1>8, ReturnKeepsInv
<1>. QED
  BY <1>3, <1>4, <1>5, <1>6, <1>7, <1>8

LEMMA TakeTaskKeepsInv ==
  ASSUME WorkerInv, StoreTypeOK', LedgerWithinCeiling', NEW w \in Worker, TakeTask(w)
  PROVE  WorkerInv'
<1>1. PICK t \in Task :
        /\ ClientClaim(t, LeaseName[w], Now(w))
        /\ Go(w, "gate", [cycle[w] EXCEPT !.task = t, !.try = attempt'[t],
                                          !.permitted = approved[t]])
  BY DEF TakeTask
<1>. DEFINE c == [cycle[w] EXCEPT !.task = t, !.try = attempt'[t], !.permitted = approved[t]]
<1>2. attempt'[t] \in Nat /\ approved[t] \in BOOLEAN
  BY DEF StoreTypeOK, WorkerInv
<1>3. c \in Cycle /\ c.now = cycle[w].now /\ c.seen = cycle[w].seen /\ c.task = t
  BY <1>2 DEF Cycle, WorkerInv, CycleTypeOK
<1>4. clock' = clock /\ sweeping' = sweeping
  BY <1>1 DEF ClientClaim, Claim
<1>5. /\ w \notin sweeping /\ cycle[w].now \in 0..clock
      /\ cycle[w].seen.iterations <= MaxIterations /\ cycle[w].seen.iterations < MaxIterations
  BY DEF TakeTask, WorkerInv, CyclesAreClients
<1>. QED
  BY <1>1, <1>3, <1>4, <1>5, GoKeepsInv DEF Step

LEMMA RecordSpendKeepsInv ==
  ASSUME WorkerInv, StoreTypeOK', LedgerWithinCeiling', NEW w \in Worker, RecordSpend(w)
  PROVE  WorkerInv'
<1>. DEFINE spent == [Seen(w) EXCEPT !.iterations = @ + 1]
            c == [cycle[w] EXCEPT !.seen = spent]
<1>1. /\ pc[w] = "spend" /\ w \notin sweeping /\ cycle[w] \in Cycle /\ cycle[w].task \in Task
      /\ cycle[w].now \in 0..clock /\ cycle[w].seen.iterations < MaxIterations
  BY DEF RecordSpend, WorkerInv, CycleTypeOK, CyclesAreClients
<1>2. spent \in GoalRow /\ spent.iterations <= MaxIterations
  BY <1>1, StoreConstants DEF Cycle, Seen, GoalRow
<1>3. c \in Cycle /\ c.now = cycle[w].now /\ c.seen = spent /\ c.task = cycle[w].task
  BY <1>1, <1>2 DEF Cycle
<1>4. clock' = clock /\ sweeping' = sweeping
  BY DEF RecordSpend, SaveGoal, storeVars
<1>5. Go(w, "settle", c) \/ Return(w, "stop")
  BY DEF RecordSpend
<1>6. CASE Go(w, "settle", c)
  BY <1>1, <1>2, <1>3, <1>4, <1>6, GoKeepsInv DEF Step
<1>7. CASE Return(w, "stop")
  BY <1>1, <1>4, <1>7, ReturnKeepsInv DEF Resting
<1>. QED
  BY <1>5, <1>6, <1>7

LEMMA ParkKeepsInv ==
  ASSUME WorkerInv, StoreTypeOK', LedgerWithinCeiling', NEW w \in Worker, Park(w)
  PROVE  WorkerInv'
<1>1. pc[w] = "gate" /\ w \notin sweeping
  BY DEF Park, WorkerInv, CyclesAreClients
<1>2. clock' = clock /\ sweeping' = sweeping
  BY DEF Park, Complete, storeVars
<1>3. Return(w, "more") \/ Return(w, "error")
  BY DEF Park
<1>. QED
  BY <1>1, <1>2, <1>3, ReturnKeepsInv DEF Resting

LEMMA SettleKeepsInv ==
  ASSUME WorkerInv, StoreTypeOK', LedgerWithinCeiling', NEW w \in Worker, Settle(w)
  PROVE  WorkerInv'
<1>1. /\ pc[w] = "settle" /\ w \notin sweeping /\ cycle[w] \in Cycle
      /\ cycle[w].now \in 0..clock /\ cycle[w].seen.iterations <= MaxIterations
  BY DEF Settle, WorkerInv, CycleTypeOK, CyclesAreClients
<1>2. CASE Succeed(w)
  <2>1. clock' = clock /\ sweeping' = sweeping
    BY <1>2 DEF Succeed, Complete
  <2>. QED
    BY <1>1, <1>2, <2>1, LedgerIsACycle, GoKeepsInv DEF Succeed, Step
<1>3. CASE Fail(w)
  <2>1. clock' = clock /\ sweeping' = sweeping \cup {w}
    BY <1>3 DEF Fail, Complete
  <2>. QED
    BY <1>1, <1>3, <2>1, LedgerIsACycle, NoCycleIsACycle, GoKeepsInv DEF Fail, Step
<1>4. CASE Retry(w) \/ HandBack(w) \/ LoseLease(w)
  <2>1. clock' = clock /\ sweeping' = sweeping
    BY <1>4 DEF Retry, HandBack, LoseLease, Release, storeVars
  <2>2. Return(w, "more") \/ Return(w, "error")
    BY <1>4 DEF Retry, HandBack, LoseLease
  <2>. QED
    BY <1>1, <2>1, <2>2, ReturnKeepsInv DEF Resting
<1>. QED
  BY <1>2, <1>3, <1>4 DEF Settle

LEMMA PropagateKeepsInv ==
  ASSUME WorkerInv, StoreTypeOK', LedgerWithinCeiling', NEW w \in Worker, Propagate(w)
  PROVE  WorkerInv'
<1>1. /\ NoCycle \in Cycle
      /\ NoCycle.now \in 0..clock /\ NoCycle.seen.iterations <= MaxIterations
  BY LedgerIsACycle, NoCycleIsACycle
<1>2. clock' = clock /\ sweeping' \ {w} \subseteq sweeping
  BY DEF Propagate, Sweep
<1>3. CASE w \in sweeping'
  BY <1>1, <1>2, <1>3, GoKeepsInv DEF Propagate, Step
<1>4. CASE w \notin sweeping'
  BY <1>2, <1>4, ReturnKeepsInv DEF Propagate, Resting
<1>. QED
  BY <1>3, <1>4

\* The steps that write and then return: the checkpoint, the plan, the conclusion, the end.
LEMMA LastStepKeepsInv ==
  ASSUME WorkerInv, StoreTypeOK', LedgerWithinCeiling', NEW w \in Worker,
         WriteCheckpoint(w) \/ Grow(w) \/ Conclude(w) \/ Abort(w)
  PROVE  WorkerInv'
<1>1. CASE Abort(w)
  <2>1. clock' = clock /\ sweeping' = sweeping \ {w}
    BY <1>1 DEF Abort, Vanish
  <2>. QED
    BY <1>1, <2>1, ReturnKeepsInv DEF Abort, Resting
<1>2. CASE WriteCheckpoint(w) \/ Grow(w) \/ Conclude(w)
  <2>1. w \notin sweeping
    BY <1>2 DEF WriteCheckpoint, Grow, Conclude, WorkerInv, CyclesAreClients
  <2>2. clock' = clock /\ sweeping' = sweeping
    BY <1>2 DEF WriteCheckpoint, Grow, Conclude, SaveDAG, SaveGoal, storeVars
  <2>3. Return(w, "more") \/ Return(w, "stop")
    BY <1>2 DEF WriteCheckpoint, Grow, Conclude
  <2>. QED
    BY <2>1, <2>2, <2>3, ReturnKeepsInv DEF Resting
<1>. QED
  BY <1>1, <1>2

LEMMA CycleStepKeepsInv ==
  ASSUME WorkerInv, StoreTypeOK', LedgerWithinCeiling', NEW w \in Worker,
         Begin(w) \/ Continue(w) \/ Abort(w)
  PROVE  WorkerInv'
<1>1. CASE NothingToClaim(w) \/ Invoke(w) \/ ToolReturns(w)
  BY <1>1, QuietStepKeepsInv DEF NothingToClaim, Invoke, ToolReturns
<1>2. CASE Replan(w)
  <2>1. Present(state) \cup Proposed(state) \in SUBSET Task
    BY Planning DEF Present, Proposed, SucceededTasks
  <2>. QED
    BY <1>2, <2>1, QuietStepKeepsInv DEF Replan
<1>3. CASE PlanOutgrown(w) \/ DeclareSuccess(w) \/ DeclareExhausted(w) \/ DeclareStalled(w)
  <2>1. /\ {"failed", "succeeded"} \subseteq GoalState
        /\ {"none", "ceiling_exceeded", "plan_exhausted", "plan_stalled"} \subseteq Cause
    BY DEF GoalState, GoalTerminal, Cause
  <2>2. \E end \in GoalState, why \in Cause : Concluding(w, end, why)
    BY <1>3, <2>1 DEF PlanOutgrown, DeclareSuccess, DeclareExhausted, DeclareStalled
  <2>3. pc[w] # "propagate" /\ UNCHANGED storeVars
    BY <1>3 DEF PlanOutgrown, DeclareSuccess, DeclareExhausted, DeclareStalled, Quiet
  <2>. QED
    BY <2>2, <2>3, QuietStepKeepsInv
<1>4. CASE BlockedOnApproval(w) \/ ComeBackLater(w)
  <2>1. \E how \in Resting : Return(w, how)
    BY <1>4 DEF BlockedOnApproval, ComeBackLater, Resting
  <2>2. pc[w] # "propagate" /\ UNCHANGED storeVars
    BY <1>4 DEF BlockedOnApproval, ComeBackLater, Quiet
  <2>. QED
    BY <2>1, <2>2, QuietStepKeepsInv
<1>. QED
  BY <1>1, <1>2, <1>3, <1>4, BeginKeepsInv, TakeTaskKeepsInv, ParkKeepsInv,
     RecordSpendKeepsInv, SettleKeepsInv, PropagateKeepsInv, LastStepKeepsInv
  DEF Continue

\* What people, the clock and a stuttering step do to the cycles: nothing.
LEMMA OutsideStepKeepsInv ==
  ASSUME WorkerInv, StoreTypeOK', LedgerWithinCeiling',
         People \/ TimePasses \/ UNCHANGED workerVars
  PROVE  WorkerInv'
<1>1. pc' = pc /\ cycle' = cycle
  BY DEF People, StorePlan, CancelRun, Answered, FinishDecline, TimePasses, runVars, workerVars
<1>2. /\ clock' \in {clock, clock + 1}
      /\ sweeping' \subseteq sweeping \cup Console
  BY DEF People, StorePlan, SaveDAG, CancelRun, Cancel, Answered, Decide, FinishDecline, Sweep,
         TimePasses, Tick, workerVars, storeVars
<1>3. \A w \in Worker : w \in sweeping' => w \in sweeping
  BY <1>2, Callers
<1>4. 0..clock \subseteq 0..clock'
  BY <1>2, StoreConstants DEF WorkerInv, StoreTypeOK, Instant
<1>. QED
  BY <1>1, <1>3, <1>4 DEF WorkerInv, CycleTypeOK, CyclesAreClients

LEMMA WorkerInitInv == WorkerInit => WorkerInv
<1>. SUFFICES ASSUME WorkerInit PROVE WorkerInv
  OBVIOUS
<1>1. StoreTypeOK
  BY StoreInitTypeOK DEF WorkerInit
<1>2. CycleTypeOK
  BY NoCycleIsACycle DEF WorkerInit, CycleTypeOK, Resting
<1>3. CyclesAreClients
  BY NoCycleIsACycle, StoreConstants DEF WorkerInit, StoreInit, CyclesAreClients
<1>4. LedgerWithinCeiling
  BY StoreConstants DEF WorkerInit, StoreInit, LedgerWithinCeiling
<1>. QED
  BY <1>1, <1>2, <1>3, <1>4 DEF WorkerInv

LEMMA WorkerInvStep ==
  ASSUME WorkerInv, [WorkerNext]_workerVars
  PROVE  WorkerInv'
<1>1. StoreStep
  BY WorkerStepIsAStoreStep
<1>2. StoreTypeOK' /\ LedgerWithinCeiling'
  BY <1>1, StoreStepTypeOK, LedgerStep DEF WorkerInv, StoreStep
<1>. QED
  BY <1>2, CycleStepKeepsInv, OutsideStepKeepsInv DEF WorkerNext

\* Every copy of the goal row, clock reading and propagation loop of a cycle stays one the
\* store allows a client, and the goal is never charged past its ceiling (RunOnce,
\* CheckCeilings, Spend).
THEOREM WorkerInvHolds == WorkerSpec => []WorkerInv
<1>1. WorkerInit => WorkerInv
  BY WorkerInitInv
<1>2. WorkerInv /\ [WorkerNext]_workerVars => WorkerInv'
  BY WorkerInvStep
<1>. QED
  BY <1>1, <1>2, PTL DEF WorkerSpec

\* The refinement: any number of interleaved RunOnce cycles, with people answering and
\* cancelling, does nothing to the store that the store does not allow any client.
THEOREM WorkerImplementsStore == WorkerSpec => StoreSpec
<1>1. WorkerInit => StoreInit
  BY DEF WorkerInit
<1>2. WorkerInv /\ [WorkerNext]_workerVars => [StoreNext]_storeVars
  BY WorkerStepIsAStoreStep DEF StoreStep
<1>. QED
  BY <1>1, <1>2, WorkerInvHolds, PTL DEF WorkerSpec, StoreSpec

LEMMA WorkerTypesStep ==
  ASSUME WorkerInv, WorkerTypeOK, [WorkerNext]_workerVars
  PROVE  WorkerTypeOK'
<1>. DEFINE Counters == calls \in [Task -> Nat] /\ checkpoint \in Nat /\ aborts \in 0..MaxAborts
<1>0. Counters
  BY DEF WorkerTypeOK
<1>1. ASSUME NEW w \in Worker, Invoke(w) PROVE Counters'
  <2>1. Job(w) \in Task
    BY <1>1 DEF Invoke, WorkerInv, CyclesAreClients, Job
  <2>2. /\ calls' = [calls EXCEPT ![Job(w)] = @ + 1]
        /\ checkpoint' = checkpoint /\ aborts' = aborts
    BY <1>1 DEF Invoke
  <2>. QED
    BY <1>0, <2>1, <2>2
<1>2. ASSUME NEW w \in Worker, WriteCheckpoint(w) PROVE Counters'
  <2>1. Seen(w).iterations \in Nat
    BY DEF WorkerInv, CycleTypeOK, Cycle, GoalRow, Seen
  <2>. QED
    BY <1>0, <1>2, <2>1 DEF WriteCheckpoint
<1>3. ASSUME NEW w \in Worker, Abort(w) PROVE Counters'
  BY <1>0, <1>3, Ceilings DEF Abort
<1>4. ASSUME NEW w \in Worker, Begin(w) \/ Continue(w), ~Invoke(w), ~WriteCheckpoint(w)
      PROVE  UNCHANGED ghosts
  BY <1>4
     DEF Begin, Continue, GoalNotClaimable, Observe, CeilingReached, TakeTask, NothingToClaim,
         Park, ToolReturns, RecordSpend, Settle, Propagate, PlanOutgrown, Replan,
         BlockedOnApproval, DeclareSuccess, DeclareExhausted, DeclareStalled, ComeBackLater,
         Grow, Conclude
<1>5. People \/ TimePasses \/ UNCHANGED workerVars => UNCHANGED ghosts
  BY DEF People, StorePlan, CancelRun, Answered, FinishDecline, TimePasses, runVars, workerVars,
         ghosts
<1>6. Counters'
  BY <1>0, <1>1, <1>2, <1>3, <1>4, <1>5 DEF WorkerNext, ghosts
<1>. QED
  BY <1>6, WorkerInvStep DEF WorkerTypeOK, WorkerInv, CycleTypeOK

\* The variables of the run have their types: what RunOnce keeps in its locals is what the
\* store returned.
THEOREM WorkerTypeCorrect == WorkerSpec => []WorkerTypeOK
<1>1. WorkerInit => WorkerTypeOK
  BY WorkerInitInv, Ceilings DEF WorkerInit, WorkerInv, CycleTypeOK, WorkerTypeOK
<1>2. WorkerInv /\ WorkerTypeOK /\ [WorkerNext]_workerVars => WorkerTypeOK'
  BY WorkerTypesStep
<1>. QED
  BY <1>1, <1>2, WorkerInvHolds, PTL DEF WorkerSpec

\* What the store promises any client, it promises the workers: a task begins only on what
\* it needs and keeps it, outcomes and the goal's last state are final, and a live lease
\* protects its task, in every run of the program.
COROLLARY RunKeepsThePromises ==
  WorkerSpec => []PrerequisitesHold /\ SettledForever /\ GoalEndsOnce /\ LiveLeaseProtects
BY WorkerImplementsStore, PrerequisitesHoldAlways, OutcomesAreFinal, GoalLabelIsFinal,
   LiveLeasesProtect

\* No run is charged past its iteration ceiling, however many cycles overlap.
COROLLARY ChargedWithinCeiling == WorkerSpec => []LedgerWithinCeiling
<1>1. WorkerInv => LedgerWithinCeiling
  BY DEF WorkerInv
<1>. QED
  BY <1>1, WorkerInvHolds, PTL

-----------------------------------------------------------------------------
(***************************************************************************)
(* What a cycle of RunOnce knows of its task stays true while it acts on   *)
(* it, when no two workers lease under one name: two live leases never     *)
(* overlap, a result is written only by the latest attempt, and no gated   *)
(* tool runs before a person has answered.                                 *)
(*                                                                         *)
(* The consent of a person is a column that is read once, at the claim.    *)
(* What makes the copy good enough is CopiesAreTrue: as long as the task   *)
(* is leased under the cycle's name nobody has answered, claimed or handed *)
(* back the task since; and a task waits for an answer only as long as it  *)
(* has none (ParkedIsUnanswered), so an answer is never taken back.        *)
(***************************************************************************)

\* Every worker of a goal leases under a name of its own.
OwnNames == \A v, w \in Worker : LeaseName[v] = LeaseName[w] => v = w

\* Nobody else is acting on a task under the name of this worker.
NoRival(v) == \A w \in Worker : w # v /\ Executing(w) => LeaseName[w] # LeaseName[v]

StillMine(w) == leasedBy[Job(w)] = LeaseName[w]

CopiesAreTrue ==
  \A w \in Worker : Executing(w) /\ StillMine(w) =>
    /\ expiry[Job(w)] = Now(w) + Lease
    /\ attempt[Job(w)] = cycle[w].try
    /\ pc[w] = "gate" /\ approved[Job(w)] => cycle[w].permitted

LiveMeansMine == \A w \in Worker : Executing(w) /\ LeaseLives(w) => StillMine(w)

PermissionIsTrue == \A w \in Worker : pc[w] = "gate" /\ cycle[w].permitted => approved[Job(w)]

ParkedIsUnanswered == \A t \in Task : state[t] = "awaiting_approval" => ~approved[t]

ConsentInv ==
  /\ WorkerInv /\ StoreInv
  /\ CopiesAreTrue /\ LiveMeansMine /\ PermissionIsTrue /\ ParkedIsUnanswered
  /\ NoEffectWithoutConsent

-----------------------------------------------------------------------------
(***************************************************************************)
(* What the steps of a cycle do to its own copies and to the leases.       *)
(***************************************************************************)
OthersStay(v) == \A w \in Worker : w # v => pc'[w] = pc[w] /\ cycle'[w] = cycle[w]

Unparks == \A t \in Task : state'[t] = "awaiting_approval" => state[t] = "awaiting_approval"

\* The cycle goes on with its task: Invoke, ToolReturns, RecordSpend.
Carries(v) ==
  /\ Executing(v) /\ pc'[v] \in {"tool", "spend", "settle"}
  /\ cycle'[v].task = cycle[v].task /\ cycle'[v].now = cycle[v].now /\ cycle'[v].try = cycle[v].try
  /\ leaseVars' = leaseVars /\ Unparks /\ clock' = clock

\* The cycle is not acting on a task afterwards, and touches no lease.
LeavesAlone(v) == ~Executing(v)' /\ leaseVars' = leaseVars /\ Unparks /\ clock' = clock

\* The cycle gives its task up: an outcome, a parking or a handing back.
LetsGo(v) ==
  /\ Executing(v) /\ ~Executing(v)' /\ clock' = clock
  /\ Held(Job(v), LeaseName[v], Now(v))
  /\ leasedBy' = [leasedBy EXCEPT ![Job(v)] = Nobody]
  /\ expiry' = [expiry EXCEPT ![Job(v)] = 0]
  /\ attempt' = attempt /\ approved' = approved
  /\ \E next \in {"succeeded", "failed", "awaiting_approval", "ready"} :
       /\ state' = [state EXCEPT ![Job(v)] = next]
       /\ next = "awaiting_approval" => pc[v] = "gate" /\ NeedsPerson(v)

LEMMA GoMovesOne ==
  ASSUME WorkerInv, NEW v \in Worker, NEW step, NEW c, Go(v, step, c)
  PROVE  OthersStay(v) /\ pc'[v] = step /\ cycle'[v] = c
BY DEF Go, OthersStay, WorkerInv, CycleTypeOK

LEMMA CycleStepCases ==
  ASSUME WorkerInv, NEW v \in Worker, Begin(v) \/ Continue(v) \/ Abort(v)
  PROVE  OthersStay(v) /\ (TakeTask(v) \/ Carries(v) \/ LeavesAlone(v) \/ LetsGo(v))
<1>. USE GoMovesOne DEF Return
<1>1. CASE TakeTask(v)
  BY <1>1 DEF TakeTask
<1>2. CASE Invoke(v)
  BY <1>2 DEF Invoke, Carries, Executing, Unparks, storeVars, taskVars
<1>9. CASE ToolReturns(v)
  <2>1. PICK answer \in Answer : Go(v, "spend", [cycle[v] EXCEPT !.answer = answer])
    BY <1>9 DEF ToolReturns
  <2>. DEFINE c == [cycle[v] EXCEPT !.answer = answer]
  <2>2. c.task = cycle[v].task /\ c.now = cycle[v].now /\ c.try = cycle[v].try
    BY DEF WorkerInv, CycleTypeOK, Cycle
  <2>3. leaseVars' = leaseVars /\ state' = state /\ clock' = clock /\ pc[v] = "tool"
    BY <1>9 DEF ToolReturns, storeVars, taskVars
  <2>4. Go(v, "spend", c)
    BY <2>1
  <2>. HIDE DEF c
  <2>5. OthersStay(v) /\ pc'[v] = "spend" /\ cycle'[v] = c
    BY <2>4
  <2>. QED
    BY <2>2, <2>3, <2>5 DEF Carries, Executing, Unparks
<1>3. CASE RecordSpend(v)
  <2>. DEFINE c == [cycle[v] EXCEPT !.seen = [Seen(v) EXCEPT !.iterations = @ + 1]]
  <2>1. cycle[v] \in Cycle
    BY DEF WorkerInv, CycleTypeOK
  <2>2. c.task = cycle[v].task /\ c.now = cycle[v].now /\ c.try = cycle[v].try
    BY <2>1 DEF Cycle
  <2>3. leaseVars' = leaseVars /\ state' = state /\ clock' = clock /\ pc[v] = "spend"
    BY <1>3 DEF RecordSpend, SaveGoal, storeVars, taskVars, leaseVars
  <2>4. CASE Go(v, "settle", c)
    BY <2>2, <2>3, <2>4 DEF Carries, Executing, Unparks
  <2>5. CASE Go(v, "stop", NoCycle)
    BY <2>3, <2>5 DEF LeavesAlone, Executing, Unparks
  <2>. QED
    BY <1>3, <2>4, <2>5 DEF RecordSpend
<1>4. CASE Park(v)
  <2>1. CASE Complete(v, Job(v), LeaseName[v], "awaiting_approval", Now(v)) /\ Go(v, "more", NoCycle)
    BY <1>4, <2>1 DEF Park, Complete, LetsGo, Executing
  <2>2. CASE UNCHANGED storeVars /\ Go(v, "error", NoCycle)
    BY <2>2 DEF LeavesAlone, Executing, Unparks, storeVars, taskVars
  <2>. QED
    BY <1>4, <2>1, <2>2 DEF Park
<1>5. CASE Settle(v)
  <2>0. pc[v] = "settle"
    BY <1>5 DEF Settle
  <2>1. CASE Succeed(v)
    BY <2>0, <2>1 DEF Succeed, Complete, LetsGo, Executing
  <2>2. CASE Fail(v)
    BY <2>0, <2>2 DEF Fail, Complete, LetsGo, Executing
  <2>3. CASE Retry(v)
    BY <2>0, <2>3 DEF Retry, Release, LetsGo, Executing
  <2>4. CASE HandBack(v)
    BY <2>0, <2>4 DEF HandBack, Release, LetsGo, Executing
  <2>5. CASE LoseLease(v)
    BY <2>5 DEF LoseLease, LeavesAlone, Executing, Unparks, storeVars, taskVars
  <2>. QED
    BY <1>5, <2>1, <2>2, <2>3, <2>4, <2>5 DEF Settle
<1>6. CASE Propagate(v) \/ Grow(v)
  <2>1. leaseVars' = leaseVars /\ clock' = clock /\ Unparks
    BY <1>6 DEF Propagate, Sweep, Grow, SaveDAG, Unparks
  <2>2. Go(v, "propagate", NoCycle) \/ Go(v, "more", NoCycle)
    BY <1>6 DEF Propagate, Grow
  <2>. QED
    BY <2>1, <2>2 DEF LeavesAlone, Executing
<1>7. CASE Conclude(v) \/ WriteCheckpoint(v) \/ Abort(v)
  <2>1. leaseVars' = leaseVars /\ clock' = clock /\ Unparks
    BY <1>7 DEF Conclude, SaveGoal, WriteCheckpoint, Abort, Vanish, storeVars, taskVars, Unparks
  <2>2. Go(v, "stop", NoCycle) \/ Go(v, "more", NoCycle) \/ Go(v, "error", NoCycle)
    BY <1>7 DEF Conclude, WriteCheckpoint, Abort
  <2>. QED
    BY <2>1, <2>2 DEF LeavesAlone, Executing
<1>8. CASE \/ Begin(v) \/ NothingToClaim(v) \/ PlanOutgrown(v) \/ Replan(v) \/ BlockedOnApproval(v)
           \/ DeclareSuccess(v) \/ DeclareExhausted(v) \/ DeclareStalled(v) \/ ComeBackLater(v)
  <2>1. leaseVars' = leaseVars /\ clock' = clock /\ Unparks
    BY <1>8 DEF Begin, GoalNotClaimable, Observe, CeilingReached, NothingToClaim, PlanOutgrown, Replan,
       BlockedOnApproval, DeclareSuccess, DeclareExhausted, DeclareStalled, ComeBackLater,
       storeVars, taskVars, Unparks
  <2>2. \E step \in {"claim", "conclude", "idle", "grow", "stop", "more"} : \E c : Go(v, step, c)
    BY <1>8 DEF Begin, GoalNotClaimable, Observe, CeilingReached, NothingToClaim, PlanOutgrown, Replan,
       BlockedOnApproval, DeclareSuccess, DeclareExhausted, DeclareStalled, ComeBackLater, Concluding
  <2>. QED
    BY <2>1, <2>2 DEF LeavesAlone, Executing
<1>. QED
  BY <1>1, <1>2, <1>3, <1>4, <1>5, <1>6, <1>7, <1>8, <1>9 DEF Continue
-----------------------------------------------------------------------------
(***************************************************************************)
(* What the steps leave of ConsentInv.                                     *)
(***************************************************************************)
Copies == CopiesAreTrue /\ LiveMeansMine /\ PermissionIsTrue /\ ParkedIsUnanswered

LEMMA ClaimKeepsCopies ==
  ASSUME ConsentInv, NEW v \in Worker, NoRival(v), OthersStay(v), TakeTask(v)
  PROVE  Copies'
<1>1. PICK t \in Task :
        /\ ClientClaim(t, LeaseName[v], Now(v))
        /\ Go(v, "gate", [cycle[v] EXCEPT !.task = t, !.try = attempt'[t],
                                          !.permitted = approved[t]])
  BY DEF TakeTask
<1>. DEFINE c == [cycle[v] EXCEPT !.task = t, !.try = attempt'[t], !.permitted = approved[t]]
<1>2. /\ cycle'[v] = c /\ pc'[v] = "gate"
      /\ c.task = t /\ c.now = cycle[v].now /\ c.try = attempt'[t] /\ c.permitted = approved[t]
  BY <1>1, GoMovesOne DEF ConsentInv, WorkerInv, CycleTypeOK, Cycle
<1>. HIDE DEF c
<1>3. /\ leasedBy' = [leasedBy EXCEPT ![t] = LeaseName[v]]
      /\ expiry' = [expiry EXCEPT ![t] = Now(v) + Lease]
      /\ attempt' = [attempt EXCEPT ![t] = @ + 1]
      /\ state' = [state EXCEPT ![t] = "running"]
      /\ approved' = approved /\ clock' = clock
  BY <1>1 DEF ClientClaim, Claim
<1>4. ASSUME NEW w \in Worker, w # v, Executing(w), Job(w) = t PROVE ~LeaseLives(w)
  <2>1. ASSUME LeaseLives(w) PROVE FALSE
    <3>1. StillMine(w) /\ expiry[t] = Now(w) + Lease
      BY <1>4, <2>1 DEF ConsentInv, LiveMeansMine, CopiesAreTrue
    <3>2. leasedBy[t] # Nobody
      BY <1>4, <3>1, Callers, StoreConstants DEF StillMine
    <3>3. state[t] \in {"running", "cancelled"}
      BY <3>2 DEF ConsentInv, StoreInv, LeaseOnRunning
    <3>4. expiry[t] <= Now(v)
      BY <1>1, <3>3 DEF ClientClaim, Claim, ClaimableSet
    <3>5. Now(v) <= clock /\ Now(v) \in Int /\ Now(w) \in Int /\ clock \in Int
      BY DEF ConsentInv, WorkerInv, CyclesAreClients, StoreTypeOK, Instant, Now
    <3>. QED
      BY <2>1, <3>1, <3>4, <3>5, StoreConstants DEF LeaseLives
  <2>. QED
    BY <2>1
<1>5. CopiesAreTrue'
  <2>. SUFFICES ASSUME NEW w \in Worker, Executing(w)', StillMine(w)'
                PROVE  (/\ expiry[Job(w)] = Now(w) + Lease
                        /\ attempt[Job(w)] = cycle[w].try
                        /\ pc[w] = "gate" /\ approved[Job(w)] => cycle[w].permitted)'
    BY DEF CopiesAreTrue
  <2>1. CASE w = v
    BY <1>2, <1>3, <2>1 DEF Job, Now, ConsentInv, StoreInv, StoreTypeOK
  <2>2. CASE w # v
    <3>1. pc'[w] = pc[w] /\ cycle'[w] = cycle[w] /\ Executing(w)
      BY <2>2 DEF OthersStay, Executing
    <3>2. Job(w) # t
      BY <1>3, <2>2, <3>1 DEF StillMine, NoRival, ConsentInv, StoreInv, StoreTypeOK, Job
    <3>3. Job(w) \in Task
      BY <3>1 DEF ConsentInv, WorkerInv, CyclesAreClients, Executing, Job
    <3>4. /\ leasedBy'[Job(w)] = leasedBy[Job(w)] /\ expiry'[Job(w)] = expiry[Job(w)]
          /\ attempt'[Job(w)] = attempt[Job(w)]
      BY <1>3, <3>2, <3>3 DEF ConsentInv, StoreInv, StoreTypeOK
    <3>5. StillMine(w)
      BY <3>1, <3>4 DEF StillMine, Job
    <3>. QED
      BY <1>3, <3>1, <3>4, <3>5 DEF ConsentInv, CopiesAreTrue, Job, Now
  <2>. QED
    BY <2>1, <2>2
<1>6. LiveMeansMine'
  <2>. SUFFICES ASSUME NEW w \in Worker, Executing(w)', LeaseLives(w)'
                PROVE  StillMine(w)'
    BY DEF LiveMeansMine
  <2>1. CASE w = v
    BY <1>2, <1>3, <2>1 DEF Job, StillMine, ConsentInv, StoreInv, StoreTypeOK
  <2>2. CASE w # v
    <3>1. cycle'[w] = cycle[w] /\ Executing(w) /\ LeaseLives(w)
      BY <1>3, <2>2 DEF OthersStay, Executing, LeaseLives, Now
    <3>2. Job(w) # t
      BY <1>4, <2>2, <3>1
    <3>3. Job(w) \in Task
      BY <3>1 DEF ConsentInv, WorkerInv, CyclesAreClients, Executing, Job
    <3>. QED
      BY <1>3, <3>1, <3>2, <3>3
         DEF ConsentInv, LiveMeansMine, StillMine, Job, StoreInv, StoreTypeOK
  <2>. QED
    BY <2>1, <2>2
<1>7. PermissionIsTrue'
  BY <1>2, <1>3 DEF PermissionIsTrue, ConsentInv, OthersStay, Job
<1>8. ParkedIsUnanswered'
  BY <1>3 DEF ParkedIsUnanswered, ConsentInv, StoreInv, StoreTypeOK
<1>. QED
  BY <1>5, <1>6, <1>7, <1>8 DEF Copies

LEMMA MovingKeepsCopies ==
  ASSUME ConsentInv, NEW v \in Worker, OthersStay(v), Carries(v) \/ LeavesAlone(v)
  PROVE  Copies'
<1>1. leaseVars' = leaseVars /\ Unparks /\ clock' = clock
  BY DEF Carries, LeavesAlone
<1>2. \A w \in Worker : Executing(w)' =>
        /\ Executing(w) /\ Job(w)' = Job(w) /\ Now(w)' = Now(w) /\ cycle'[w].try = cycle[w].try
        /\ pc'[w] = "gate" => pc[w] = "gate" /\ cycle'[w] = cycle[w]
  BY DEF Carries, LeavesAlone, OthersStay, Executing, Job, Now
<1>3. CopiesAreTrue'
  BY <1>1, <1>2 DEF CopiesAreTrue, ConsentInv, StillMine, leaseVars
<1>4. LiveMeansMine'
  BY <1>1, <1>2 DEF LiveMeansMine, ConsentInv, StillMine, LeaseLives, leaseVars
<1>5. PermissionIsTrue'
  BY <1>1, <1>2 DEF PermissionIsTrue, ConsentInv, Executing, leaseVars
<1>6. ParkedIsUnanswered'
  BY <1>1 DEF ParkedIsUnanswered, ConsentInv, Unparks, leaseVars
<1>. QED
  BY <1>3, <1>4, <1>5, <1>6 DEF Copies

LEMMA LettingGoKeepsCopies ==
  ASSUME ConsentInv, NEW v \in Worker, NoRival(v), OthersStay(v), LetsGo(v)
  PROVE  Copies'
<1>. DEFINE t == Job(v)
<1>0. t \in Task /\ StillMine(v)
  BY DEF LetsGo, ConsentInv, WorkerInv, CyclesAreClients, Executing, Job, Held, StillMine
<1>1. /\ leasedBy' = [leasedBy EXCEPT ![t] = Nobody]
      /\ expiry' = [expiry EXCEPT ![t] = 0]
      /\ attempt' = attempt /\ approved' = approved /\ clock' = clock
  BY DEF LetsGo
<1>2. ASSUME NEW w \in Worker, Executing(w)'
      PROVE  w # v /\ Executing(w) /\ cycle'[w] = cycle[w] /\ pc'[w] = pc[w] /\ Job(w) \in Task
  BY <1>2 DEF LetsGo, OthersStay, Executing, ConsentInv, WorkerInv, CyclesAreClients, Job
<1>3. CopiesAreTrue'
  <2>. SUFFICES ASSUME NEW w \in Worker, Executing(w)', StillMine(w)'
                PROVE  (/\ expiry[Job(w)] = Now(w) + Lease
                        /\ attempt[Job(w)] = cycle[w].try
                        /\ pc[w] = "gate" /\ approved[Job(w)] => cycle[w].permitted)'
    BY DEF CopiesAreTrue
  <2>1. Job(w) # t
    BY <1>0, <1>1, <1>2, Callers, StoreConstants
       DEF StillMine, Job, ConsentInv, StoreInv, StoreTypeOK
  <2>2. leasedBy'[Job(w)] = leasedBy[Job(w)] /\ expiry'[Job(w)] = expiry[Job(w)]
    BY <1>1, <1>2, <2>1 DEF ConsentInv, StoreInv, StoreTypeOK
  <2>3. StillMine(w)
    BY <1>2, <2>2 DEF StillMine, Job
  <2>. QED
    BY <1>1, <1>2, <2>2, <2>3 DEF ConsentInv, CopiesAreTrue, Job, Now
<1>4. LiveMeansMine'
  <2>. SUFFICES ASSUME NEW w \in Worker, Executing(w)', LeaseLives(w)'
                PROVE  StillMine(w)'
    BY DEF LiveMeansMine
  <2>1. StillMine(w)
    BY <1>1, <1>2 DEF ConsentInv, LiveMeansMine, LeaseLives, Now
  <2>2. Job(w) # t
    BY <1>0, <1>2, <2>1 DEF StillMine, NoRival
  <2>. QED
    BY <1>1, <1>2, <2>1, <2>2 DEF StillMine, Job, ConsentInv, StoreInv, StoreTypeOK
<1>5. PermissionIsTrue'
  BY <1>1, <1>2 DEF PermissionIsTrue, ConsentInv, Executing, Job
<1>6. ParkedIsUnanswered'
  <2>1. PICK next \in {"succeeded", "failed", "awaiting_approval", "ready"} :
          /\ state' = [state EXCEPT ![t] = next]
          /\ next = "awaiting_approval" => pc[v] = "gate" /\ NeedsPerson(v)
    BY DEF LetsGo
  <2>2. next = "awaiting_approval" => ~approved[t]
    BY <1>0, <2>1 DEF ConsentInv, CopiesAreTrue, NeedsPerson, Executing
  <2>. QED
    BY <1>1, <2>1, <2>2 DEF ParkedIsUnanswered, ConsentInv, StoreInv, StoreTypeOK
<1>. QED
  BY <1>3, <1>4, <1>5, <1>6 DEF Copies

LEMMA OutsideKeepsCopies ==
  ASSUME ConsentInv, People \/ TimePasses \/ UNCHANGED workerVars
  PROVE  Copies'
<1>1. pc' = pc /\ cycle' = cycle
  BY DEF People, StorePlan, CancelRun, Answered, FinishDecline, TimePasses, runVars, workerVars
<1>2. CASE \E k \in Console, t \in Task, approve \in BOOLEAN : Answered(k, t, approve)
  <2>1. PICK t \in Task, approve \in BOOLEAN :
          /\ state[t] = "awaiting_approval"
          /\ state' = [state EXCEPT ![t] = IF approve THEN "ready" ELSE "cancelled"]
          /\ approved' = [approved EXCEPT ![t] = approve]
          /\ UNCHANGED <<clock, attempt, leasedBy, expiry>>
    BY <1>2 DEF Answered, Decide
  <2>2. leasedBy[t] = Nobody /\ ~approved[t]
    BY <2>1 DEF ConsentInv, StoreInv, LeaseOnRunning, ParkedIsUnanswered
  <2>3. CopiesAreTrue'
    <3>. SUFFICES ASSUME NEW w \in Worker, Executing(w)', StillMine(w)'
                  PROVE  (/\ expiry[Job(w)] = Now(w) + Lease
                          /\ attempt[Job(w)] = cycle[w].try
                          /\ pc[w] = "gate" /\ approved[Job(w)] => cycle[w].permitted)'
      BY DEF CopiesAreTrue
    <3>1. Executing(w) /\ StillMine(w)
      BY <1>1, <2>1 DEF Executing, StillMine, Job
    <3>2. Job(w) # t /\ Job(w) \in Task
      BY <2>2, <3>1, Callers, StoreConstants
         DEF StillMine, Executing, ConsentInv, WorkerInv, CyclesAreClients, Job
    <3>. QED
      BY <1>1, <2>1, <3>1, <3>2 DEF ConsentInv, CopiesAreTrue, Job, Now, StoreInv, StoreTypeOK
  <2>4. LiveMeansMine'
    BY <1>1, <2>1 DEF ConsentInv, LiveMeansMine, Executing, LeaseLives, StillMine, Job, Now
  <2>5. PermissionIsTrue'
    <3>. SUFFICES ASSUME NEW w \in Worker, pc[w] = "gate", cycle[w].permitted
                  PROVE  approved'[Job(w)]
      BY <1>1 DEF PermissionIsTrue, Job
    <3>1. approved[Job(w)] /\ Job(w) \in Task
      BY DEF ConsentInv, PermissionIsTrue, WorkerInv, CyclesAreClients, Job
    <3>. QED
      BY <2>1, <2>2, <3>1 DEF ConsentInv, StoreInv, StoreTypeOK
  <2>6. ParkedIsUnanswered'
    BY <2>1 DEF ConsentInv, ParkedIsUnanswered, StoreInv, StoreTypeOK
  <2>. QED
    BY <2>3, <2>4, <2>5, <2>6 DEF Copies
<1>3. CASE ~\E k \in Console, t \in Task, approve \in BOOLEAN : Answered(k, t, approve)
  <2>1. leaseVars' = leaseVars /\ Unparks
    BY <1>3 DEF People, StorePlan, SaveDAG, CancelRun, Cancel, FinishDecline, Sweep, TimePasses,
       Tick, workerVars, storeVars, taskVars, Unparks
  <2>2. clock' \in {clock, clock + 1} /\ clock \in Int
    BY <1>3 DEF People, StorePlan, SaveDAG, CancelRun, Cancel, FinishDecline, Sweep, TimePasses,
       Tick, workerVars, storeVars, ConsentInv, StoreInv, StoreTypeOK, Instant
  <2>3. CopiesAreTrue'
    BY <1>1, <2>1 DEF ConsentInv, CopiesAreTrue, Executing, StillMine, Job, Now, leaseVars
  <2>4. LiveMeansMine'
    <3>. SUFFICES ASSUME NEW w \in Worker, Executing(w)', LeaseLives(w)'
                  PROVE  StillMine(w)'
      BY DEF LiveMeansMine
    <3>1. Now(w) \in Int /\ Now(w)' = Now(w) /\ Executing(w)
      BY <1>1 DEF ConsentInv, WorkerInv, CyclesAreClients, Now, Executing
    <3>2. LeaseLives(w)
      BY <2>2, <3>1, StoreConstants DEF LeaseLives
    <3>. QED
      BY <1>1, <2>1, <3>1, <3>2 DEF ConsentInv, LiveMeansMine, StillMine, Job, leaseVars
  <2>5. PermissionIsTrue'
    BY <1>1, <2>1 DEF ConsentInv, PermissionIsTrue, Job, leaseVars
  <2>6. ParkedIsUnanswered'
    BY <2>1 DEF ConsentInv, ParkedIsUnanswered, Unparks, leaseVars
  <2>. QED
    BY <2>3, <2>4, <2>5, <2>6 DEF Copies
<1>. QED
  BY <1>2, <1>3

LEMMA CycleKeepsCopies ==
  ASSUME ConsentInv, NEW v \in Worker, NoRival(v), Begin(v) \/ Continue(v) \/ Abort(v)
  PROVE  Copies'
BY CycleStepCases, ClaimKeepsCopies, MovingKeepsCopies, LettingGoKeepsCopies DEF ConsentInv

LEMMA CopiesStep ==
  ASSUME OwnNames, ConsentInv, [WorkerNext]_workerVars
  PROVE  Copies'
<1>1. \A v \in Worker : NoRival(v)
  BY DEF OwnNames, NoRival
<1>. QED
  BY <1>1, CycleKeepsCopies, OutsideKeepsCopies DEF WorkerNext

\* An answer is never taken back: only a task nobody has answered yet can be answered.
LEMMA AnswersStay ==
  ASSUME ConsentInv, StoreStep, NEW t \in Task, approved[t]
  PROVE  approved'[t]
<1>1. CASE AnyDecide
  BY <1>1 DEF AnyDecide, Decide, ConsentInv, ParkedIsUnanswered, StoreInv, StoreTypeOK
<1>2. AnyDecide \/ approved' = approved
  BY StoreStepCases
     DEF StoreStep, AnySave, ClientSave, SaveGoal, AnyCancel, Cancel, AnyGrow, ClientGrow, SaveDAG,
         AnyClaim, ClientClaim, Claim, AnyRenew, Renew, AnyComplete, Complete, AnyRelease, Release,
         AnySweep, Sweep, AnyDeath, ClientsDie, Vanish, Tick, storeVars, taskVars, leaseVars
<1>. QED
  BY <1>1, <1>2

LEMMA EffectStep ==
  ASSUME ConsentInv, WorkerTypeOK, [WorkerNext]_workerVars
  PROVE  NoEffectWithoutConsent'
<1>. SUFFICES ASSUME NEW t \in Gated, calls'[t] > 0
              PROVE  approved'[t]
  BY DEF NoEffectWithoutConsent
<1>0. t \in Task
  BY Planning
<1>1. StoreStep
  BY WorkerStepIsAStoreStep DEF ConsentInv
<1>2. ASSUME NEW w \in Worker, Invoke(w), calls'[t] # calls[t] PROVE approved[t]
  <2>1. Job(w) = t /\ Job(w) \in Task
    BY <1>2 DEF Invoke, WorkerTypeOK, ConsentInv, WorkerInv, CyclesAreClients, Job
  <2>. QED
    BY <1>2, <2>1 DEF Invoke, NeedsPerson, ConsentInv, PermissionIsTrue
<1>3. ASSUME NEW w \in Worker, Begin(w) \/ Continue(w) \/ Abort(w), ~Invoke(w)
      PROVE  calls' = calls
  BY <1>3
     DEF Begin, Continue, GoalNotClaimable, Observe, CeilingReached, TakeTask, NothingToClaim, Park,
         ToolReturns, RecordSpend, Settle, Propagate, WriteCheckpoint, PlanOutgrown, Replan,
         BlockedOnApproval, DeclareSuccess, DeclareExhausted, DeclareStalled, ComeBackLater, Grow,
         Conclude, Abort, ghosts
<1>4. People \/ TimePasses \/ UNCHANGED workerVars => calls' = calls
  BY DEF People, StorePlan, CancelRun, Answered, FinishDecline, TimePasses, runVars, workerVars
<1>5. CASE calls'[t] # calls[t]
  BY <1>0, <1>1, <1>2, <1>3, <1>4, <1>5, AnswersStay DEF WorkerNext
<1>6. CASE calls'[t] = calls[t]
  BY <1>0, <1>1, <1>6, AnswersStay DEF ConsentInv, NoEffectWithoutConsent
<1>. QED
  BY <1>5, <1>6

-----------------------------------------------------------------------------
(***************************************************************************)
(* The theorems.                                                           *)
(***************************************************************************)
LEMMA ConsentInit == WorkerInit => Copies /\ NoEffectWithoutConsent
BY Planning
   DEF WorkerInit, StoreInit, Copies, CopiesAreTrue, LiveMeansMine, PermissionIsTrue,
       ParkedIsUnanswered, NoEffectWithoutConsent, Executing, Absent

LEMMA ConsentInvHolds ==
  ASSUME OwnNames
  PROVE  WorkerSpec => []ConsentInv
<1>1. WorkerInit => Copies /\ NoEffectWithoutConsent
  BY ConsentInit
<1>2. WorkerInv /\ StoreInv /\ WorkerTypeOK /\ Copies /\ NoEffectWithoutConsent
      /\ [WorkerNext]_workerVars => Copies' /\ NoEffectWithoutConsent'
  BY CopiesStep, EffectStep DEF ConsentInv, Copies
<1>3. WorkerInv /\ StoreInv /\ Copies /\ NoEffectWithoutConsent => ConsentInv
  BY DEF ConsentInv, Copies
<1>. QED
  BY <1>1, <1>2, <1>3, WorkerInvHolds, WorkerTypeCorrect, WorkerImplementsStore, StoreInvHolds, PTL
     DEF WorkerSpec

\* The approval gate: the tool of a gated task never runs before a person has approved that
\* task, however cycles, answers, retries and reclaims interleave, when no two workers of the
\* run lease under one name (RunOnce, Claim, Decide).
THEOREM ConsentComesFirst ==
  ASSUME OwnNames
  PROVE  WorkerSpec => []NoEffectWithoutConsent
<1>1. ConsentInv => NoEffectWithoutConsent
  BY DEF ConsentInv
<1>. QED
  BY <1>1, ConsentInvHolds, PTL

\* Of two cycles that both believe they have a task, one has let its lease run out (Claim's
\* expiry test against the claimer's clock).
THEOREM LiveExecutorsAreAlone ==
  ASSUME OwnNames
  PROVE  WorkerSpec => []LiveExecutorIsAlone
<1>1. ConsentInv => LiveExecutorIsAlone
  BY DEF ConsentInv, LiveMeansMine, StillMine, OwnNames, LiveExecutorIsAlone
<1>. QED
  BY <1>1, ConsentInvHolds, PTL

\* A cycle that was overtaken cannot write what it found: only the cycle of the latest attempt
\* records an outcome or gives the task back (Complete, Release, ErrLeaseLost).
THEOREM ResultsComeFromTheHolder ==
  ASSUME OwnNames
  PROVE  WorkerSpec => ResultFromHolder
<1>. DEFINE Fenced == \A w \in Worker : Executing(w) =>
                        LET t == Job(w) IN
                          pc'[w] # pc[w] /\ leasedBy[t] # Nobody /\ leasedBy'[t] = Nobody
                            => attempt[t] = cycle[w].try
<1>1. ConsentInv /\ [WorkerNext]_workerVars => Fenced
  <2>. SUFFICES ASSUME ConsentInv, [WorkerNext]_workerVars, NEW w \in Worker, Executing(w),
                       pc'[w] # pc[w], leasedBy[Job(w)] # Nobody, leasedBy'[Job(w)] = Nobody
                PROVE  attempt[Job(w)] = cycle[w].try
    OBVIOUS
  <2>1. PICK v \in Worker : Begin(v) \/ Continue(v) \/ Abort(v)
    BY DEF WorkerNext, People, StorePlan, CancelRun, Answered, FinishDecline, TimePasses, runVars,
           workerVars
  <2>2. OthersStay(v) /\ (TakeTask(v) \/ Carries(v) \/ LeavesAlone(v) \/ LetsGo(v))
    BY <2>1, CycleStepCases DEF ConsentInv
  <2>3. w = v
    BY <2>2 DEF OthersStay
  <2>4. LetsGo(v)
    BY <2>2, <2>3 DEF TakeTask, Executing, Carries, LeavesAlone, leaseVars
  <2>. QED
    BY <2>3, <2>4 DEF LetsGo, Held, StillMine, ConsentInv, CopiesAreTrue
<1>2. ConsentInv /\ [WorkerNext]_workerVars => [Fenced]_workerVars
  BY <1>1
<1>. HIDE DEF Fenced
<1>. QED
  BY <1>2, ConsentInvHolds, PTL DEF WorkerSpec, ResultFromHolder, Fenced

-----------------------------------------------------------------------------
(***************************************************************************)
(* A run is reported successful only when its criterion is met, and stays  *)
(* met: idle judges a graph it read, and the verdict is written later, but *)
(* a task that succeeded holds no lease and so never moves again.          *)
(***************************************************************************)

Met == Cardinality({t \in Counted : state[t] = "succeeded"}) >= Threshold

\* Whoever says, or is about to say, that the run succeeded is right.
Verdicts ==
  /\ goal.state = "succeeded" => Met
  /\ \A w \in Worker : Seen(w).state = "succeeded" => Met

LEMMA MetStaysMet ==
  ASSUME IsFiniteSet(Task), StoreInv, StoreStep, Met
  PROVE  Met'
<1>. DEFINE now == {t \in Counted : state[t] = "succeeded"}
            later == {t \in Counted : state'[t] = "succeeded"}
<1>1. Counted \subseteq Task
  BY Planning
<1>2. now \subseteq later
  <2>. SUFFICES ASSUME NEW t \in Task, state[t] = "succeeded" PROVE state'[t] = "succeeded"
    BY <1>1
  <2>1. Settled(t)
    BY DEF StoreInv, LeaseOnRunning, Settled, Terminal
  <2>. QED
    BY <2>1, SettledStaysPut DEF StoreStep
<1>3. IsFiniteSet(later)
  BY <1>1, FS_Subset
<1>4. Cardinality(now) <= Cardinality(later) /\ Cardinality(now) \in Nat /\ Cardinality(later) \in Nat
  BY <1>2, <1>3, FS_Subset, FS_CardinalityType
<1>. QED
  BY <1>4, Ceilings DEF Met

\* What a step may make of the goal row and of the copies of it.
LEMMA VerdictsKept ==
  ASSUME Verdicts, Met => Met',
         goal'.state = "succeeded" =>
           goal.state = "succeeded" \/ \E w \in Worker : Seen(w).state = "succeeded",
         \A w \in Worker : Seen(w)'.state = "succeeded" =>
           Met \/ goal.state = "succeeded" \/ Seen(w).state = "succeeded"
  PROVE  Verdicts'
BY DEF Verdicts

LEMMA CycleKeepsVerdicts ==
  ASSUME WorkerInv, Verdicts, Met => Met', NEW v \in Worker, Begin(v) \/ Continue(v) \/ Abort(v)
  PROVE  Verdicts'
<1>1. \A step, c : Go(v, step, c) =>
        cycle' = [cycle EXCEPT ![v] = c] /\ cycle \in [Worker -> Cycle]
  BY DEF Go, WorkerInv, CycleTypeOK
<1>2. NoCycle \in Cycle /\ NoCycle.seen.state # "succeeded"
  BY NoCycleIsACycle DEF NoCycle
<1>3. \A w \in Worker : Seen(w) \in GoalRow
  BY DEF WorkerInv, CycleTypeOK, Cycle, Seen
<1>4. ASSUME NEW step, NEW c, Go(v, step, c),
             c.seen.state = "succeeded" => Met \/ goal.state = "succeeded" \/ Seen(v).state = "succeeded",
             goal'.state = "succeeded" => goal.state = "succeeded" \/ Seen(v).state = "succeeded"
      PROVE  Verdicts'
  BY <1>1, <1>4, VerdictsKept DEF Seen
<1>5. CASE Begin(v)
  <2>. DEFINE start(g) == [NoCycle EXCEPT !.now = clock, !.seen = g]
  <2>1. \A g : start(g).seen = g
    BY <1>2 DEF Cycle
  <2>2. goal' = goal /\ goal \in GoalRow
    BY <1>5 DEF Begin, GoalNotClaimable, Observe, CeilingReached, storeVars, WorkerInv, StoreTypeOK
  <2>3. Ended(goal, "failed", "ceiling_exceeded").state = "failed"
    BY <2>2 DEF Ended, GoalRow
  <2>4. \/ Go(v, "stop", NoCycle) \/ Go(v, "claim", start(goal))
        \/ Go(v, "conclude", start(Ended(goal, "failed", "ceiling_exceeded")))
    BY <1>5 DEF Begin, GoalNotClaimable, Observe, CeilingReached, Return
  <2>. HIDE DEF start
  <2>. QED
    BY <1>2, <1>4, <2>1, <2>2, <2>3, <2>4
<1>6. CASE TakeTask(v)
  <2>1. PICK t \in Task :
          /\ ClientClaim(t, LeaseName[v], Now(v))
          /\ Go(v, "gate", [cycle[v] EXCEPT !.task = t, !.try = attempt'[t],
                                            !.permitted = approved[t]])
    BY <1>6 DEF TakeTask
  <2>. DEFINE c == [cycle[v] EXCEPT !.task = t, !.try = attempt'[t], !.permitted = approved[t]]
  <2>2. c.seen = Seen(v) /\ goal' = goal
    BY <2>1 DEF WorkerInv, CycleTypeOK, Cycle, Seen, ClientClaim, Claim
  <2>3. Go(v, "gate", c)
    BY <2>1
  <2>. HIDE DEF c
  <2>. QED
    BY <1>4, <2>2, <2>3
<1>7. CASE ToolReturns(v)
  <2>1. PICK answer \in Answer : Go(v, "spend", [cycle[v] EXCEPT !.answer = answer])
    BY <1>7 DEF ToolReturns
  <2>. DEFINE c == [cycle[v] EXCEPT !.answer = answer]
  <2>2. c.seen = Seen(v) /\ goal' = goal
    BY <1>7 DEF WorkerInv, CycleTypeOK, Cycle, Seen, ToolReturns, storeVars
  <2>3. Go(v, "spend", c)
    BY <2>1
  <2>. HIDE DEF c
  <2>. QED
    BY <1>4, <2>2, <2>3
<1>8. CASE RecordSpend(v)
  <2>. DEFINE spent == [Seen(v) EXCEPT !.iterations = @ + 1]
              c == [cycle[v] EXCEPT !.seen = spent]
  <2>1. spent.state = Seen(v).state /\ c.seen = spent
    BY <1>3 DEF GoalRow, WorkerInv, CycleTypeOK, Cycle
  <2>2. \/ goal' = spent /\ Go(v, "settle", c)
        \/ goal' = goal /\ Go(v, "stop", NoCycle)
    BY <1>8 DEF RecordSpend, SaveGoal, Return, storeVars
  <2>. HIDE DEF spent, c
  <2>. QED
    BY <1>2, <1>4, <2>1, <2>2
<1>9. CASE Conclude(v)
  <2>1. goal' \in {goal, Seen(v)} /\ Go(v, "stop", NoCycle)
    BY <1>9 DEF Conclude, SaveGoal, Return, storeVars
  <2>. QED
    BY <1>2, <1>4, <2>1
<1>10. CASE DeclareSuccess(v)
  <2>1. Met
    <3>1. Counted \cap SucceededTasks(state) = {t \in Counted : state[t] = "succeeded"}
      BY Planning DEF SucceededTasks
    <3>. QED
      BY <1>10, <3>1 DEF DeclareSuccess, CriteriaMet, Met
  <2>2. goal' = goal /\ \E step, c : Go(v, step, c)
    BY <1>10 DEF DeclareSuccess, Concluding, storeVars
  <2>. QED
    BY <1>4, <2>1, <2>2
<1>11. CASE PlanOutgrown(v) \/ DeclareExhausted(v) \/ DeclareStalled(v)
  <2>1. PICK why : Concluding(v, "failed", why)
    BY <1>11 DEF PlanOutgrown, DeclareExhausted, DeclareStalled
  <2>. DEFINE c == [cycle[v] EXCEPT !.seen = Ended(@, "failed", why)]
  <2>2. Go(v, "conclude", c) /\ c.seen.state = "failed"
    BY <1>3, <2>1 DEF Concluding, WorkerInv, CycleTypeOK, Cycle, Seen, Ended, GoalRow
  <2>3. goal' = goal
    BY <1>11 DEF PlanOutgrown, DeclareExhausted, DeclareStalled, storeVars
  <2>. HIDE DEF c
  <2>. QED
    BY <1>4, <2>2, <2>3
<1>12. CASE Replan(v)
  <2>. DEFINE c == [NoCycle EXCEPT !.adding = Present(state) \cup Proposed(state)]
  <2>1. c.seen = NoCycle.seen /\ goal' = goal
    BY <1>2, <1>12 DEF Cycle, Replan, storeVars
  <2>2. Go(v, "grow", c)
    BY <1>12 DEF Replan
  <2>. HIDE DEF c
  <2>. QED
    BY <1>2, <1>4, <2>1, <2>2
<1>13. CASE \/ NothingToClaim(v) \/ Park(v) \/ Invoke(v) \/ Settle(v) \/ Propagate(v)
            \/ WriteCheckpoint(v) \/ BlockedOnApproval(v) \/ ComeBackLater(v) \/ Grow(v) \/ Abort(v)
  <2>1. goal' = goal
    BY <1>13 DEF NothingToClaim, Park, Invoke, Settle, Succeed, Fail, Retry, HandBack, LoseLease,
       Complete, Release, Propagate, Sweep, WriteCheckpoint, BlockedOnApproval, ComeBackLater, Grow,
       SaveDAG, Abort, Vanish, storeVars
  <2>2. \E step : Go(v, step, NoCycle) \/ Go(v, step, cycle[v]) \/ Go(v, step, Ledger(v))
    BY <1>13 DEF NothingToClaim, Park, Invoke, Settle, Succeed, Fail, Retry, HandBack, LoseLease,
       Propagate, WriteCheckpoint, BlockedOnApproval, ComeBackLater, Grow, Abort, Return
  <2>3. Ledger(v).seen = Seen(v)
    BY <1>2 DEF Ledger, Cycle
  <2>. QED
    BY <1>2, <1>4, <2>1, <2>2, <2>3 DEF Seen
<1>. QED
  BY <1>5, <1>6, <1>7, <1>8, <1>9, <1>10, <1>11, <1>12, <1>13 DEF Continue

LEMMA VerdictStep ==
  ASSUME IsFiniteSet(Task), WorkerInv, StoreInv, Verdicts, [WorkerNext]_workerVars
  PROVE  Verdicts'
<1>1. Met => Met'
  BY WorkerStepIsAStoreStep, MetStaysMet
<1>2. CASE People \/ TimePasses \/ UNCHANGED workerVars
  <2>1. cycle' = cycle
    BY <1>2 DEF People, StorePlan, CancelRun, Answered, FinishDecline, TimePasses, workerVars, runVars
  <2>2. goal' = goal \/ goal' = [goal EXCEPT !.state = "cancelled"]
    BY <1>2 DEF People, StorePlan, SaveDAG, CancelRun, Cancel, Answered, Decide, FinishDecline,
       Sweep, TimePasses, Tick, workerVars, storeVars
  <2>3. goal'.state = "succeeded" => goal.state = "succeeded"
    BY <2>2 DEF WorkerInv, StoreTypeOK, GoalRow
  <2>. QED
    BY <1>1, <2>1, <2>3, VerdictsKept DEF Seen
<1>. QED
  BY <1>1, <1>2, CycleKeepsVerdicts DEF WorkerNext

\* A run is reported successful only when enough of the tasks that count have succeeded, and
\* they still have, however many cycles judge, cancel and write at once (idle,
\* EvaluateCompletion, SaveGoal).
THEOREM SuccessIsEarned ==
  ASSUME IsFiniteSet(Task)
  PROVE  WorkerSpec => []SuccessMeansMet
<1>1. WorkerInit => Verdicts
  BY DEF WorkerInit, StoreInit, Verdicts, NoCycle, Seen
<1>2. WorkerInv /\ StoreInv /\ Verdicts /\ [WorkerNext]_workerVars => Verdicts'
  BY VerdictStep
<1>3. Verdicts => SuccessMeansMet
  BY DEF Verdicts, Met, SuccessMeansMet
<1>. QED
  BY <1>1, <1>2, <1>3, WorkerInvHolds, WorkerImplementsStore, StoreInvHolds, PTL DEF WorkerSpec

-----------------------------------------------------------------------------
(***************************************************************************)
(* How a plan grows.  A chain enters the plan in one step, beside the      *)
(* finding that starts it, and that finding has succeeded for good.  So no *)
(* task enters whose prerequisites are dead, and a plan that is judged     *)
(* when it has nothing to add never has anything to add again.             *)
(***************************************************************************)

\* A chain is in the plan with all its tasks or with none.
ChainsAreWhole ==
  \A t \in Task : (\A u \in Spawns[t] : state[u] = Absent) \/ (\A u \in Spawns[t] : state[u] # Absent)

\* What a cycle is about to add is there already, or its chain is due and is added as a whole.
GrowsByChains ==
  \A w \in Worker : pc[w] = "grow" => \A u \in cycle[w].adding :
    \/ state[u] # Absent
    \/ \E t \in Task : u \in Spawns[t] /\ state[t] = "succeeded" /\ Spawns[t] \subseteq cycle[w].adding

ChainsInv == ChainsAreWhole /\ GrowsByChains

LEMMA SucceededForGood ==
  ASSUME StoreInv, StoreStep, NEW t \in Task, state[t] = "succeeded"
  PROVE  state'[t] = "succeeded"
<1>1. Settled(t)
  BY DEF StoreInv, LeaseOnRunning, Settled, Terminal
<1>. QED
  BY <1>1, SettledStaysPut DEF StoreStep

\* No row ever leaves the plan.
LEMMA RowsStay ==
  ASSUME StoreInv, StoreStep, NEW t \in Task, state[t] # Absent
  PROVE  state'[t] # Absent
<1>. USE DEF StoreInv, StoreTypeOK, Absent
<1>1. CASE AnySave
  BY <1>1 DEF AnySave, ClientSave, SaveGoal, taskVars
<1>2. CASE AnyCancel
  BY <1>2 DEF AnyCancel, Cancel
<1>3. CASE AnyGrow
  BY <1>3 DEF AnyGrow, ClientGrow, SaveDAG
<1>4. CASE AnyClaim
  BY <1>4 DEF AnyClaim, ClientClaim, Claim
<1>5. CASE AnyRenew
  BY <1>5 DEF AnyRenew, Renew
<1>6. CASE AnyComplete
  BY <1>6 DEF AnyComplete, Complete, Outcome
<1>7. CASE AnyRelease
  BY <1>7 DEF AnyRelease, Release
<1>8. CASE AnyDecide
  BY <1>8 DEF AnyDecide, Decide
<1>9. CASE AnySweep
  BY <1>9 DEF AnySweep, Sweep
<1>10. CASE AnyDeath
  BY <1>10 DEF AnyDeath, ClientsDie, Vanish, taskVars
<1>11. CASE Tick
  BY <1>11 DEF Tick, taskVars
<1>12. CASE UNCHANGED storeVars
  BY <1>12 DEF storeVars, taskVars
<1>. QED
  BY <1>1, <1>2, <1>3, <1>4, <1>5, <1>6, <1>7, <1>8, <1>9, <1>10, <1>11, <1>12, StoreStepCases
     DEF StoreStep

\* Who holds a lease holds a row.
LEMMA HeldIsPresent ==
  ASSUME StoreInv, NEW w \in Worker, NEW t \in Task, NEW now, Held(t, LeaseName[w], now)
  PROVE  state[t] # Absent
<1>1. LeaseName[w] # Nobody
  BY Callers, StoreConstants
<1>. QED
  BY <1>1 DEF Held, StoreInv, LeaseOnRunning, Absent

LEMMA CycleAddsNothing ==
  ASSUME WorkerInv, StoreInv, NEW w \in Worker, Begin(w) \/ Continue(w) \/ Abort(w), ~Grow(w),
         NEW u \in Task, state[u] = Absent
  PROVE  state'[u] = Absent
<1>1. CASE TakeTask(w)
  BY <1>1 DEF TakeTask, ClientClaim, Claim, ClaimableSet, Absent, StoreInv, StoreTypeOK
<1>2. CASE Park(w)
  <2>1. Job(w) \in Task
    BY <1>2 DEF Park, WorkerInv, CyclesAreClients, Job
  <2>2. CASE UNCHANGED storeVars
    BY <2>2 DEF storeVars, taskVars
  <2>3. CASE Complete(w, Job(w), LeaseName[w], "awaiting_approval", Now(w))
    BY <2>1, <2>3, HeldIsPresent DEF Complete
  <2>. QED
    BY <1>2, <2>2, <2>3 DEF Park
<1>3. CASE Settle(w)
  <2>1. Job(w) \in Task
    BY <1>3 DEF Settle, WorkerInv, CyclesAreClients, Job
  <2>2. CASE LoseLease(w)
    BY <2>2 DEF LoseLease, storeVars, taskVars
  <2>3. CASE Succeed(w) \/ Fail(w) \/ Retry(w) \/ HandBack(w)
    <3>1. /\ Held(Job(w), LeaseName[w], Now(w))
          /\ \E next : state' = [state EXCEPT ![Job(w)] = next]
      BY <2>3 DEF Succeed, Fail, Retry, HandBack, Complete, Release
    <3>. QED
      BY <2>1, <3>1, HeldIsPresent
  <2>. QED
    BY <1>3, <2>2, <2>3 DEF Settle
<1>4. CASE Propagate(w)
  BY <1>4 DEF Propagate, Sweep, NeedsDead, Unfinished
<1>5. CASE Abort(w)
  BY <1>5 DEF Abort, Vanish, taskVars
<1>6. CASE RecordSpend(w) \/ Conclude(w)
  BY <1>6 DEF RecordSpend, Conclude, SaveGoal, storeVars, taskVars
<1>7. CASE UNCHANGED storeVars
  BY <1>7 DEF storeVars, taskVars
<1>. QED
  BY <1>1, <1>2, <1>3, <1>4, <1>5, <1>6, <1>7
     DEF Begin, Continue, GoalNotClaimable, Observe, CeilingReached, NothingToClaim, Invoke,
         ToolReturns, WriteCheckpoint, PlanOutgrown, Replan, BlockedOnApproval, DeclareSuccess,
         DeclareExhausted, DeclareStalled, ComeBackLater

\* A row enters with the first plan, or with what a cycle of Revise adds.
LEMMA RowsEnterByGrowing ==
  ASSUME WorkerInv, StoreInv, [WorkerNext]_workerVars, NEW u \in Task,
         state[u] = Absent, state'[u] # Absent
  PROVE  StorePlan \/ \E w \in Worker : Grow(w)
<1>1. CASE CancelRun
  BY <1>1 DEF CancelRun, Cancel, Cancellable, Unfinished
<1>2. CASE \E k \in Console, t \in Task, approve \in BOOLEAN : Answered(k, t, approve)
  BY <1>2 DEF Answered, Decide, Absent, StoreInv, StoreTypeOK
<1>3. CASE \E k \in Console : FinishDecline(k)
  BY <1>3 DEF FinishDecline, Sweep, NeedsDead, Unfinished
<1>4. CASE TimePasses \/ UNCHANGED workerVars
  BY <1>4 DEF TimePasses, Tick, workerVars, storeVars, taskVars
<1>. QED
  BY <1>1, <1>2, <1>3, <1>4, CycleAddsNothing DEF WorkerNext, People

\* What is in the plan after it has grown: what was, and all that was added.
LEMMA GrownRows ==
  ASSUME StoreTypeOK, NEW tasks \in SUBSET Task, SaveDAG(tasks)
  PROVE  /\ \A u \in tasks : state'[u] # Absent
         /\ \A u \in Task : state'[u] # Absent /\ state[u] = Absent => u \in tasks /\ state'[u] = "pending"
         /\ \A u \in Task : state[u] # Absent => state'[u] = state[u]
BY DEF SaveDAG, StoreTypeOK, Absent

\* A chain that is missing as a cycle grows the plan is missing as a whole, enters as a
\* whole, and belongs to a result that stands.
LEMMA ChainsEnterWhole ==
  ASSUME WorkerInv, ChainsInv, NEW w \in Worker, Grow(w),
         NEW u \in Task, state[u] = Absent, state'[u] # Absent
  PROVE  \E t \in Task :
           /\ u \in Spawns[t] /\ state[t] = "succeeded" /\ state'[t] = "succeeded"
           /\ \A v \in Spawns[t] : v \in Task /\ state[v] = Absent /\ state'[v] = "pending"
<1>1. cycle[w].adding \in SUBSET Task /\ SaveDAG(cycle[w].adding) /\ pc[w] = "grow" /\ StoreTypeOK
  BY DEF Grow, WorkerInv, CycleTypeOK, Cycle
<1>2. u \in cycle[w].adding
  BY <1>1, GrownRows
<1>3. PICK t \in Task :
        u \in Spawns[t] /\ state[t] = "succeeded" /\ Spawns[t] \subseteq cycle[w].adding
  BY <1>1, <1>2 DEF ChainsInv, GrowsByChains
<1>4. Spawns[t] \subseteq Task
  BY Planning
<1>5. \A v \in Spawns[t] : state[v] = Absent
  BY <1>3, <1>4 DEF ChainsInv, ChainsAreWhole
<1>6. state[t] # Absent
  BY <1>3 DEF Absent
<1>. QED
  BY <1>1, <1>3, <1>4, <1>5, <1>6, GrownRows

LEMMA StepKeepsChainsWhole ==
  ASSUME WorkerInv, StoreInv, ChainsInv, [WorkerNext]_workerVars
  PROVE  ChainsAreWhole'
<1>0. \A u \in Task : state[u] # Absent => state'[u] # Absent
  BY WorkerStepIsAStoreStep, RowsStay
<1>1. \A t \in Task : Spawns[t] \subseteq Task
  BY Planning
<1>2. CASE \A u \in Task : state[u] = Absent => state'[u] = Absent
  BY <1>0, <1>1, <1>2 DEF ChainsInv, ChainsAreWhole
<1>3. CASE StorePlan
  <2>1. \A u \in Task : state'[u] # Absent => u \in Initial
    BY <1>3, Planning, GrownRows DEF StorePlan, Present, WorkerInv
  <2>2. \A t \in Task : Spawns[t] \cap Initial = {}
    BY ChainsStandAlone
  <2>. QED
    BY <1>1, <2>1, <2>2 DEF ChainsAreWhole
<1>4. ASSUME NEW w \in Worker, Grow(w) PROVE ChainsAreWhole'
  <2>. SUFFICES ASSUME NEW t \in Task, NEW u \in Spawns[t], state'[u] # Absent,
                       NEW v \in Spawns[t], state'[v] = Absent
                PROVE  FALSE
    BY DEF ChainsAreWhole
  <2>1. u \in Task /\ v \in Task /\ state[v] = Absent
    BY <1>0, <1>1
  <2>2. state[u] = Absent
    BY <2>1 DEF ChainsInv, ChainsAreWhole
  <2>3. PICK s \in Task :
          /\ u \in Spawns[s] /\ state[s] = "succeeded" /\ state'[s] = "succeeded"
          /\ \A x \in Spawns[s] : x \in Task /\ state[x] = Absent /\ state'[x] = "pending"
    BY <1>4, <2>1, <2>2, ChainsEnterWhole
  <2>4. s = t
    BY <2>3, ChainsStandAlone
  <2>. QED
    BY <2>3, <2>4 DEF Absent
<1>. QED
  BY <1>2, <1>3, <1>4, RowsEnterByGrowing

\* Only Revise's answer is grown by.
LEMMA GrowFollowsReplan ==
  ASSUME WorkerInv, NEW v \in Worker, Begin(v) \/ Continue(v) \/ Abort(v), pc'[v] = "grow"
  PROVE  Replan(v)
<1>. USE GoMovesOne DEF Return
<1>1. \A step, c : Go(v, step, c) => step = "grow"
  BY DEF Go, WorkerInv, CycleTypeOK
<1>. HIDE DEF Return
<1>2. \A how : Return(v, how) => how = "grow"
  BY <1>1 DEF Return
<1>. QED
  BY <1>1, <1>2
     DEF Begin, Continue, GoalNotClaimable, Observe, CeilingReached, TakeTask, NothingToClaim, Park,
         Invoke, ToolReturns, RecordSpend, Settle, Succeed, Fail, Retry, HandBack, LoseLease,
         Propagate, WriteCheckpoint, PlanOutgrown, BlockedOnApproval, DeclareSuccess,
         DeclareExhausted, DeclareStalled, ComeBackLater, Concluding, Grow, Conclude, Abort

LEMMA StepKeepsGrowing ==
  ASSUME WorkerInv, StoreInv, ChainsInv, [WorkerNext]_workerVars
  PROVE  GrowsByChains'
<1>0. \A u \in Task : state[u] # Absent => state'[u] # Absent
  BY WorkerStepIsAStoreStep, RowsStay
<1>1. \A t \in Task : state[t] = "succeeded" => state'[t] = "succeeded"
  BY WorkerStepIsAStoreStep, SucceededForGood
<1>2. ASSUME NEW w \in Worker, pc'[w] = "grow", pc[w] = "grow", cycle'[w] = cycle[w],
             NEW u \in cycle[w].adding
      PROVE  \/ state'[u] # Absent
             \/ \E t \in Task : /\ u \in Spawns[t] /\ state'[t] = "succeeded"
                                /\ Spawns[t] \subseteq cycle[w].adding
  <2>1. u \in Task
    BY DEF WorkerInv, CycleTypeOK, Cycle
  <2>. QED
    BY <1>0, <1>1, <1>2, <2>1 DEF ChainsInv, GrowsByChains
<1>3. ASSUME NEW w \in Worker, Replan(w), NEW u \in cycle'[w].adding
      PROVE  \/ state'[u] # Absent
             \/ \E t \in Task : /\ u \in Spawns[t] /\ state'[t] = "succeeded"
                                /\ Spawns[t] \subseteq cycle'[w].adding
  <2>. DEFINE c == [NoCycle EXCEPT !.adding = Present(state) \cup Proposed(state)]
  <2>1. c.adding = Present(state) \cup Proposed(state)
    BY NoCycleIsACycle DEF Cycle
  <2>2. Go(w, "grow", c) /\ state' = state
    BY <1>3 DEF Replan, storeVars, taskVars
  <2>. HIDE DEF c
  <2>3. cycle'[w] = c
    BY <2>2, GoMovesOne
  <2>4. \A t \in Task : state[t] = "succeeded" => Spawns[t] \subseteq Present(state) \cup Proposed(state)
    BY DEF Proposed, SucceededTasks
  <2>5. u \in Present(state) \/ \E t \in Task : u \in Spawns[t] /\ state[t] = "succeeded"
    BY <1>3, <2>1, <2>3 DEF Proposed, SucceededTasks
  <2>. QED
    BY <2>1, <2>2, <2>3, <2>4, <2>5 DEF Present
<1>4. CASE People \/ TimePasses \/ UNCHANGED workerVars
  <2>1. pc' = pc /\ cycle' = cycle
    BY <1>4 DEF People, StorePlan, CancelRun, Answered, FinishDecline, TimePasses, workerVars, runVars
  <2>. QED
    BY <1>2, <2>1 DEF GrowsByChains
<1>5. ASSUME NEW v \in Worker, Begin(v) \/ Continue(v) \/ Abort(v) PROVE GrowsByChains'
  <2>1. OthersStay(v)
    BY <1>5, CycleStepCases
  <2>2. pc'[v] = "grow" => Replan(v)
    BY <1>5, GrowFollowsReplan
  <2>. QED
    BY <1>2, <1>3, <2>1, <2>2 DEF GrowsByChains, OthersStay
<1>. QED
  BY <1>4, <1>5 DEF WorkerNext

LEMMA ChainsInvHolds == WorkerSpec => [](WorkerInv /\ StoreInv /\ ChainsInv)
<1>1. WorkerInit => ChainsInv
  BY Planning DEF WorkerInit, StoreInit, ChainsInv, ChainsAreWhole, GrowsByChains
<1>2. WorkerInv /\ StoreInv /\ ChainsInv /\ [WorkerNext]_workerVars => ChainsInv'
  BY StepKeepsChainsWhole, StepKeepsGrowing DEF ChainsInv
<1>. QED
  BY <1>1, <1>2, WorkerInvHolds, WorkerImplementsStore, StoreInvHolds, PTL DEF WorkerSpec

-----------------------------------------------------------------------------
(***************************************************************************)
(* No task waits for a dead one once every propagation has ended.          *)
(***************************************************************************)

LEMMA AbortsNeverFall ==
  ASSUME WorkerTypeOK, [WorkerNext]_workerVars, aborts' = 0
  PROVE  aborts = 0 /\ \A w \in Worker : ~Abort(w)
<1>1. \A w \in Worker : ~Abort(w)
  BY DEF Abort, WorkerTypeOK
<1>2. ASSUME NEW w \in Worker, Begin(w) \/ Continue(w) PROVE aborts' = aborts
  BY <1>2
     DEF Begin, Continue, GoalNotClaimable, Observe, CeilingReached, TakeTask, NothingToClaim,
         Park, Invoke, ToolReturns, RecordSpend, Settle, Propagate, WriteCheckpoint, PlanOutgrown,
         Replan, BlockedOnApproval, DeclareSuccess, DeclareExhausted, DeclareStalled,
         ComeBackLater, Grow, Conclude, ghosts
<1>3. People \/ TimePasses \/ UNCHANGED workerVars => aborts' = aborts
  BY DEF People, StorePlan, CancelRun, Answered, FinishDecline, TimePasses, runVars, workerVars
<1>. QED
  BY <1>1, <1>2, <1>3 DEF WorkerNext

\* A propagation pass ends when it finds nothing, or with the cycle that owed it.
LEMMA SweepsEndDone ==
  ASSUME WorkerInv, [WorkerNext]_workerVars, WorkerTypeOK, aborts' = 0, sweeping' = {}, sweeping # {}
  PROVE  /\ aborts = 0 /\ state' = state
         /\ \A t \in Task : ~NeedsDead(state, t)
<1>0. aborts = 0 /\ \A w \in Worker : ~Abort(w)
  BY AbortsNeverFall
<1>1. ASSUME NEW c, Sweep(c) PROVE state' = state /\ \A t \in Task : ~NeedsDead(state, t)
  BY <1>1 DEF Sweep, WorkerInv, StoreTypeOK
<1>2. ASSUME NEW w \in Worker, Begin(w) \/ Continue(w), ~Propagate(w) PROVE sweeping \subseteq sweeping'
  BY <1>2
     DEF Begin, Continue, GoalNotClaimable, Observe, CeilingReached, TakeTask, ClientClaim, Claim,
         NothingToClaim, Park, Invoke, ToolReturns, RecordSpend, SaveGoal, Settle, Succeed, Fail,
         Retry, HandBack, LoseLease, Complete, Release, WriteCheckpoint, PlanOutgrown, Replan,
         BlockedOnApproval, DeclareSuccess, DeclareExhausted, DeclareStalled, ComeBackLater,
         Grow, SaveDAG, Conclude, storeVars
<1>3. StorePlan \/ CancelRun \/ TimePasses \/ UNCHANGED workerVars => sweeping \subseteq sweeping'
  BY DEF StorePlan, SaveDAG, CancelRun, Cancel, TimePasses, Tick, workerVars, storeVars
<1>4. ASSUME NEW k \in Console, NEW t \in Task, NEW approve \in BOOLEAN, Answered(k, t, approve)
      PROVE  sweeping \subseteq sweeping'
  BY <1>4 DEF Answered, Decide
<1>5. \E c : Sweep(c)
  BY <1>0, <1>2, <1>3, <1>4 DEF WorkerNext, People, Propagate, FinishDecline
<1>. QED
  BY <1>0, <1>1, <1>5

\* What kills a task either owes a propagation afterwards or leaves nothing that could start.
LEMMA NoneDiesUnowed ==
  ASSUME StoreInv, StoreStep, sweeping = {}, sweeping' = {},
         NEW t \in Task, Unfinished(state, t), ~Begun(t), Unfinished(state', t),
         NEW d \in Task, state'[d] \in Dead
  PROVE  state[d] \in Dead
<1>. USE DEF StoreInv, StoreTypeOK, Dead
<1>1. CASE AnySave
  BY <1>1 DEF AnySave, ClientSave, SaveGoal, taskVars
<1>2. CASE AnyCancel
  <2>1. PICK now \in 0..clock : Cancel(now)
    BY <1>2 DEF AnyCancel
  <2>2. Cancellable(t, now)
    BY DEF Cancellable, Begun
  <2>3. state'[t] = "cancelled"
    BY <2>1, <2>2 DEF Cancel
  <2>. QED
    BY <2>3 DEF Unfinished, Terminal
<1>3. CASE AnyGrow
  BY <1>3 DEF AnyGrow, ClientGrow, SaveDAG
<1>4. CASE AnyClaim
  BY <1>4 DEF AnyClaim, ClientClaim, Claim
<1>5. CASE AnyRenew
  BY <1>5 DEF AnyRenew, Renew
<1>6. CASE AnyComplete
  BY <1>6 DEF AnyComplete, Complete, Outcome
<1>7. CASE AnyRelease
  BY <1>7 DEF AnyRelease, Release
<1>8. CASE AnyDecide
  BY <1>8 DEF AnyDecide, Decide
<1>9. CASE AnySweep
  BY <1>9 DEF AnySweep, Sweep
<1>10. CASE AnyDeath
  BY <1>10 DEF AnyDeath, ClientsDie, Vanish, taskVars
<1>11. CASE Tick
  BY <1>11 DEF Tick, taskVars
<1>12. CASE UNCHANGED storeVars
  BY <1>12 DEF storeVars, taskVars
<1>. QED
  BY <1>1, <1>2, <1>3, <1>4, <1>5, <1>6, <1>7, <1>8, <1>9, <1>10, <1>11, <1>12, StoreStepCases
     DEF StoreStep

LEMMA PropagationStep ==
  ASSUME WorkerTypeOK, WorkerInv, StoreInv, ChainsInv, [WorkerNext]_workerVars,
         FailureReachesDependents
  PROVE  FailureReachesDependents'
<1>. SUFFICES ASSUME sweeping' = {}, aborts' = 0, NEW t \in Task, Unfinished(state', t),
                     NEW d \in DependsOn[t], state'[d] \in Dead
              PROVE  FALSE
  BY DEF FailureReachesDependents, NeedsDead
<1>1. d \in Task /\ StoreStep
  BY PlanShape, WorkerStepIsAStoreStep
<1>2. CASE sweeping # {}
  BY <1>2, SweepsEndDone DEF NeedsDead
<1>3. CASE sweeping = {}
  <2>1. ~NeedsDead(state, t)
    BY <1>3, AbortsNeverFall DEF FailureReachesDependents
  <2>2. CASE state[t] = Absent
    <3>1. state'[t] # Absent
      BY DEF Unfinished
    <3>2. CASE StorePlan
      BY <1>1, <3>2 DEF StorePlan, Present, SaveDAG, Dead, Absent, StoreInv, StoreTypeOK
    <3>3. ASSUME NEW w \in Worker, Grow(w) PROVE FALSE
      <4>1. PICK s \in Task :
              /\ t \in Spawns[s] /\ state[s] = "succeeded" /\ state'[s] = "succeeded"
              /\ \A v \in Spawns[s] : v \in Task /\ state[v] = Absent /\ state'[v] = "pending"
        BY <2>2, <3>1, <3>3, ChainsEnterWhole
      <4>2. d = s \/ d \in Spawns[s]
        BY <4>1, ChainsStandAlone
      <4>. QED
        BY <4>1, <4>2 DEF Dead
    <3>. QED
      BY <2>2, <3>1, <3>2, <3>3, RowsEnterByGrowing
  <2>3. CASE Begun(t)
    <3>1. state[d] = "succeeded"
      BY <2>3 DEF StoreInv, PrerequisitesSettled
    <3>. QED
      BY <1>1, <3>1, SucceededForGood DEF Dead
  <2>4. CASE state[t] # Absent /\ ~Begun(t)
    <3>1. Unfinished(state, t)
      <4>1. CASE state[t] \in Terminal
        <5>1. state'[t] = state[t]
          BY <1>1, <2>4, <4>1, SettledStaysPut DEF StoreStep, Settled, Begun
        <5>. QED
          BY <4>1, <5>1 DEF Unfinished
      <4>. QED
        BY <2>4, <4>1 DEF Unfinished
    <3>2. state[d] \in Dead
      BY <1>1, <1>3, <2>4, <3>1, NoneDiesUnowed
    <3>. QED
      BY <2>1, <3>1, <3>2 DEF NeedsDead
  <2>. QED
    BY <2>2, <2>3, <2>4
<1>. QED
  BY <1>2, <1>3

\* When every propagation that began has ended, and no cycle was cut short, nothing waits for a
\* dead dependency: every dependent of a failed or declined task has been blocked, however the
\* passes interleave with claims, answers, cancels and a plan that grows meanwhile
\* (propagateFailure, Complete, Decide, SaveDAG).
THEOREM FailureAlwaysSpreads == WorkerSpec => []FailureReachesDependents
<1>1. WorkerInit => FailureReachesDependents
  BY DEF WorkerInit, StoreInit, FailureReachesDependents, NeedsDead, Unfinished
<1>2. WorkerTypeOK /\ WorkerInv /\ StoreInv /\ ChainsInv /\ FailureReachesDependents
        /\ [WorkerNext]_workerVars
        => FailureReachesDependents'
  BY PropagationStep
<1>. QED
  BY <1>1, <1>2, WorkerTypeCorrect, ChainsInvHolds, PTL DEF WorkerSpec

-----------------------------------------------------------------------------
(***************************************************************************)
(* A run that is given up on is stuck for good.  The verdict is about a    *)
(* graph that was read some steps ago; between the reading and the writing *)
(* every other worker, person and propagation pass may act, and after the  *)
(* writing they still may.  But what nothing can start in, and nothing can *)
(* be added to, only failure propagation still changes; and a lease left   *)
(* on a cancelled task, which its holder could complete, is left only by a *)
(* cancel, which replaces the verdict.                                     *)
(***************************************************************************)

LeftoverMeansCancelled ==
  \A t \in Task : state[t] = "cancelled" /\ leasedBy[t] # Nobody => goal.state = "cancelled"

\* There is a plan, and no result that would make it grow.
Judged ==
  /\ \E t \in Task : state[t] # Absent
  /\ \A t \in Task : state[t] = "succeeded" => \A u \in Spawns[t] : state[u] # Absent

NothingStarts ==
  \A t \in Task :
    /\ state[t] \notin {"running", "awaiting_approval"}
    /\ state[t] \in {"pending", "ready"} => ~DependenciesSucceeded(state, t)

AllEnded == \A t \in Task : ~Unfinished(state, t)

Backs(cause) ==
  /\ cause = "plan_exhausted" => Judged /\ AllEnded
  /\ cause = "plan_stalled" /\ NoContributorBlocked => Judged /\ NothingStarts

LEMMA StepKeepsLeftoverMeansCancelled ==
  ASSUME StoreInv, LeftoverMeansCancelled, StoreStep
  PROVE  LeftoverMeansCancelled'
<1>. SUFFICES ASSUME NEW t \in Task, state'[t] = "cancelled", leasedBy'[t] # Nobody,
                     goal.state # "cancelled", ~AnyCancel
              PROVE  FALSE
  <2>1. CASE goal.state = "cancelled"
    BY <2>1, EndedStaysEnded DEF StoreInv, LeftoverMeansCancelled, GoalTerminal, StoreStep
  <2>2. CASE AnyCancel
    BY <2>2 DEF AnyCancel, Cancel, LeftoverMeansCancelled, StoreInv, StoreTypeOK, GoalRow
  <2>. QED
    BY <2>1, <2>2 DEF LeftoverMeansCancelled
<1>. USE StoreConstants DEF StoreInv, StoreTypeOK, LeftoverMeansCancelled, LeaseOnRunning
<1>1. CASE AnySave
  BY <1>1 DEF AnySave, ClientSave, SaveGoal, taskVars, leaseVars
<1>3. CASE AnyGrow
  BY <1>3 DEF AnyGrow, ClientGrow, SaveDAG, leaseVars
<1>4. CASE AnyClaim
  BY <1>4 DEF AnyClaim, ClientClaim, Claim
<1>5. CASE AnyRenew
  BY <1>5 DEF AnyRenew, Renew
<1>6. CASE AnyComplete
  BY <1>6 DEF AnyComplete, Complete
<1>7. CASE AnyRelease
  BY <1>7 DEF AnyRelease, Release
<1>8. CASE AnyDecide
  BY <1>8 DEF AnyDecide, Decide
<1>9. CASE AnySweep
  BY <1>9 DEF AnySweep, Sweep, leaseVars
<1>10. CASE AnyDeath
  BY <1>10 DEF AnyDeath, ClientsDie, Vanish, taskVars, leaseVars
<1>11. CASE Tick
  BY <1>11 DEF Tick, taskVars, leaseVars
<1>12. CASE UNCHANGED storeVars
  BY <1>12 DEF storeVars, taskVars, leaseVars
<1>. QED
  BY <1>1, <1>3, <1>4, <1>5, <1>6, <1>7, <1>8, <1>9, <1>10, <1>11, <1>12, StoreStepCases
     DEF StoreStep

\* Where nothing can start, a step that neither cancels nor adds rows only propagates failure.
LEMMA StuckMoves ==
  ASSUME StoreInv, LeftoverMeansCancelled, StoreStep, goal.state # "cancelled", ~AnyCancel,
         NothingStarts, NEW t \in Task, state[t] # Absent
  PROVE  state'[t] = state[t] \/ (NeedsDead(state, t) /\ state'[t] = "blocked")
<1>0. /\ state \in [Task -> TaskState]
      /\ \A u \in Task : leasedBy[u] = Nobody
  BY DEF StoreInv, StoreTypeOK, LeaseOnRunning, LeftoverMeansCancelled, NothingStarts
<1>1. CASE AnySave
  BY <1>1 DEF AnySave, ClientSave, SaveGoal, taskVars
<1>3. CASE AnyGrow
  BY <1>0, <1>3 DEF AnyGrow, ClientGrow, SaveDAG
<1>4. CASE AnyClaim
  BY <1>4 DEF AnyClaim, ClientClaim, Claim, ClaimableSet, NothingStarts
<1>5. CASE AnyRenew
  BY <1>5 DEF AnyRenew, Renew
<1>6. CASE AnyComplete
  BY <1>0, <1>6, StoreConstants DEF AnyComplete, Complete, Held
<1>7. CASE AnyRelease
  BY <1>0, <1>7, StoreConstants DEF AnyRelease, Release, Held
<1>8. CASE AnyDecide
  BY <1>8 DEF AnyDecide, Decide, NothingStarts
<1>9. CASE AnySweep
  BY <1>9 DEF AnySweep, Sweep
<1>10. CASE AnyDeath
  BY <1>10 DEF AnyDeath, ClientsDie, Vanish, taskVars
<1>11. CASE Tick
  BY <1>11 DEF Tick, taskVars
<1>12. CASE UNCHANGED storeVars
  BY <1>12 DEF storeVars, taskVars
<1>. QED
  BY <1>1, <1>3, <1>4, <1>5, <1>6, <1>7, <1>8, <1>9, <1>10, <1>11, <1>12, StoreStepCases
     DEF StoreStep

\* A plan with nothing to add gets nothing added.
LEMMA JudgedAddsNothing ==
  ASSUME WorkerInv, StoreInv, ChainsInv, [WorkerNext]_workerVars, Judged,
         NEW u \in Task, state[u] = Absent
  PROVE  state'[u] = Absent
<1>. SUFFICES ASSUME state'[u] # Absent PROVE FALSE
  OBVIOUS
<1>1. ~StorePlan
  BY DEF StorePlan, Present, Judged
<1>2. ASSUME NEW w \in Worker, Grow(w) PROVE FALSE
  <2>1. PICK t \in Task : u \in Spawns[t] /\ state[t] = "succeeded"
    BY <1>2, ChainsEnterWhole
  <2>. QED
    BY <2>1 DEF Judged
<1>. QED
  BY <1>1, <1>2, RowsEnterByGrowing

LEMMA BackedStaysBacked ==
  ASSUME WorkerInv, StoreInv, ChainsInv, LeftoverMeansCancelled, [WorkerNext]_workerVars,
         goal'.state # "cancelled", NEW cause, Backs(cause)
  PROVE  Backs(cause)'
<1>1. StoreStep /\ goal.state # "cancelled" /\ ~AnyCancel
  <2>1. StoreStep
    BY WorkerStepIsAStoreStep
  <2>2. goal.state # "cancelled"
    BY <2>1, EndedStaysEnded DEF StoreStep, StoreInv, GoalTerminal
  <2>3. ~AnyCancel
    BY DEF AnyCancel, Cancel, StoreInv, StoreTypeOK, GoalRow
  <2>. QED
    BY <2>1, <2>2, <2>3
<1>2. Judged => \A u \in Task : state[u] = Absent => state'[u] = Absent
  BY JudgedAddsNothing
<1>3. Judged /\ NothingStarts =>
        \A t \in Task : state'[t] = state[t] \/ (NeedsDead(state, t) /\ state'[t] = "blocked")
  BY <1>1, <1>2, StuckMoves
<1>4. AllEnded => NothingStarts
  BY DEF AllEnded, NothingStarts, Unfinished, Terminal, Absent
<1>5. ASSUME cause = "plan_exhausted" PROVE (Judged /\ AllEnded)'
  <2>1. Judged /\ AllEnded
    BY <1>5 DEF Backs
  <2>2. \A t \in Task : state'[t] = state[t]
    BY <1>3, <1>4, <2>1 DEF AllEnded, NeedsDead
  <2>. QED
    BY <2>1, <2>2, Planning DEF Judged, AllEnded, Unfinished
<1>6. ASSUME cause = "plan_stalled", NoContributorBlocked' PROVE (Judged /\ NothingStarts)'
  <2>1. NoContributorBlocked
    <3>. SUFFICES ASSUME NEW d \in Task, state[d] = "blocked" PROVE state'[d] = "blocked"
      BY <1>6, PlanShape DEF NoContributorBlocked
    <3>1. Settled(d)
      BY DEF StoreInv, LeaseOnRunning, Settled, Terminal
    <3>. QED
      BY <1>1, <3>1, SettledStaysPut DEF StoreStep
  <2>2. Judged /\ NothingStarts
    BY <1>6, <2>1 DEF Backs
  <2>3. \A t \in Task : state'[t] = state[t] \/ (Unfinished(state, t) /\ state'[t] = "blocked")
    BY <1>3, <2>2 DEF NeedsDead
  <2>4. Judged'
    BY <2>2, <2>3, Planning DEF Judged, Unfinished, Terminal, Absent
  <2>5. ASSUME NEW t \in Task, state'[t] \in {"pending", "ready"}, DependenciesSucceeded(state', t)
        PROVE  FALSE
    <3>1. state[t] \in {"pending", "ready"}
      BY <2>3, <2>5
    <3>2. \A d \in DependsOn[t] : state[d] = "succeeded"
      BY <2>3, <2>5, PlanShape DEF DependenciesSucceeded
    <3>3. \A d \in Contributes[t] : state[d] \in Terminal
      BY <1>6, <2>3, <2>5, PlanShape DEF DependenciesSucceeded, NoContributorBlocked
    <3>. QED
      BY <2>2, <3>1, <3>2, <3>3 DEF NothingStarts, DependenciesSucceeded
  <2>6. \A t \in Task : state'[t] \notin {"running", "awaiting_approval"}
    BY <2>2, <2>3 DEF NothingStarts
  <2>. QED
    BY <2>4, <2>5, <2>6 DEF NothingStarts
<1>. QED
  BY <1>5, <1>6 DEF Backs

\* The reasons that are true of the plan as it stands.
Standing == {cause \in Cause : Backs(cause)}

LEMMA NoVerdictStands == "none" \in Standing /\ "ceiling_exceeded" \in Standing
BY DEF Standing, Backs, Cause

LEMMA StandingGrows ==
  ASSUME WorkerInv, StoreInv, ChainsInv, LeftoverMeansCancelled, [WorkerNext]_workerVars,
         goal'.state # "cancelled"
  PROVE  Standing \subseteq Standing'
<1>1. Standing' = {cause \in Cause : Backs(cause)'}
  BY DEF Standing
<1>2. \A cause \in Standing : cause \in Cause /\ Backs(cause)'
  BY BackedStaysBacked DEF Standing
<1>. QED
  BY <1>1, <1>2

\* The goal row, and every copy of it that a cycle may still write, gives a reason that stands.
GivingUpInv ==
  /\ goal.cause # "none" => goal.state = "failed"
  /\ \A w \in Worker : Seen(w).cause # "none" => pc[w] = "conclude" /\ Seen(w).state = "failed"
  /\ \A w \in Worker : pc[w] \in Step => \E t \in Task : state[t] # Absent
  /\ goal.state # "cancelled" => goal.cause \in Standing /\ \A w \in Worker : Seen(w).cause \in Standing

\* Where a cycle moves to, the copy it takes there and the row it leaves behind.
Reports(v, step, c) ==
  /\ Go(v, step, c)
  /\ \/ c.seen.cause = "none"
     \/ step = "conclude" /\ c.seen.state = "failed" /\ c.seen.cause \in Standing
  /\ goal' = goal \/ goal'.cause = "none" \/ (pc[v] = "conclude" /\ goal' = Seen(v))
  /\ step \in Step => \E t \in Task : state[t] # Absent

LEMMA QuietMeansJudged ==
  ASSUME Proposed(state) = {}, \E t \in Task : state[t] # Absent
  PROVE  Judged
<1>1. \A t \in Task : state[t] = "succeeded" => Spawns[t] \subseteq Present(state) \cup Proposed(state)
  BY DEF Proposed, SucceededTasks
<1>. QED
  BY <1>1 DEF Judged, Present

LEMMA StalledMeansNothingStarts == Stalled(state) => NothingStarts
BY DEF Stalled, ReadySet, NothingStarts

LEMMA CycleReports ==
  ASSUME WorkerInv, GivingUpInv, NEW v \in Worker, Begin(v) \/ Continue(v) \/ Abort(v)
  PROVE  \E step, c : Reports(v, step, c)
<1>1. NoCycle \in Cycle /\ NoCycle.seen.cause = "none"
  BY NoCycleIsACycle DEF NoCycle
<1>2. cycle[v] \in Cycle /\ Seen(v) = cycle[v].seen /\ Seen(v) \in GoalRow
  BY DEF WorkerInv, CycleTypeOK, Cycle, Seen
<1>3. pc[v] # "conclude" => Seen(v).cause = "none"
  BY DEF GivingUpInv
<1>4. pc[v] \in Step => \E t \in Task : state[t] # Absent
  BY DEF GivingUpInv
<1>5. ASSUME NEW step, Go(v, step, NoCycle), goal' = goal, step \in Step => pc[v] \in Step
      PROVE  \E s, c : Reports(v, s, c)
  BY <1>1, <1>4, <1>5 DEF Reports
<1>6. CASE Begin(v)
  <2>. DEFINE start(g) == [NoCycle EXCEPT !.now = clock, !.seen = g]
  <2>1. \A g : start(g).seen = g
    BY <1>1 DEF Cycle
  <2>2. goal' = goal /\ goal \in GoalRow /\ \E t \in Task : state[t] # Absent
    BY <1>6 DEF Begin, GoalNotClaimable, Observe, CeilingReached, CycleStarts, Present, storeVars,
                WorkerInv, StoreTypeOK
  <2>. DEFINE ended == Ended(goal, "failed", "ceiling_exceeded")
  <2>3. ended.state = "failed" /\ ended.cause = "ceiling_exceeded"
    BY <2>2 DEF Ended, GoalRow
  <2>4. \/ Go(v, "stop", NoCycle)
        \/ Go(v, "claim", start(goal)) /\ goal.state = "running"
        \/ Go(v, "conclude", start(ended))
    BY <1>6 DEF Begin, GoalNotClaimable, Observe, CeilingReached, Return
  <2>. HIDE DEF start, ended
  <2>6. CASE Go(v, "stop", NoCycle)
    BY <2>2, <2>6, <1>5 DEF Step
  <2>7. CASE Go(v, "claim", start(goal)) /\ goal.state = "running"
    <3>1. goal.cause = "none"
      BY <2>7 DEF GivingUpInv
    <3>. QED
      BY <2>1, <2>2, <2>7, <3>1 DEF Reports
  <2>8. CASE Go(v, "conclude", start(ended))
    BY <2>1, <2>2, <2>3, <2>8, NoVerdictStands DEF Reports
  <2>. QED
    BY <2>4, <2>6, <2>7, <2>8
<1>7. CASE TakeTask(v)
  <2>1. PICK t \in Task :
          /\ ClientClaim(t, LeaseName[v], Now(v))
          /\ Go(v, "gate", [cycle[v] EXCEPT !.task = t, !.try = attempt'[t],
                                            !.permitted = approved[t]])
    BY <1>7 DEF TakeTask
  <2>. DEFINE c == [cycle[v] EXCEPT !.task = t, !.try = attempt'[t], !.permitted = approved[t]]
  <2>2. c.seen = Seen(v) /\ goal' = goal
    BY <1>2, <2>1 DEF Cycle, ClientClaim, Claim
  <2>3. Go(v, "gate", c) /\ pc[v] = "claim"
    BY <1>7, <2>1 DEF TakeTask
  <2>. HIDE DEF c
  <2>. QED
    BY <1>3, <1>4, <2>2, <2>3 DEF Reports, Step
<1>8. CASE ToolReturns(v)
  <2>1. PICK answer \in Answer : Go(v, "spend", [cycle[v] EXCEPT !.answer = answer])
    BY <1>8 DEF ToolReturns
  <2>. DEFINE c == [cycle[v] EXCEPT !.answer = answer]
  <2>2. c.seen = Seen(v) /\ goal' = goal /\ pc[v] = "tool"
    BY <1>2, <1>8 DEF Cycle, ToolReturns, storeVars
  <2>3. Go(v, "spend", c)
    BY <2>1
  <2>. HIDE DEF c
  <2>. QED
    BY <1>3, <1>4, <2>2, <2>3 DEF Reports, Step
<1>9. CASE RecordSpend(v)
  <2>. DEFINE spent == [Seen(v) EXCEPT !.iterations = @ + 1]
              c == [cycle[v] EXCEPT !.seen = spent]
  <2>1. spent.cause = Seen(v).cause /\ c.seen = spent /\ pc[v] = "spend"
    BY <1>2, <1>9 DEF GoalRow, Cycle, RecordSpend
  <2>2. \/ goal' = spent /\ Go(v, "settle", c)
        \/ goal' = goal /\ Go(v, "stop", NoCycle)
    BY <1>9 DEF RecordSpend, SaveGoal, Return, storeVars
  <2>. HIDE DEF spent, c
  <2>3. CASE goal' = spent /\ Go(v, "settle", c)
    BY <1>3, <1>4, <2>1, <2>3 DEF Reports, Step
  <2>4. CASE goal' = goal /\ Go(v, "stop", NoCycle)
    BY <1>5, <2>4 DEF Step
  <2>. QED
    BY <2>2, <2>3, <2>4
<1>10. CASE Conclude(v)
  <2>1. goal' \in {goal, Seen(v)} /\ Go(v, "stop", NoCycle) /\ pc[v] = "conclude"
    BY <1>10 DEF Conclude, SaveGoal, Return, storeVars
  <2>. QED
    BY <1>1, <2>1 DEF Reports, Step
<1>11. CASE PlanOutgrown(v) \/ DeclareSuccess(v) \/ DeclareExhausted(v) \/ DeclareStalled(v)
  <2>0. pc[v] = "idle" /\ goal' = goal /\ \E t \in Task : state[t] # Absent
    BY <1>4, <1>11 DEF PlanOutgrown, DeclareSuccess, DeclareExhausted, DeclareStalled, Quiet, Step,
       storeVars
  <2>1. PICK end, why :
          /\ Concluding(v, end, why)
          /\ why = "none" \/ (end = "failed" /\ why \in Standing)
    <3>1. CASE PlanOutgrown(v)
      BY <3>1, NoVerdictStands DEF PlanOutgrown
    <3>2. CASE DeclareSuccess(v)
      BY <3>2 DEF DeclareSuccess
    <3>3. CASE DeclareExhausted(v)
      <4>1. Judged /\ AllEnded
        BY <2>0, <3>3, QuietMeansJudged DEF DeclareExhausted, Quiet, Exhausted, AllEnded
      <4>2. "plan_exhausted" \in Standing
        BY <4>1 DEF Standing, Backs, Cause
      <4>. QED
        BY <3>3, <4>2 DEF DeclareExhausted
    <3>4. CASE DeclareStalled(v)
      <4>1. Judged /\ NothingStarts
        BY <2>0, <3>4, QuietMeansJudged, StalledMeansNothingStarts DEF DeclareStalled, Quiet
      <4>2. "plan_stalled" \in Standing
        BY <4>1 DEF Standing, Backs, Cause
      <4>. QED
        BY <3>4, <4>2 DEF DeclareStalled
    <3>. QED
      BY <1>11, <3>1, <3>2, <3>3, <3>4
  <2>. DEFINE c == [cycle[v] EXCEPT !.seen = Ended(@, end, why)]
  <2>2. Go(v, "conclude", c) /\ c.seen.state = end /\ c.seen.cause = why
    BY <1>2, <2>1 DEF Concluding, Cycle, Ended, GoalRow
  <2>. HIDE DEF c
  <2>. QED
    BY <2>0, <2>1, <2>2 DEF Reports
<1>12. CASE Replan(v)
  <2>. DEFINE c == [NoCycle EXCEPT !.adding = Present(state) \cup Proposed(state)]
  <2>1. c.seen = NoCycle.seen /\ goal' = goal /\ pc[v] = "idle"
    BY <1>1, <1>12 DEF Cycle, Replan, storeVars
  <2>2. Go(v, "grow", c)
    BY <1>12 DEF Replan
  <2>. HIDE DEF c
  <2>. QED
    BY <1>1, <1>4, <2>1, <2>2 DEF Reports, Step
<1>13. CASE \/ NothingToClaim(v) \/ Park(v) \/ Invoke(v) \/ Settle(v) \/ Propagate(v)
            \/ WriteCheckpoint(v) \/ BlockedOnApproval(v) \/ ComeBackLater(v) \/ Grow(v) \/ Abort(v)
  <2>1. goal' = goal
    BY <1>13 DEF NothingToClaim, Park, Invoke, Settle, Succeed, Fail, Retry, HandBack, LoseLease,
       Complete, Release, Propagate, Sweep, WriteCheckpoint, BlockedOnApproval, ComeBackLater, Grow,
       SaveDAG, Abort, Vanish, storeVars
  <2>2. pc[v] \in Step
    BY <1>13 DEF NothingToClaim, Park, Invoke, Settle, Propagate, WriteCheckpoint, BlockedOnApproval,
       ComeBackLater, Quiet, Grow, Abort, Step
  <2>3. \/ \E step : Go(v, step, NoCycle)
        \/ pc[v] # "conclude" /\ \E step : Go(v, step, cycle[v]) \/ Go(v, step, Ledger(v))
    BY <1>13 DEF NothingToClaim, Park, Invoke, Settle, Succeed, Fail, Retry, HandBack, LoseLease,
       Propagate, WriteCheckpoint, BlockedOnApproval, ComeBackLater, Grow, Abort, Return
  <2>4. Ledger(v).seen = Seen(v)
    BY <1>1 DEF Ledger, Cycle
  <2>. QED
    BY <1>1, <1>2, <1>3, <1>4, <2>1, <2>2, <2>3, <2>4 DEF Reports
<1>. QED
  BY <1>6, <1>7, <1>8, <1>9, <1>10, <1>11, <1>12, <1>13 DEF Continue

LEMMA GivingUpStep ==
  ASSUME WorkerInv, StoreInv, ChainsInv, LeftoverMeansCancelled, GivingUpInv, [WorkerNext]_workerVars
  PROVE  GivingUpInv'
<1>1. StoreStep
  BY WorkerStepIsAStoreStep
<1>2. (\E t \in Task : state[t] # Absent) => (\E t \in Task : state'[t] # Absent)
  BY <1>1, RowsStay
<1>3. goal'.state # "cancelled" =>
        /\ goal.state # "cancelled"
        /\ Standing \subseteq Standing'
  BY <1>1, EndedStaysEnded, StandingGrows DEF StoreStep, StoreInv, GoalTerminal
<1>4. CASE People \/ TimePasses \/ UNCHANGED workerVars
  <2>1. pc' = pc /\ cycle' = cycle
    BY <1>4 DEF People, StorePlan, CancelRun, Answered, FinishDecline, TimePasses, workerVars, runVars
  <2>2. CASE goal' = goal
    BY <1>2, <1>3, <2>1, <2>2 DEF GivingUpInv, Seen
  <2>3. CASE CancelRun
    <3>1. goal'.state = "cancelled" /\ goal'.cause = goal.cause /\ goal.state # "failed"
      BY <2>3 DEF CancelRun, Cancel, WorkerInv, StoreTypeOK, GoalRow, GoalTerminal
    <3>. QED
      BY <1>2, <2>1, <3>1 DEF GivingUpInv, Seen
  <2>. QED
    BY <1>4, <2>2, <2>3 DEF People, StorePlan, SaveDAG, Answered, Decide, FinishDecline, Sweep,
       TimePasses, Tick, workerVars, storeVars
<1>5. ASSUME NEW v \in Worker, Begin(v) \/ Continue(v) \/ Abort(v) PROVE GivingUpInv'
  <2>1. PICK step, c : Reports(v, step, c)
    BY <1>5, CycleReports
  <2>2. /\ OthersStay(v) /\ pc'[v] = step /\ cycle'[v] = c
    BY <2>1, GoMovesOne DEF Reports
  <2>3. goal'.cause # "none" => goal'.state = "failed"
    BY <2>1 DEF Reports, GivingUpInv
  <2>4. \A w \in Worker : cycle'[w].seen.cause # "none" =>
          pc'[w] = "conclude" /\ cycle'[w].seen.state = "failed"
    BY <2>1, <2>2 DEF Reports, GivingUpInv, Seen, OthersStay
  <2>5. \A w \in Worker : pc'[w] \in Step => \E t \in Task : state'[t] # Absent
    BY <1>2, <2>1, <2>2 DEF Reports, GivingUpInv, OthersStay
  <2>6. ASSUME goal'.state # "cancelled"
        PROVE  goal'.cause \in Standing' /\ \A w \in Worker : cycle'[w].seen.cause \in Standing'
    <3>1. goal.cause \in Standing /\ \A w \in Worker : Seen(w).cause \in Standing
      BY <1>3, <2>6 DEF GivingUpInv
    <3>2. goal'.cause \in Standing
      BY <2>1, <3>1, NoVerdictStands DEF Reports
    <3>3. \A w \in Worker : cycle'[w].seen.cause \in Standing
      BY <2>1, <2>2, <3>1, NoVerdictStands DEF Reports, OthersStay, Seen
    <3>. QED
      BY <1>3, <2>6, <3>2, <3>3
  <2>. QED
    BY <2>3, <2>4, <2>5, <2>6 DEF GivingUpInv, Seen
<1>. QED
  BY <1>4, <1>5 DEF WorkerNext

\* A run that gave up on its plan had nothing left to do and nothing to add, and it never gets
\* any: between the reading of the graph, the writing of the verdict and ever after, no claim,
\* late result, answer, replan or propagation pass gives it a task that could start (idle,
\* DidStall, SaveGoal, propagateFailure).
THEOREM GivingUpIsAlwaysRight == WorkerSpec => []GivingUpIsRight
<1>1. WorkerInit => LeftoverMeansCancelled /\ GivingUpInv
  BY DEF WorkerInit, StoreInit, LeftoverMeansCancelled, GivingUpInv, NoCycle, Seen, Standing, Backs,
     Cause, Resting, Step
<1>2. WorkerInv /\ StoreInv /\ ChainsInv /\ LeftoverMeansCancelled /\ GivingUpInv /\ [WorkerNext]_workerVars
        => (LeftoverMeansCancelled /\ GivingUpInv)'
  BY WorkerStepIsAStoreStep, StepKeepsLeftoverMeansCancelled, GivingUpStep
<1>3. GivingUpInv => GivingUpIsRight
  <2>. SUFFICES ASSUME GivingUpInv PROVE GivingUpIsRight
    OBVIOUS
  <2>1. ASSUME goal.cause \in {"plan_exhausted", "plan_stalled"} PROVE Backs(goal.cause)
    BY <2>1 DEF GivingUpInv, Standing
  <2>2. ASSUME Judged PROVE Proposed(state) = {}
    <3>1. \A t \in SucceededTasks(state) : Spawns[t] \subseteq Present(state)
      BY <2>2, Planning DEF Judged, SucceededTasks, Present
    <3>2. UNION {Spawns[t] : t \in SucceededTasks(state)} \subseteq Present(state)
      BY <3>1
    <3>. QED
      BY <3>2 DEF Proposed
  <2>3. goal.cause = "plan_exhausted" => Judged /\ AllEnded
    BY <2>1 DEF Backs
  <2>4. goal.cause = "plan_stalled" /\ NoContributorBlocked => Judged /\ NothingStarts
    BY <2>1 DEF Backs
  <2>5. NothingStarts => ReadySet(state) = {} /\ ~Awaiting(state)
    BY DEF NothingStarts, ReadySet, Awaiting
  <2>. QED
    BY <2>2, <2>3, <2>4, <2>5 DEF GivingUpIsRight, AllEnded, Exhausted
<1>. QED
  BY <1>1, <1>2, <1>3, ChainsInvHolds, PTL DEF WorkerSpec

==============================================================================
