--------------------------- MODULE RunStoreProofs ----------------------------
(***************************************************************************)
(* The store's promises, proved for every plan, every set of clients and   *)
(* every bound.                                                            *)
(*                                                                         *)
(* None of the promises is inductive by itself.  A prerequisite is taken   *)
(* back only if a settled task moves, and a settled task moves only if a   *)
(* lease was left on it, which only Cancel does, and only in an ended      *)
(* goal, where nothing can be claimed any more.  StoreInv says so.         *)
(***************************************************************************)
EXTENDS RunStore, TLAPS

Begun(t) == state[t] \in Started \/ leasedBy[t] # Nobody

\* A lease sits on a running task, or on one cancelled after its lease had run out.
LeaseOnRunning == \A t \in Task : leasedBy[t] # Nobody => state[t] \in {"running", "cancelled"}

LeftoverMeansEnded ==
  \A t \in Task : state[t] = "cancelled" /\ leasedBy[t] # Nobody => goal.state \in GoalTerminal

PrerequisitesSettled ==
  \A t \in Task : Begun(t) =>
    /\ \A d \in DependsOn[t] : state[d] = "succeeded"
    /\ \A d \in Contributes[t] : Settled(d)

StoreInv == StoreTypeOK /\ LeaseOnRunning /\ LeftoverMeansEnded /\ PrerequisitesSettled

\* The labels of the disjuncts of StoreNext, so that a proof names the one it is about.
AnySave == \E g \in [state : GoalState, iterations : 0..MaxIterations, cause : Cause] : ClientSave(g)
AnyCancel == \E now \in 0..clock : Cancel(now)
AnyGrow == \E tasks \in SUBSET Task : ClientGrow(tasks)
AnyClaim == \E t \in Task, id \in WorkerId, now \in 0..clock : ClientClaim(t, id, now)
AnyRenew == \E t \in Task, id \in WorkerId, now \in 0..clock : Renew(t, id, now)
AnyComplete ==
  \E c \in Client \ sweeping, t \in Task, id \in WorkerId, next \in Outcome, now \in 0..clock :
    Complete(c, t, id, next, now)
AnyRelease == \E t \in Task, id \in WorkerId, now \in 0..clock : Release(t, id, now)
AnyDecide == \E c \in Client \ sweeping, t \in Task, approve \in BOOLEAN : Decide(c, t, approve)
AnySweep == \E c \in Client : Sweep(c)
AnyDeath == \E clients \in SUBSET Client : ClientsDie(clients)

LEMMA StoreStepCases ==
  ASSUME [StoreNext]_storeVars
  PROVE  \/ AnySave \/ AnyCancel \/ AnyGrow \/ AnyClaim \/ AnyRenew \/ AnyComplete
         \/ AnyRelease \/ AnyDecide \/ AnySweep \/ AnyDeath \/ Tick \/ UNCHANGED storeVars
BY DEF StoreNext, AnySave, AnyCancel, AnyGrow, AnyClaim, AnyRenew, AnyComplete, ClientComplete,
       AnyRelease, AnyDecide, AnySweep, AnyDeath

-----------------------------------------------------------------------------
(***************************************************************************)
(* Type correctness.                                                       *)
(***************************************************************************)
LEMMA StoreInitTypeOK == StoreInit => StoreTypeOK
BY StoreConstants DEF StoreInit, StoreTypeOK, Instant, GoalRow, GoalState, GoalTerminal, Cause,
                      TaskState, Terminal, Absent

LEMMA StoreStepTypeOK ==
  ASSUME StoreTypeOK, [StoreNext]_storeVars
  PROVE  StoreTypeOK'
<1>. USE StoreConstants DEF StoreTypeOK
<1>1. CASE AnySave
  BY <1>1 DEF AnySave, ClientSave, SaveGoal, taskVars, leaseVars, GoalRow
<1>2. CASE AnyCancel
  BY <1>2 DEF AnyCancel, Cancel, leaseVars, GoalRow, GoalState, GoalTerminal, TaskState, Terminal
<1>3. CASE AnyGrow
  BY <1>3 DEF AnyGrow, ClientGrow, SaveDAG, leaseVars, TaskState
<1>4. CASE AnyClaim
  BY <1>4 DEF AnyClaim, ClientClaim, Claim, TaskState, Instant
<1>5. CASE AnyRenew
  BY <1>5 DEF AnyRenew, Renew, Instant
<1>6. CASE AnyComplete
  BY <1>6 DEF AnyComplete, Complete, Outcome, TaskState, Terminal
<1>7. CASE AnyRelease
  BY <1>7 DEF AnyRelease, Release, TaskState
<1>8. CASE AnyDecide
  BY <1>8 DEF AnyDecide, Decide, TaskState, Terminal
<1>9. CASE AnySweep
  BY <1>9 DEF AnySweep, Sweep, leaseVars, TaskState, Terminal
<1>10. CASE AnyDeath
  BY <1>10 DEF AnyDeath, ClientsDie, Vanish, taskVars, leaseVars
<1>11. CASE Tick
  BY <1>11 DEF Tick, taskVars, leaseVars, Instant
<1>12. CASE UNCHANGED storeVars
  BY <1>12 DEF storeVars, taskVars, leaseVars
<1>. QED
  BY <1>1, <1>2, <1>3, <1>4, <1>5, <1>6, <1>7, <1>8, <1>9, <1>10, <1>11, <1>12, StoreStepCases

\* Every reachable store has well-typed rows, whatever clients call in whatever order.
THEOREM StoreTypeCorrect == StoreSpec => []StoreTypeOK
<1>1. StoreInit => StoreTypeOK
  BY StoreInitTypeOK
<1>2. StoreTypeOK /\ [StoreNext]_storeVars => StoreTypeOK'
  BY StoreStepTypeOK
<1>. QED
  BY <1>1, <1>2, PTL DEF StoreSpec

-----------------------------------------------------------------------------
(***************************************************************************)
(* A settled task never moves, and what has begun keeps its settled        *)
(* prerequisites.                                                          *)
(***************************************************************************)
\* No propagation pass reaches a task that has begun: what it needs has succeeded.
LEMMA BegunNeedsNothingDead ==
  ASSUME StoreInv, NEW t \in Task, Begun(t)
  PROVE  ~NeedsDead(state, t)
BY DEF StoreInv, PrerequisitesSettled, NeedsDead, Dead

LEMMA SettledMeansUnleased ==
  ASSUME StoreInv, goal.state \notin GoalTerminal, NEW t \in Task, state[t] \in Terminal
  PROVE  Settled(t)
BY DEF StoreInv, LeaseOnRunning, LeftoverMeansEnded, Settled, Terminal

LEMMA SettledStaysPut ==
  ASSUME StoreInv, [StoreNext]_storeVars, NEW t \in Task, Settled(t)
  PROVE  state'[t] = state[t] /\ leasedBy'[t] = leasedBy[t]
<1>. USE StoreConstants DEF StoreInv, StoreTypeOK, Settled, Terminal
<1>1. CASE AnySave
  BY <1>1 DEF AnySave, ClientSave, SaveGoal, taskVars, leaseVars
<1>2. CASE AnyCancel
  BY <1>2 DEF AnyCancel, Cancel, Cancellable, Unfinished, leaseVars
<1>3. CASE AnyGrow
  BY <1>3 DEF AnyGrow, ClientGrow, SaveDAG, leaseVars, Absent
<1>4. CASE AnyClaim
  BY <1>4 DEF AnyClaim, ClientClaim, Claim, ClaimableSet
<1>5. CASE AnyRenew
  BY <1>5 DEF AnyRenew, Renew
<1>6. CASE AnyComplete
  BY <1>6 DEF AnyComplete, Complete, Held
<1>7. CASE AnyRelease
  BY <1>7 DEF AnyRelease, Release, Held
<1>8. CASE AnyDecide
  BY <1>8 DEF AnyDecide, Decide
<1>9. CASE AnySweep
  BY <1>9 DEF AnySweep, Sweep, NeedsDead, Unfinished, leaseVars
<1>10. CASE AnyDeath
  BY <1>10 DEF AnyDeath, ClientsDie, Vanish, taskVars, leaseVars
<1>11. CASE Tick
  BY <1>11 DEF Tick, taskVars, leaseVars
<1>12. CASE UNCHANGED storeVars
  BY <1>12 DEF storeVars, taskVars, leaseVars
<1>. QED
  BY <1>1, <1>2, <1>3, <1>4, <1>5, <1>6, <1>7, <1>8, <1>9, <1>10, <1>11, <1>12, StoreStepCases

\* A task begins by being claimed and in no other way.
LEMMA BeginsByClaim ==
  ASSUME StoreInv, [StoreNext]_storeVars, NEW t \in Task, Begun(t)'
  PROVE  Begun(t) \/ (goal.state = "running" /\ DependenciesSucceeded(state, t))
<1>. USE StoreConstants DEF StoreInv, StoreTypeOK, Begun, Started
<1>1. CASE AnySave
  BY <1>1 DEF AnySave, ClientSave, SaveGoal, taskVars, leaseVars
<1>2. CASE AnyCancel
  BY <1>2 DEF AnyCancel, Cancel, leaseVars
<1>3. CASE AnyGrow
  BY <1>3 DEF AnyGrow, ClientGrow, SaveDAG, leaseVars
<1>4. CASE AnyClaim
  BY <1>4 DEF AnyClaim, ClientClaim, Claim, ClaimableSet
<1>5. CASE AnyRenew
  BY <1>5 DEF AnyRenew, Renew
<1>6. CASE AnyComplete
  BY <1>6 DEF AnyComplete, Complete, Held
<1>7. CASE AnyRelease
  BY <1>7 DEF AnyRelease, Release
<1>8. CASE AnyDecide
  BY <1>8 DEF AnyDecide, Decide
<1>9. CASE AnySweep
  BY <1>9 DEF AnySweep, Sweep, leaseVars
<1>10. CASE AnyDeath
  BY <1>10 DEF AnyDeath, ClientsDie, Vanish, taskVars, leaseVars
<1>11. CASE Tick
  BY <1>11 DEF Tick, taskVars, leaseVars
<1>12. CASE UNCHANGED storeVars
  BY <1>12 DEF storeVars, taskVars, leaseVars
<1>. QED
  BY <1>1, <1>2, <1>3, <1>4, <1>5, <1>6, <1>7, <1>8, <1>9, <1>10, <1>11, <1>12, StoreStepCases

LEMMA StepKeepsPrerequisitesSettled ==
  ASSUME StoreInv, [StoreNext]_storeVars
  PROVE  PrerequisitesSettled'
<1>. SUFFICES ASSUME NEW t \in Task, Begun(t)'
              PROVE  /\ \A d \in DependsOn[t] : state'[d] = "succeeded"
                     /\ \A d \in Contributes[t] : Settled(d)'
  BY DEF PrerequisitesSettled
<1>1. DependsOn[t] \subseteq Task /\ Contributes[t] \subseteq Task
  BY PlanShape
<1>2. /\ \A d \in DependsOn[t] : Settled(d) /\ state[d] = "succeeded"
      /\ \A d \in Contributes[t] : Settled(d)
  <2>1. CASE Begun(t)
    BY <2>1, <1>1 DEF StoreInv, PrerequisitesSettled, LeaseOnRunning, Settled, Terminal
  <2>2. CASE goal.state = "running" /\ DependenciesSucceeded(state, t)
    <3>1. goal.state \notin GoalTerminal
      BY <2>2 DEF GoalTerminal
    <3>2. \A d \in Task : state[d] \in Terminal => Settled(d)
      BY <3>1, SettledMeansUnleased
    <3>. QED
      BY <2>2, <3>2, <1>1 DEF DependenciesSucceeded, Terminal
  <2>. QED
    BY <2>1, <2>2, BeginsByClaim
<1>3. \A d \in Task : Settled(d) => state'[d] = state[d] /\ leasedBy'[d] = leasedBy[d]
  BY SettledStaysPut
<1>. QED
  BY <1>1, <1>2, <1>3 DEF Settled

-----------------------------------------------------------------------------
(***************************************************************************)
(* Where leases sit.                                                       *)
(***************************************************************************)
LEMMA StepKeepsLeaseOnRunning ==
  ASSUME StoreInv, [StoreNext]_storeVars
  PROVE  LeaseOnRunning'
<1>. SUFFICES ASSUME NEW t \in Task, leasedBy'[t] # Nobody
              PROVE  state'[t] \in {"running", "cancelled"}
  BY DEF LeaseOnRunning
<1>. USE StoreConstants DEF StoreInv, StoreTypeOK, LeaseOnRunning
<1>1. CASE AnySave
  BY <1>1 DEF AnySave, ClientSave, SaveGoal, taskVars, leaseVars
<1>2. CASE AnyCancel
  BY <1>2 DEF AnyCancel, Cancel, leaseVars
<1>3. CASE AnyGrow
  BY <1>3 DEF AnyGrow, ClientGrow, SaveDAG, leaseVars, Absent
<1>4. CASE AnyClaim
  BY <1>4 DEF AnyClaim, ClientClaim, Claim
<1>5. CASE AnyRenew
  BY <1>5 DEF AnyRenew, Renew
<1>6. CASE AnyComplete
  BY <1>6 DEF AnyComplete, Complete
<1>7. CASE AnyRelease
  BY <1>7 DEF AnyRelease, Release
<1>8. CASE AnyDecide
  BY <1>8 DEF AnyDecide, Decide
<1>9. CASE AnySweep
  <2>1. Begun(t) /\ leasedBy[t] # Nobody
    BY <1>9 DEF AnySweep, Sweep, leaseVars, Begun
  <2>2. ~NeedsDead(state, t)
    BY <2>1, BegunNeedsNothingDead
  <2>. QED
    BY <1>9, <2>1, <2>2 DEF AnySweep, Sweep
<1>10. CASE AnyDeath
  BY <1>10 DEF AnyDeath, ClientsDie, Vanish, taskVars, leaseVars
<1>11. CASE Tick
  BY <1>11 DEF Tick, taskVars, leaseVars
<1>12. CASE UNCHANGED storeVars
  BY <1>12 DEF storeVars, taskVars, leaseVars
<1>. QED
  BY <1>1, <1>2, <1>3, <1>4, <1>5, <1>6, <1>7, <1>8, <1>9, <1>10, <1>11, <1>12, StoreStepCases

LEMMA EndedStaysEnded ==
  ASSUME StoreTypeOK, [StoreNext]_storeVars, goal.state \in GoalTerminal
  PROVE  goal'.state = goal.state
<1>1. CASE AnySave
  BY <1>1 DEF AnySave, ClientSave, SaveGoal, RefuseTerminalOverwrite
<1>2. CASE AnyCancel
  BY <1>2 DEF AnyCancel, Cancel
<1>3. CASE goal' = goal
  BY <1>3
<1>4. \/ AnyGrow \/ AnyClaim \/ AnyRenew \/ AnyComplete \/ AnyRelease \/ AnyDecide
      \/ AnySweep \/ AnyDeath \/ Tick \/ UNCHANGED storeVars
      => goal' = goal
  BY DEF AnyGrow, ClientGrow, SaveDAG, AnyClaim, ClientClaim, Claim, AnyRenew, Renew,
         AnyComplete, Complete, AnyRelease, Release, AnyDecide, Decide, AnySweep, Sweep,
         AnyDeath, ClientsDie, Vanish, Tick, storeVars
<1>. QED
  BY <1>1, <1>2, <1>3, <1>4, StoreStepCases

\* Only Cancel leaves a lease on a cancelled task, and it ends the goal in the same step.
LEMMA StepKeepsLeftoverMeansEnded ==
  ASSUME StoreInv, [StoreNext]_storeVars
  PROVE  LeftoverMeansEnded'
<1>. SUFFICES ASSUME NEW t \in Task, state'[t] = "cancelled", leasedBy'[t] # Nobody,
                     goal.state \notin GoalTerminal, ~AnyCancel
              PROVE  FALSE
  <2>1. CASE goal.state \in GoalTerminal
    BY <2>1, EndedStaysEnded DEF StoreInv, LeftoverMeansEnded
  <2>2. CASE AnyCancel
    BY <2>2 DEF AnyCancel, Cancel, LeftoverMeansEnded, GoalTerminal, StoreInv, StoreTypeOK, GoalRow
  <2>. QED
    BY <2>1, <2>2 DEF LeftoverMeansEnded
<1>. USE StoreConstants DEF StoreInv, StoreTypeOK, LeftoverMeansEnded, LeaseOnRunning
<1>1. CASE AnySave
  BY <1>1 DEF AnySave, ClientSave, SaveGoal, taskVars, leaseVars
<1>3. CASE AnyGrow
  BY <1>3 DEF AnyGrow, ClientGrow, SaveDAG, leaseVars
<1>4. CASE AnyClaim
  BY <1>4 DEF AnyClaim, ClientClaim, Claim
<1>5. CASE AnyRenew
  BY <1>5 DEF AnyRenew, Renew
<1>6. CASE AnyComplete
  BY <1>6 DEF AnyComplete, Complete
<1>7. CASE AnyRelease
  BY <1>7 DEF AnyRelease, Release
<1>8. CASE AnyDecide
  BY <1>8 DEF AnyDecide, Decide
<1>9. CASE AnySweep
  BY <1>9 DEF AnySweep, Sweep, leaseVars
<1>10. CASE AnyDeath
  BY <1>10 DEF AnyDeath, ClientsDie, Vanish, taskVars, leaseVars
<1>11. CASE Tick
  BY <1>11 DEF Tick, taskVars, leaseVars
<1>12. CASE UNCHANGED storeVars
  BY <1>12 DEF storeVars, taskVars, leaseVars
<1>. QED
  BY <1>1, <1>3, <1>4, <1>5, <1>6, <1>7, <1>8, <1>9, <1>10, <1>11, <1>12, StoreStepCases

-----------------------------------------------------------------------------
(***************************************************************************)
(* The promises.                                                           *)
(***************************************************************************)
LEMMA StoreInvHolds == StoreSpec => []StoreInv
<1>1. StoreInit => StoreInv
  <2>1. StoreInit => StoreTypeOK
    BY StoreInitTypeOK
  <2>2. StoreInit => LeaseOnRunning /\ LeftoverMeansEnded /\ PrerequisitesSettled
    BY DEF StoreInit, LeaseOnRunning, LeftoverMeansEnded, PrerequisitesSettled, Begun, Started,
           Absent
  <2>. QED
    BY <2>1, <2>2 DEF StoreInv
<1>2. StoreInv /\ [StoreNext]_storeVars => StoreInv'
  <2>. SUFFICES ASSUME StoreInv, [StoreNext]_storeVars PROVE StoreInv'
    OBVIOUS
  <2>1. StoreTypeOK'
    BY StoreStepTypeOK DEF StoreInv
  <2>2. LeaseOnRunning' /\ LeftoverMeansEnded' /\ PrerequisitesSettled'
    BY StepKeepsLeaseOnRunning, StepKeepsLeftoverMeansEnded, StepKeepsPrerequisitesSettled
  <2>. QED
    BY <2>1, <2>2 DEF StoreInv
<1>. QED
  BY <1>1, <1>2, PTL DEF StoreSpec

\* The readiness rule that Claim checks once stays true of every task that has begun, for
\* every plan and every client, stale clocks and clients that die between passes included.
THEOREM PrerequisitesHoldAlways == StoreSpec => []PrerequisitesHold
<1>1. StoreInv => PrerequisitesHold
  BY DEF StoreInv, PrerequisitesSettled, PrerequisitesHold, Prerequisites, Begun, Settled
<1>. QED
  BY <1>1, StoreInvHolds, PTL

\* An outcome nobody holds a lease on is final.
THEOREM OutcomesAreFinal == StoreSpec => SettledForever
<1>1. StoreInv /\ [StoreNext]_storeVars
        => [\A t \in Task : Settled(t) => state'[t] = state[t]]_storeVars
  BY SettledStaysPut
<1>. QED
  BY <1>1, StoreInvHolds, PTL DEF StoreSpec, SettledForever

\* The label of an ended run is final.
THEOREM GoalLabelIsFinal == StoreSpec => GoalEndsOnce
<1>1. StoreTypeOK /\ [StoreNext]_storeVars
        => [goal.state \in GoalTerminal => goal'.state = goal.state]_storeVars
  BY EndedStaysEnded
<1>. QED
  BY <1>1, StoreTypeCorrect, PTL DEF StoreSpec, GoalEndsOnce

LEMMA LiveLeaseStep ==
  ASSUME StoreInv, [StoreNext]_storeVars, NEW t \in Task, leasedBy[t] # Nobody, expiry[t] > clock
  PROVE  /\ leasedBy'[t] \in {leasedBy[t], Nobody}
         /\ leasedBy'[t] = leasedBy[t] => state'[t] = state[t]
<1>. USE StoreConstants DEF StoreInv, StoreTypeOK, Instant
<1>1. CASE AnySave
  BY <1>1 DEF AnySave, ClientSave, SaveGoal, taskVars, leaseVars
<1>2. CASE AnyCancel
  BY <1>2 DEF AnyCancel, Cancel, Cancellable, leaseVars
<1>3. CASE AnyGrow
  BY <1>3 DEF AnyGrow, ClientGrow, SaveDAG, leaseVars, LeaseOnRunning, Absent
<1>4. CASE AnyClaim
  BY <1>4 DEF AnyClaim, ClientClaim, Claim, ClaimableSet, LeaseOnRunning
<1>5. CASE AnyRenew
  BY <1>5 DEF AnyRenew, Renew
<1>6. CASE AnyComplete
  BY <1>6 DEF AnyComplete, Complete
<1>7. CASE AnyRelease
  BY <1>7 DEF AnyRelease, Release
<1>8. CASE AnyDecide
  BY <1>8 DEF AnyDecide, Decide, LeaseOnRunning
<1>9. CASE AnySweep
  <2>1. ~NeedsDead(state, t)
    BY BegunNeedsNothingDead DEF Begun
  <2>. QED
    BY <1>9, <2>1 DEF AnySweep, Sweep, leaseVars
<1>10. CASE AnyDeath
  BY <1>10 DEF AnyDeath, ClientsDie, Vanish, taskVars, leaseVars
<1>11. CASE Tick
  BY <1>11 DEF Tick, taskVars, leaseVars
<1>12. CASE UNCHANGED storeVars
  BY <1>12 DEF storeVars, taskVars, leaseVars
<1>. QED
  BY <1>1, <1>2, <1>3, <1>4, <1>5, <1>6, <1>7, <1>8, <1>9, <1>10, <1>11, <1>12, StoreStepCases

\* A live lease keeps everybody but its holder off the task, whatever `now` they bring.
THEOREM LiveLeasesProtect == StoreSpec => LiveLeaseProtects
<1>1. StoreInv /\ [StoreNext]_storeVars
        => [\A t \in Task : leasedBy[t] # Nobody /\ expiry[t] > clock =>
              /\ leasedBy'[t] \in {leasedBy[t], Nobody}
              /\ leasedBy'[t] = leasedBy[t] => state'[t] = state[t]]_storeVars
  BY LiveLeaseStep
<1>. QED
  BY <1>1, StoreInvHolds, PTL DEF StoreSpec, LiveLeaseProtects

-----------------------------------------------------------------------------
(***************************************************************************)
(* Failure propagation and stalling, for every graph: what the loops of    *)
(* task.go compute is the least closed set (DagAlgorithms checks that);    *)
(* here, that the least closed set is closed, that blocking it leaves      *)
(* nothing waiting for a dead task, and that such a graph cannot stall.    *)
(***************************************************************************)

\* A plan holds what its tasks depend on (NewDAG refuses a dangling reference).
Whole(st) == \A t \in Task : st[t] # Absent => \A d \in Edges(t) : st[d] # Absent

\* Whatever the rule makes it block, the least closed set already holds.
LEMMA DownstreamIsClosed ==
  ASSUME NEW st \in [Task -> TaskState]
  PROVE  ClosedUnderBlocking(st, Downstream(st))
<1>. SUFFICES ASSUME NEW t \in Task,
                     NeedsDead(st, t)
                       \/ (Unfinished(st, t) /\ DependsOn[t] \cap Downstream(st) # {}),
                     NEW S \in SUBSET Task, ClosedUnderBlocking(st, S)
              PROVE  t \in S
  BY DEF ClosedUnderBlocking, Downstream
<1>1. CASE NeedsDead(st, t)
  BY <1>1 DEF ClosedUnderBlocking
<1>2. CASE Unfinished(st, t) /\ DependsOn[t] \cap Downstream(st) # {}
  <2>1. Downstream(st) \subseteq S
    BY DEF Downstream
  <2>2. DependsOn[t] \cap S # {}
    BY <1>2, <2>1
  <2>. QED
    BY <1>2, <2>2 DEF ClosedUnderBlocking
<1>. QED
  BY <1>1, <1>2

\* Only unfinished tasks are blocked: a finished one keeps its outcome.
LEMMA DownstreamIsUnfinished ==
  ASSUME NEW st \in [Task -> TaskState], NEW t \in Downstream(st)
  PROVE  t \in Task /\ Unfinished(st, t)
<1>1. ClosedUnderBlocking(st, {u \in Task : Unfinished(st, u)})
  BY DEF ClosedUnderBlocking, NeedsDead
<1>. QED
  BY <1>1 DEF Downstream

\* After propagation nothing waits for a task that can no longer succeed (PropagateFailure).
THEOREM PropagationLeavesNoneWaiting ==
  ASSUME NEW st \in [Task -> TaskState]
  PROVE  \A t \in Task : ~NeedsDead(PropagateFailure(st), t)
<1>. SUFFICES ASSUME NEW t \in Task, NeedsDead(PropagateFailure(st), t)
              PROVE  FALSE
  OBVIOUS
<1>. DEFINE after == PropagateFailure(st)
<1>1. Unfinished(after, t)
  BY DEF NeedsDead
<1>2. PICK d \in DependsOn[t] : after[d] \in Dead
  BY DEF NeedsDead
<1>3. d \in Task
  BY PlanShape
<1>4. t \notin Downstream(st) /\ Unfinished(st, t)
  BY <1>1 DEF PropagateFailure, Unfinished, Terminal
<1>5. d \in Downstream(st) \/ st[d] \in Dead
  BY <1>2, <1>3 DEF PropagateFailure
<1>6. NeedsDead(st, t) \/ DependsOn[t] \cap Downstream(st) # {}
  BY <1>4, <1>5 DEF NeedsDead
<1>. QED
  BY <1>4, <1>6, DownstreamIsClosed DEF ClosedUnderBlocking

\* Propagation changes no finished task and removes none.
THEOREM PropagationKeepsOutcomes ==
  ASSUME NEW st \in [Task -> TaskState], NEW t \in Task
  PROVE  /\ st[t] \in Terminal => PropagateFailure(st)[t] = st[t]
         /\ st[t] = Absent <=> PropagateFailure(st)[t] = Absent
<1>1. t \in Downstream(st) => Unfinished(st, t)
  BY DownstreamIsUnfinished
<1>2. "blocked" # Absent /\ "blocked" \in Terminal
  BY DEF Absent, Terminal
<1>. QED
  BY <1>1, <1>2 DEF PropagateFailure, Unfinished

\* A whole, acyclic plan in which nothing waits for a dead task is never stalled: a run can
\* be given up as plan_stalled only between an outcome and the end of its propagation
\* (Stalled, PropagateFailure, detectCycle).
THEOREM PropagatedNeverStalls ==
  ASSUME NEW st \in [Task -> TaskState], Whole(st), \A t \in Task : ~NeedsDead(st, t)
  PROVE  ~Stalled(st)
<1>. SUFFICES ASSUME Stalled(st) PROVE FALSE
  OBVIOUS
<1>. DEFINE left == {t \in Task : Unfinished(st, t)}
<1>1. left # {} /\ left \in SUBSET Task
  BY DEF Stalled
<1>2. PICK t \in left : Edges(t) \cap left = {}
  BY <1>1, PlanIsAcyclic DEF Acyclic
<1>3. st[t] \in {"pending", "ready"}
  BY DEF Stalled, Unfinished, TaskState
<1>4. ASSUME NEW d \in Edges(t) PROVE d \in Task /\ st[d] \in Terminal
  <2>1. d \in Task
    BY PlanShape DEF Edges
  <2>2. st[d] # Absent
    BY DEF Whole, Unfinished
  <2>. QED
    BY <1>2, <2>1, <2>2 DEF Unfinished
<1>5. ASSUME NEW d \in DependsOn[t] PROVE st[d] = "succeeded"
  <2>1. st[d] \in Terminal
    BY <1>4 DEF Edges
  <2>2. st[d] \notin Dead
    BY DEF NeedsDead
  <2>. QED
    BY <2>1, <2>2 DEF Terminal, Dead
<1>6. t \in ReadySet(st)
  BY <1>3, <1>4, <1>5 DEF ReadySet, DependenciesSucceeded, Edges
<1>. QED
  BY <1>6 DEF Stalled

==============================================================================
