-------------------------- MODULE SupervisorProofs --------------------------
(***************************************************************************)
(* One process, one goal, any plan: the supervisor never drives the goal   *)
(* twice, and whatever it does with restarts, failing calls and late       *)
(* requests is something the store allows any client.                      *)
(*                                                                         *)
(* Every worker of the process leases under one name, so the argument of   *)
(* CopiesAreTrue, names of their own, is not available.  One driver takes  *)
(* its place: nobody else is acting on a task at all.                      *)
(***************************************************************************)
EXTENDS Supervisor, WorkerRunProofs

DriverInv ==
  /\ drive \in [Worker -> {"none", "fresh", "looping"}]
  /\ \A w \in Worker : drive[w] # "none" => running
  /\ \A w \in Worker : pc[w] \in Step => drive[w] = "looping"
  /\ OneDriver

-----------------------------------------------------------------------------
(***************************************************************************)
(* A step of the supervisor is a restart or a step of the workers.         *)
(***************************************************************************)
CycleOf(w) == Begin(w) \/ Continue(w) \/ Abort(w)

LEMMA SupStepCases ==
  ASSUME [SupNext]_allVars
  PROVE  \/ Restart
         \/ \E w \in Worker : CycleOf(w) /\ (DriveCycle(w) \/ DriveStep(w) \/ StoreFails(w))
         \/ People \/ TimePasses \/ UNCHANGED workerVars
<1>1. ASSUME NEW w \in Worker, Drive(w) \/ StoreFails(w)
      PROVE  \/ CycleOf(w) /\ (DriveCycle(w) \/ DriveStep(w) \/ StoreFails(w))
             \/ UNCHANGED workerVars
  BY <1>1 DEF Drive, DriveCycle, DriveStep, DriveReturns, StoreFails, CycleOf
<1>2. ASSUME NEW k \in Console, Request(k) \/ StartGoal(k)
      PROVE  People \/ UNCHANGED workerVars
  BY <1>2 DEF Request, Start, EndDecline, StartGoal, People
<1>3. ASSUME NEW k \in Console, NEW t \in Task, NEW approve \in BOOLEAN, DecideTask(k, t, approve)
      PROVE  People
  BY <1>3 DEF DecideTask, People
<1>4. CASE HandleCancelGoal \/ Elapse
  BY <1>4 DEF HandleCancelGoal, Elapse, People
<1>5. CASE UNCHANGED allVars
  BY <1>5 DEF allVars
<1>. QED
  BY <1>1, <1>2, <1>3, <1>4, <1>5 DEF SupNext

LEMMA SupStepIsAWorkerStep ==
  ASSUME [SupNext]_allVars, ~Restart
  PROVE  [WorkerNext]_workerVars
BY SupStepCases DEF WorkerNext, CycleOf

LEMMA RestartIsAStoreStep ==
  ASSUME WorkerInv, Restart
  PROVE  StoreStep
<1>1. CASE sweeping = {}
  BY <1>1 DEF Restart, Vanish, StoreStep, storeVars
<1>2. CASE sweeping # {}
  <2>1. Client \cap sweeping # {}
    BY <1>2 DEF WorkerInv, StoreTypeOK
  <2>. QED
    BY <2>1 DEF Restart, ClientsDie, StoreStep, StoreNext
<1>. QED
  BY <1>1, <1>2

LEMMA RestartKeepsWorkerInv ==
  ASSUME WorkerInv, Restart
  PROVE  WorkerInv'
<1>1. StoreTypeOK' /\ LedgerWithinCeiling'
  BY RestartIsAStoreStep, StoreStepTypeOK, LedgerStep DEF WorkerInv, StoreStep
<1>2. clock' = clock /\ sweeping' = {}
  BY DEF Restart, Vanish, WorkerInv, StoreTypeOK
<1>3. pc' = [w \in Worker |-> "error"] /\ cycle' = [w \in Worker |-> NoCycle]
  BY DEF Restart
<1>4. /\ NoCycle \in Cycle
      /\ NoCycle.now \in 0..clock /\ NoCycle.seen.iterations <= MaxIterations
  BY LedgerIsACycle, NoCycleIsACycle, StoreConstants DEF WorkerInv, StoreTypeOK, Instant
<1>. QED
  BY <1>1, <1>2, <1>3, <1>4 DEF WorkerInv, CycleTypeOK, CyclesAreClients, Resting

LEMMA SupStepIsAStoreStep ==
  ASSUME WorkerInv, [SupNext]_allVars
  PROVE  StoreStep /\ WorkerInv'
BY RestartIsAStoreStep, RestartKeepsWorkerInv, SupStepIsAWorkerStep, WorkerStepIsAStoreStep,
   WorkerInvStep

LEMMA SupWorkerInv == SupSpec => []WorkerInv
<1>1. SupInit => WorkerInv
  BY WorkerInitInv DEF SupInit
<1>2. WorkerInv /\ [SupNext]_allVars => WorkerInv'
  BY SupStepIsAStoreStep
<1>. QED
  BY <1>1, <1>2, PTL DEF SupSpec

\* The supervisor with its restarts implements the store too: what the store promises any
\* client holds of the deployed process (Start, drive, decideTask, handleCancelGoal).
THEOREM SupervisorImplementsStore == SupSpec => StoreSpec
<1>1. SupInit => StoreInit
  BY DEF SupInit, WorkerInit
<1>2. WorkerInv /\ [SupNext]_allVars => [StoreNext]_storeVars
  BY SupStepIsAStoreStep DEF StoreStep
<1>. QED
  BY <1>1, <1>2, SupWorkerInv, PTL DEF SupSpec, StoreSpec

-----------------------------------------------------------------------------
(***************************************************************************)
(* One driver.                                                             *)
(***************************************************************************)
LEMMA DriverStep ==
  ASSUME WorkerInv, DriverInv, [SupNext]_allVars
  PROVE  DriverInv'
<1>. USE DEF DriverInv, OneDriver
<1>0. pc \in [Worker -> Resting \cup Step] /\ Resting \cap Step = {}
  BY DEF WorkerInv, CycleTypeOK, Resting, Step
<1>1. CASE Restart
  BY <1>1 DEF Restart, Step
<1>2. ASSUME NEW w \in Worker, DriveCycle(w) PROVE DriverInv'
  <2>1. OthersStay(w) /\ drive' = [drive EXCEPT ![w] = "looping"] /\ running' = running
    BY <1>2, CycleStepCases DEF DriveCycle
  <2>2. drive[w] # "none"
    BY <1>2 DEF DriveCycle
  <2>. QED
    BY <2>1, <2>2 DEF OthersStay
<1>3. ASSUME NEW w \in Worker, DriveStep(w) \/ StoreFails(w) PROVE DriverInv'
  <2>1. OthersStay(w) /\ drive' = drive /\ running' = running
    BY <1>3, CycleStepCases DEF DriveStep, StoreFails, supVars
  <2>2. drive[w] = "looping"
    BY <1>3 DEF DriveStep, StoreFails, Abort
  <2>. QED
    BY <2>1, <2>2 DEF OthersStay
<1>4. ASSUME NEW w \in Worker, DriveReturns(w) PROVE DriverInv'
  <2>1. /\ drive' = [drive EXCEPT ![w] = "none"] /\ pc' = pc
        /\ drive[w] = "looping" /\ pc[w] \notin Step
    BY <1>4 DEF DriveReturns, workerVars, runVars, Step
  <2>. QED
    BY <2>1
<1>5. ASSUME NEW k \in Console, Start(k) PROVE DriverInv'
  <2>1. pc' = pc
    BY <1>5 DEF Start, workerVars, runVars
  <2>2. CASE running
    BY <1>5, <2>1, <2>2 DEF Start
  <2>3. CASE ~running
    <3>1. PICK w \in Worker : drive[w] = "none" /\ drive' = [drive EXCEPT ![w] = "fresh"]
      BY <1>5, <2>3 DEF Start
    <3>2. running'
      BY <1>5, <2>3 DEF Start
    <3>. QED
      BY <2>1, <2>3, <3>1, <3>2
  <2>. QED
    BY <2>2, <2>3
<1>6. ASSUME UNCHANGED <<pc, running, drive>> PROVE DriverInv'
  BY <1>6
<1>7. ASSUME NEW k \in Console, StartGoal(k) \/ EndDecline(k) PROVE UNCHANGED <<pc, running, drive>>
  BY <1>7 DEF StartGoal, StorePlan, EndDecline, FinishDecline, runVars, supVars
<1>8. ASSUME NEW k \in Console, NEW t \in Task, NEW approve \in BOOLEAN, DecideTask(k, t, approve)
      PROVE UNCHANGED <<pc, running, drive>>
  BY <1>8 DEF DecideTask, Answered, runVars
<1>9. HandleCancelGoal \/ Elapse \/ UNCHANGED allVars => UNCHANGED <<pc, running, drive>>
  BY DEF HandleCancelGoal, CancelRun, Elapse, TimePasses, runVars, supVars, allVars, workerVars
<1>. QED
  BY <1>1, <1>2, <1>3, <1>4, <1>5, <1>6, <1>7, <1>8, <1>9 DEF SupNext, Drive, Request

LEMMA DriverInvHolds == SupSpec => []DriverInv
<1>1. SupInit => DriverInv
  BY DEF SupInit, WorkerInit, DriverInv, OneDriver, Step
<1>2. WorkerInv /\ DriverInv /\ [SupNext]_allVars => DriverInv'
  BY DriverStep
<1>. QED
  BY <1>1, <1>2, SupWorkerInv, PTL DEF SupSpec

\* Never two goroutines for one goal: a goroutine exists only under the flag, Start makes one
\* only when the flag is clear, and the deferred reset clears it only when the last cycle has
\* returned (Start, drive).
THEOREM OneDriverAlways == SupSpec => []OneDriver
<1>1. DriverInv => OneDriver
  BY DEF DriverInv
<1>. QED
  BY <1>1, DriverInvHolds, PTL
-----------------------------------------------------------------------------
(***************************************************************************)
(* Consent, under the one name.                                            *)
(***************************************************************************)
SupInv == DriverInv /\ ConsentInv /\ WorkerTypeOK

LEMMA DriverHasNoRival ==
  ASSUME DriverInv, NEW v \in Worker, drive[v] # "none"
  PROVE  \A w \in Worker : w # v => pc[w] \notin Step
BY DEF DriverInv, OneDriver

LEMMA TheOneCycle ==
  ASSUME DriverInv, NEW v \in Worker, DriveCycle(v) \/ DriveStep(v) \/ StoreFails(v)
  PROVE  /\ \A w \in Worker : w # v => pc[w] \notin Step
         /\ NoRival(v)
<1>1. drive[v] # "none"
  BY DEF DriveCycle, DriveStep, StoreFails, Abort, DriverInv
<1>. QED
  BY <1>1, DriverHasNoRival DEF NoRival, Executing, Step

LEMMA RestartKeepsConsent ==
  ASSUME ConsentInv, Restart
  PROVE  Copies' /\ NoEffectWithoutConsent'
<1>1. \A w \in Worker : ~Executing(w)' /\ pc'[w] = "error"
  BY DEF Restart, Executing
<1>2. state' = state /\ approved' = approved /\ calls' = calls
  BY DEF Restart, Vanish, taskVars, leaseVars
<1>. QED
  BY <1>1, <1>2
     DEF Copies, CopiesAreTrue, LiveMeansMine, PermissionIsTrue, ParkedIsUnanswered,
         NoEffectWithoutConsent, ConsentInv

LEMMA TypesStep ==
  ASSUME WorkerInv, WorkerTypeOK, [SupNext]_allVars
  PROVE  WorkerTypeOK'
<1>1. CASE Restart
  <2>1. WorkerInv'
    BY <1>1, RestartKeepsWorkerInv
  <2>2. calls' = calls /\ checkpoint' = checkpoint /\ aborts' = aborts + 1 /\ aborts < MaxAborts
    BY <1>1 DEF Restart
  <2>. QED
    BY <2>1, <2>2, Ceilings DEF WorkerTypeOK, WorkerInv, CycleTypeOK
<1>2. CASE ~Restart
  <2>1. [WorkerNext]_workerVars
    BY <1>2, SupStepIsAWorkerStep
  <2>. QED
    BY <2>1, WorkerTypesStep
<1>. QED
  BY <1>1, <1>2

LEMMA SupConsentStep ==
  ASSUME SupInv, [SupNext]_allVars
  PROVE  Copies' /\ NoEffectWithoutConsent'
<1>. USE DEF SupInv
<1>1. CASE Restart
  BY <1>1, RestartKeepsConsent
<1>2. CASE ~Restart
  <2>1. NoEffectWithoutConsent'
    BY <1>2, SupStepIsAWorkerStep, EffectStep
  <2>2. ASSUME NEW v \in Worker, CycleOf(v), DriveCycle(v) \/ DriveStep(v) \/ StoreFails(v)
        PROVE  Copies'
    BY <2>2, TheOneCycle, CycleKeepsCopies DEF CycleOf
  <2>. QED
    BY <1>2, <2>1, <2>2, SupStepCases, OutsideKeepsCopies
<1>. QED
  BY <1>1, <1>2

LEMMA SupInvHolds == SupSpec => []SupInv
<1>1. SupInit => Copies /\ NoEffectWithoutConsent /\ WorkerTypeOK
  BY ConsentInit, WorkerInitInv, Ceilings
     DEF SupInit, WorkerInit, WorkerTypeOK, WorkerInv, CycleTypeOK
<1>2. WorkerInv /\ StoreInv /\ DriverInv /\ Copies /\ NoEffectWithoutConsent /\ WorkerTypeOK
      /\ [SupNext]_allVars => Copies' /\ NoEffectWithoutConsent' /\ WorkerTypeOK'
  BY SupConsentStep, TypesStep DEF SupInv, ConsentInv, Copies
<1>3. WorkerInv /\ StoreInv /\ DriverInv /\ Copies /\ NoEffectWithoutConsent /\ WorkerTypeOK
      => SupInv
  BY DEF SupInv, ConsentInv, Copies
<1>. QED
  BY <1>1, <1>2, <1>3, SupWorkerInv, DriverInvHolds, SupervisorImplementsStore, StoreInvHolds, PTL
     DEF SupSpec

\* The approval gate in the deployed process, whose workers all lease as "herosd": no tool of a
\* gated task runs before a person has approved it, through restarts, failing store calls, late
\* approvals and cancels (buildWorker, RunOnce, decideTask).
THEOREM DriverAsksFirst == SupSpec => []NoEffectWithoutConsent
<1>1. SupInv => NoEffectWithoutConsent
  BY DEF SupInv, ConsentInv
<1>. QED
  BY <1>1, SupInvHolds, PTL
-----------------------------------------------------------------------------
(***************************************************************************)
(* The retry ladder.  A claim is charged to a task's attempts and a call   *)
(* follows a claim, so a task is not called more often than it is claimed; *)
(* a task that can be claimed again has a call to spare (Room), or a cycle *)
(* that called it was cut short.                                           *)
(***************************************************************************)
Taken == Terminal \cup {"running"}
Room(t) == calls[t] < MaxAttemptsPerTask + aborts
Idle(t) == \A w \in Worker : Executing(w) => Job(w) # t

\* With one driver nobody takes a task away from the cycle that acts on it.
SoleHolder == \A w \in Worker : Executing(w) => StillMine(w)

NeverInterrupted == \A w \in Worker : cycle[w].answer # "interrupted"

CallsWithinAttempts ==
  /\ \A t \in Task : calls[t] <= attempt[t]
  /\ \A w \in Worker : pc[w] = "gate" => calls[Job(w)] < attempt[Job(w)]

RoomWhereNeeded ==
  /\ \A t \in Task : state[t] \notin Taken => Room(t)
  /\ \A t \in Task : state[t] = "running" /\ goal.state \notin GoalTerminal /\ Idle(t) => Room(t)
  /\ \A w \in Worker : pc[w] = "gate" => Room(Job(w))

Ladder ==
  SoleHolder /\ NeverInterrupted /\ CallsWithinAttempts /\ RoomWhereNeeded /\ RetryLadderBounded

\* No finished task comes back and none starts to run.
NobodyStarts ==
  \A t \in Task : /\ state'[t] \notin Taken => state[t] \notin Taken
                  /\ state'[t] = "running" => state[t] = "running"

LEMMA EndedGoalStays ==
  ASSUME SupInv, [SupNext]_allVars, goal'.state \notin GoalTerminal
  PROVE  goal.state \notin GoalTerminal
BY SupStepIsAStoreStep, EndedStaysEnded DEF SupInv, ConsentInv, StoreInv, StoreStep

LEMMA HeldWhileExecuting ==
  ASSUME SupInv, Ladder, NEW w \in Worker, Executing(w)
  PROVE  /\ Job(w) \in Task /\ state[Job(w)] \in Taken
         /\ attempt[Job(w)] = cycle[w].try /\ Holds(w)
<1>1. Job(w) \in Task /\ Now(w) \in Nat
  BY DEF SupInv, ConsentInv, WorkerInv, CyclesAreClients, Executing, Job, Now, StoreTypeOK, Instant
<1>2. StillMine(w) /\ expiry[Job(w)] = Now(w) + Lease /\ attempt[Job(w)] = cycle[w].try
  BY DEF Ladder, SoleHolder, SupInv, ConsentInv, CopiesAreTrue
<1>3. leasedBy[Job(w)] # Nobody
  BY <1>2, Callers, StoreConstants DEF StillMine
<1>4. state[Job(w)] \in Taken
  BY <1>1, <1>3 DEF SupInv, ConsentInv, StoreInv, LeaseOnRunning, Taken, Terminal
<1>. QED
  BY <1>1, <1>2, <1>4, StoreConstants DEF Holds, Held, StillMine

\* What leaves the calls, the claims and the leases alone: nearly everything, a crash included.
LEMMA CalmKeepsLadder ==
  ASSUME SupInv, Ladder, [SupNext]_allVars, NobodyStarts, WorkerTypeOK',
         UNCHANGED <<calls, attempt, leasedBy>>, aborts' = aborts \/ aborts' = aborts + 1,
         \A w \in Worker : Executing(w)' => /\ Executing(w) /\ pc'[w] = pc[w]
                                            /\ cycle'[w] = cycle[w],
         \A w \in Worker : cycle'[w].answer # "interrupted",
         aborts' = aborts => goal'.state \in GoalTerminal
                               \/ \A w \in Worker : Executing(w) => Executing(w)'
  PROVE  Ladder'
<1>1. /\ calls \in [Task -> Nat] /\ attempt \in [Task -> Nat] /\ aborts \in Nat
      /\ MaxAttemptsPerTask \in Nat
  BY Ceilings DEF SupInv, WorkerTypeOK, StoreTypeOK
<1>2. SoleHolder' /\ NeverInterrupted'
  BY DEF Ladder, SoleHolder, NeverInterrupted, StillMine, Job
<1>3. CallsWithinAttempts'
  BY DEF Ladder, CallsWithinAttempts, Job, Executing
<1>4. RetryLadderBounded'
  BY <1>1 DEF Ladder, RetryLadderBounded
<1>5. \A t \in Task : Room(t) => Room(t)'
  BY <1>1 DEF Room
<1>6. \A t \in Task : aborts' = aborts + 1 => Room(t)'
  BY <1>1 DEF Room, Ladder, RetryLadderBounded
<1>7. \A t \in Task : state'[t] \notin Taken => Room(t)'
  BY <1>5 DEF NobodyStarts, Ladder, RoomWhereNeeded
<1>8. ASSUME NEW t \in Task, state'[t] = "running", goal'.state \notin GoalTerminal, Idle(t)'
      PROVE  Room(t)'
  <2>1. CASE aborts' = aborts
    <3>1. Idle(t)
      BY <1>8, <2>1 DEF Idle, Job
    <3>. QED
      BY <1>5, <1>8, <3>1, EndedGoalStays DEF NobodyStarts, Ladder, RoomWhereNeeded
  <2>. QED
    BY <1>6, <2>1
<1>9. ASSUME NEW w \in Worker, pc'[w] = "gate" PROVE Room(Job(w))'
  <2>1. pc[w] = "gate" /\ cycle'[w] = cycle[w]
    BY <1>9 DEF Executing
  <2>2. Job(w) \in Task
    BY <2>1 DEF SupInv, ConsentInv, WorkerInv, CyclesAreClients, Job
  <2>. QED
    BY <1>1, <2>1, <2>2 DEF Ladder, RoomWhereNeeded, Room, Job
<1>. QED
  BY <1>2, <1>3, <1>4, <1>7, <1>8, <1>9 DEF Ladder, RoomWhereNeeded

\* The driver moves on with the task it has; nobody else moves.
Alone(v) == \A w \in Worker : w # v => ~Executing(w) /\ ~Executing(w)' /\ cycle'[w] = cycle[w]

LEMMA ClaimKeepsLadder ==
  ASSUME SupInv, Ladder, NEW v \in Worker, Alone(v), TakeTask(v)
  PROVE  Ladder'
<1>1. PICK t \in Task :
        /\ ClientClaim(t, LeaseName[v], Now(v))
        /\ Go(v, "gate", [cycle[v] EXCEPT !.task = t, !.try = attempt'[t],
                                          !.permitted = approved[t]])
  BY DEF TakeTask
<1>. DEFINE c == [cycle[v] EXCEPT !.task = t, !.try = attempt'[t], !.permitted = approved[t]]
<1>2. /\ cycle'[v] = c /\ pc'[v] = "gate" /\ c.task = t /\ c.answer = cycle[v].answer
      /\ ~Executing(v)
  BY <1>1, GoMovesOne
     DEF SupInv, ConsentInv, WorkerInv, CycleTypeOK, Cycle, TakeTask, Executing
<1>. HIDE DEF c
<1>3. /\ leasedBy' = [leasedBy EXCEPT ![t] = LeaseName[v]]
      /\ attempt' = [attempt EXCEPT ![t] = @ + 1]
      /\ state' = [state EXCEPT ![t] = "running"]
      /\ goal.state = "running" /\ goal' = goal
      /\ state[t] \in {"pending", "ready", "running"}
  BY <1>1 DEF ClientClaim, Claim, ClaimableSet
<1>4. calls' = calls /\ aborts' = aborts
  BY DEF TakeTask, ghosts
<1>5. /\ calls \in [Task -> Nat] /\ attempt \in [Task -> Nat] /\ aborts \in Nat
      /\ state \in [Task -> TaskState] /\ leasedBy \in [Task -> WorkerId \cup {Nobody}]
  BY Ceilings DEF SupInv, WorkerTypeOK, StoreTypeOK
<1>6. \A u \in Task : Idle(u)
  BY <1>2 DEF Alone, Idle
<1>7. Room(t)
  BY <1>3, <1>6 DEF Ladder, RoomWhereNeeded, Taken, Terminal, GoalTerminal
<1>8. SoleHolder' /\ NeverInterrupted'
  BY <1>2, <1>3, <1>5 DEF Alone, Ladder, SoleHolder, NeverInterrupted, StillMine, Job
<1>9. CallsWithinAttempts'
  BY <1>2, <1>3, <1>4, <1>5 DEF Alone, Ladder, CallsWithinAttempts, Job, Executing
<1>10. RoomWhereNeeded'
  <2>1. \A u \in Task : Room(u)' <=> Room(u)
    BY <1>4 DEF Room
  <2>2. \A u \in Task : u # t => state'[u] = state[u]
    BY <1>3, <1>5
  <2>3. state'[t] = "running" /\ ~Idle(t)'
    BY <1>2, <1>3, <1>5 DEF Idle, Executing, Job
  <2>4. \A w \in Worker : pc'[w] = "gate" => Job(w)' = t
    BY <1>2 DEF Alone, Executing, Job
  <2>. QED
    BY <1>3, <1>6, <1>7, <2>1, <2>2, <2>3, <2>4 DEF Ladder, RoomWhereNeeded, Taken, Room
<1>11. RetryLadderBounded'
  BY <1>4 DEF Ladder, RetryLadderBounded
<1>. QED
  BY <1>8, <1>9, <1>10, <1>11 DEF Ladder
LEMMA InvokeKeepsLadder ==
  ASSUME SupInv, Ladder, NEW v \in Worker, Alone(v), Invoke(v)
  PROVE  Ladder'
<1>1. /\ pc[v] = "gate" /\ pc'[v] = "tool" /\ cycle'[v] = cycle[v] /\ Executing(v)
      /\ calls' = [calls EXCEPT ![Job(v)] = @ + 1]
      /\ UNCHANGED <<state, attempt, leasedBy, goal, aborts>>
  BY GoMovesOne DEF Invoke, SupInv, ConsentInv, Executing, storeVars, taskVars, leaseVars
<1>2. /\ calls \in [Task -> Nat] /\ attempt \in [Task -> Nat] /\ aborts \in Nat
      /\ MaxAttemptsPerTask \in Nat
  BY Ceilings DEF SupInv, WorkerTypeOK, StoreTypeOK
<1>3. Job(v) \in Task /\ state[Job(v)] \in Taken
  BY <1>1, HeldWhileExecuting
<1>4. calls[Job(v)] < attempt[Job(v)] /\ Room(Job(v))
  BY <1>1 DEF Ladder, CallsWithinAttempts, RoomWhereNeeded
<1>5. \A t \in Task : t # Job(v) => calls'[t] = calls[t] /\ (Room(t)' <=> Room(t))
  BY <1>1, <1>2 DEF Room
<1>6. calls'[Job(v)] = calls[Job(v)] + 1
  BY <1>1, <1>2, <1>3
<1>7. SoleHolder' /\ NeverInterrupted'
  BY <1>1 DEF Alone, Ladder, SoleHolder, NeverInterrupted, StillMine, Job
<1>8. \A w \in Worker : pc'[w] # "gate"
  BY <1>1 DEF Alone, Executing
<1>9. CallsWithinAttempts'
  BY <1>1, <1>2, <1>3, <1>4, <1>5, <1>6, <1>8 DEF Ladder, CallsWithinAttempts
<1>10. RetryLadderBounded'
  BY <1>1, <1>2, <1>3, <1>4, <1>5, <1>6 DEF Ladder, RetryLadderBounded, Room
<1>11. \A t \in Task : Idle(t)' => t # Job(v) /\ Idle(t)
  BY <1>1 DEF Alone, Idle, Job, Executing
<1>12. RoomWhereNeeded'
  BY <1>1, <1>3, <1>5, <1>8, <1>11 DEF Ladder, RoomWhereNeeded
<1>. QED
  BY <1>7, <1>9, <1>10, <1>12 DEF Ladder

LEMMA AnswerKeepsLadder ==
  ASSUME SupInv, Ladder, [SupNext]_allVars, NEW v \in Worker, Alone(v),
         Executing(v), Executing(v)', pc'[v] # "gate", cycle'[v].task = cycle[v].task,
         cycle'[v].answer # "interrupted", UNCHANGED <<state, attempt, leasedBy, calls, aborts>>
  PROVE  Ladder'
<1>1. \A w \in Worker : pc'[w] # "gate" /\ (Executing(w)' => w = v)
  BY DEF Alone, Executing
<1>2. SoleHolder' /\ NeverInterrupted'
  BY <1>1 DEF Alone, Ladder, SoleHolder, NeverInterrupted, StillMine, Job
<1>3. \A t \in Task : (Idle(t)' => Idle(t)) /\ (Room(t)' <=> Room(t))
  BY DEF Alone, Idle, Room, Job
<1>. QED
  BY <1>1, <1>2, <1>3, EndedGoalStays
     DEF Ladder, CallsWithinAttempts, RoomWhereNeeded, RetryLadderBounded

LEMMA LettingGoKeepsLadder ==
  ASSUME SupInv, Ladder, [SupNext]_allVars, NEW v \in Worker, Alone(v),
         Executing(v), ~Executing(v)', cycle'[v].answer # "interrupted",
         UNCHANGED <<attempt, calls, aborts>>,
         NEW next, state' = [state EXCEPT ![Job(v)] = next], next # "running",
         next \notin Taken => Room(Job(v))
  PROVE  Ladder'
<1>1. \A w \in Worker : ~Executing(w)' /\ pc'[w] # "gate"
  BY DEF Alone, Executing
<1>2. SoleHolder' /\ NeverInterrupted'
  BY <1>1 DEF Alone, Ladder, SoleHolder, NeverInterrupted
<1>3. Job(v) \in Task /\ state \in [Task -> TaskState]
  BY HeldWhileExecuting DEF SupInv, WorkerTypeOK, StoreTypeOK
<1>4. \A t \in Task : Room(t)' <=> Room(t)
  BY DEF Room
<1>5. \A t \in Task : t # Job(v) => Idle(t)
  BY DEF Alone, Idle
<1>6. RoomWhereNeeded'
  BY <1>1, <1>3, <1>4, <1>5, EndedGoalStays DEF Ladder, RoomWhereNeeded
<1>. QED
  BY <1>1, <1>2, <1>6 DEF Ladder, CallsWithinAttempts, RetryLadderBounded

LEMMA SettleKeepsLadder ==
  ASSUME SupInv, Ladder, [SupNext]_allVars, NEW v \in Worker, Alone(v), Settle(v)
  PROVE  Ladder'
<1>1. Executing(v) /\ Holds(v) /\ attempt[Job(v)] = cycle[v].try /\ Job(v) \in Task
  BY HeldWhileExecuting DEF Settle, Executing
<1>2. calls' = calls /\ aborts' = aborts
  BY DEF Settle, ghosts
<1>3. cycle[v].answer # "interrupted"
  BY DEF Ladder, NeverInterrupted
<1>4. NoCycle.answer # "interrupted" /\ Ledger(v).answer # "interrupted"
  BY DEF NoCycle, Ledger, NoAnswer
<1>5. CASE Succeed(v)
  <2>1. pc'[v] = "checkpoint" /\ cycle'[v] = Ledger(v)
    BY <1>5, GoMovesOne DEF Succeed, SupInv, ConsentInv
  <2>2. state' = [state EXCEPT ![Job(v)] = "succeeded"] /\ attempt' = attempt
    BY <1>5 DEF Succeed, Complete
  <2>. QED
    BY <1>1, <1>2, <1>4, <2>1, <2>2, LettingGoKeepsLadder DEF Executing, Taken, Terminal
<1>6. CASE Fail(v)
  <2>1. pc'[v] = "propagate" /\ cycle'[v] = NoCycle
    BY <1>6, GoMovesOne DEF Fail, SupInv, ConsentInv
  <2>2. state' = [state EXCEPT ![Job(v)] = "failed"] /\ attempt' = attempt
    BY <1>6 DEF Fail, Complete
  <2>. QED
    BY <1>1, <1>2, <1>4, <2>1, <2>2, LettingGoKeepsLadder DEF Executing, Taken, Terminal
<1>7. CASE Retry(v)
  <2>1. pc'[v] = "more" /\ cycle'[v] = NoCycle
    BY <1>7, GoMovesOne DEF Retry, Return, SupInv, ConsentInv
  <2>2. state' = [state EXCEPT ![Job(v)] = "ready"] /\ attempt' = attempt
    BY <1>7 DEF Retry, Release
  <2>3. cycle[v].try < MaxAttemptsPerTask
    <3>1. cycle[v].try \in Nat
      BY DEF SupInv, ConsentInv, WorkerInv, CycleTypeOK, Cycle
    <3>. QED
      BY <1>7, <3>1, Ceilings DEF Retry, GivesUp
  <2>4. Room(Job(v))
    <3>1. /\ calls[Job(v)] \in Nat /\ attempt[Job(v)] \in Nat /\ aborts \in Nat
          /\ calls[Job(v)] <= attempt[Job(v)]
      BY <1>1 DEF SupInv, WorkerTypeOK, StoreTypeOK, Ladder, CallsWithinAttempts
    <3>. QED
      BY <1>1, <2>3, <3>1, Ceilings DEF Room
  <2>. QED
    BY <1>1, <1>2, <1>4, <2>1, <2>2, <2>4, LettingGoKeepsLadder DEF Executing
<1>. QED
  BY <1>1, <1>3, <1>5, <1>6, <1>7 DEF Settle, HandBack, LoseLease

LEMMA ParkKeepsLadder ==
  ASSUME SupInv, Ladder, [SupNext]_allVars, NEW v \in Worker, Alone(v), Park(v)
  PROVE  Ladder'
<1>1. Executing(v) /\ Holds(v) /\ pc[v] = "gate" /\ Room(Job(v))
  BY HeldWhileExecuting DEF Park, Executing, Ladder, RoomWhereNeeded
<1>2. Complete(v, Job(v), LeaseName[v], "awaiting_approval", Now(v)) /\ Return(v, "more")
  BY <1>1 DEF Park
<1>3. pc'[v] = "more" /\ cycle'[v] = NoCycle
  BY <1>2, GoMovesOne DEF Return, SupInv, ConsentInv
<1>4. state' = [state EXCEPT ![Job(v)] = "awaiting_approval"] /\ attempt' = attempt
  BY <1>2 DEF Complete
<1>5. calls' = calls /\ aborts' = aborts /\ NoCycle.answer # "interrupted"
  BY DEF Park, ghosts, NoCycle, NoAnswer
<1>. QED
  BY <1>1, <1>3, <1>4, <1>5, LettingGoKeepsLadder DEF Executing

LEMMA SpendKeepsLadder ==
  ASSUME SupInv, WorkerTypeOK', Ladder, [SupNext]_allVars, NEW v \in Worker, Alone(v), RecordSpend(v)
  PROVE  Ladder'
<1>. DEFINE c == [cycle[v] EXCEPT !.seen = [Seen(v) EXCEPT !.iterations = @ + 1]]
<1>1. /\ UNCHANGED <<state, attempt, leasedBy, calls, aborts>>
      /\ pc[v] = "spend" /\ Executing(v)
  BY DEF RecordSpend, SaveGoal, storeVars, taskVars, leaseVars, ghosts, Executing
<1>2. c.task = cycle[v].task /\ c.answer = cycle[v].answer
  BY DEF SupInv, ConsentInv, WorkerInv, CycleTypeOK, Cycle
<1>3. cycle[v].answer # "interrupted" /\ NoCycle.answer # "interrupted"
  BY DEF Ladder, NeverInterrupted, NoCycle, NoAnswer
<1>4. CASE Go(v, "settle", c)
  <2>1. pc'[v] = "settle" /\ cycle'[v] = c
    BY <1>4, GoMovesOne DEF SupInv, ConsentInv
  <2>. QED
    BY <1>1, <1>2, <1>3, <2>1, AnswerKeepsLadder DEF Executing
<1>5. CASE RefuseTerminalOverwrite([Seen(v) EXCEPT !.iterations = @ + 1]) /\ UNCHANGED storeVars
           /\ Return(v, "stop")
  <2>1. pc'[v] = "stop" /\ cycle'[v] = NoCycle
    BY <1>5, GoMovesOne DEF SupInv, ConsentInv, Return
  <2>2. goal'.state \in GoalTerminal
    BY <1>5 DEF RefuseTerminalOverwrite, storeVars
  <2>3. \A w \in Worker : ~Executing(w)' /\ cycle'[w].answer # "interrupted"
    BY <1>3, <2>1 DEF Alone, Executing, Ladder, NeverInterrupted
  <2>. QED
    BY <1>1, <2>2, <2>3, CalmKeepsLadder DEF NobodyStarts
<1>. QED
  BY <1>4, <1>5 DEF RecordSpend
LEMMA QuietCycleKeepsLadder ==
  ASSUME SupInv, WorkerTypeOK', Ladder, [SupNext]_allVars, NEW v \in Worker, Alone(v),
         ~Executing(v), NobodyStarts, UNCHANGED <<calls, attempt, leasedBy, aborts>>,
         NEW step \in {"claim", "conclude", "idle", "grow", "stop", "more", "propagate"},
         NEW c, Go(v, step, c), c.answer = NoAnswer \/ c.answer = cycle[v].answer
  PROVE  Ladder'
<1>1. pc'[v] = step /\ cycle'[v] = c
  BY GoMovesOne DEF SupInv, ConsentInv
<1>2. \A w \in Worker : ~Executing(w)' /\ ~Executing(w)
  BY <1>1 DEF Alone, Executing
<1>3. \A w \in Worker : cycle'[w].answer # "interrupted"
  BY <1>1 DEF Alone, Ladder, NeverInterrupted, NoAnswer
<1>. QED
  BY <1>2, <1>3, CalmKeepsLadder

LEMMA AbortKeepsLadder ==
  ASSUME SupInv, WorkerTypeOK', Ladder, [SupNext]_allVars, NEW v \in Worker, Alone(v), Abort(v)
  PROVE  Ladder'
<1>1. /\ NobodyStarts /\ UNCHANGED <<calls, attempt, leasedBy>>
      /\ aborts' = aborts + 1 /\ aborts \in Nat
  BY Ceilings
     DEF Abort, Vanish, taskVars, leaseVars, NobodyStarts, SupInv, WorkerTypeOK
<1>2. pc'[v] \in {"error", "more"} /\ cycle'[v] = NoCycle
  BY GoMovesOne DEF Abort, Return, SupInv, ConsentInv
<1>3. \A w \in Worker : ~Executing(w)' /\ cycle'[w].answer # "interrupted"
  BY <1>2 DEF Alone, Executing, Ladder, NeverInterrupted, NoCycle, NoAnswer
<1>. QED
  BY <1>1, <1>3, CalmKeepsLadder

LEMMA CycleKeepsLadder ==
  ASSUME SupInv, WorkerTypeOK', Ladder, [SupNext]_allVars, NEW v \in Worker, Alone(v), CycleOf(v),
         DriveCycle(v) \/ DriveStep(v) \/ StoreFails(v)
  PROVE  Ladder'
<1>0. NoCycle.answer = NoAnswer /\ Ledger(v).answer = NoAnswer
  BY DEF NoCycle, Ledger
<1>1. CASE Begin(v)
  <2>1. pc[v] \in Resting /\ NobodyStarts /\ UNCHANGED <<calls, attempt, leasedBy, aborts>>
    BY <1>1 DEF Begin, GoalNotClaimable, Observe, CeilingReached, CycleStarts, storeVars, taskVars,
       leaseVars, ghosts, NobodyStarts
  <2>2. \E step \in {"claim", "conclude", "stop"} : \E c : Go(v, step, c) /\ c.answer = NoAnswer
    <3>. DEFINE start(g) == [NoCycle EXCEPT !.now = clock, !.seen = g]
    <3>1. \A g : start(g).answer = NoAnswer
      BY DEF NoCycle
    <3>2. \/ Go(v, "stop", NoCycle) \/ Go(v, "claim", start(goal))
          \/ Go(v, "conclude", start(Ended(goal, "failed", "ceiling_exceeded")))
      BY <1>1 DEF Begin, GoalNotClaimable, Observe, CeilingReached, Return
    <3>. HIDE DEF start
    <3>. QED
      BY <1>0, <3>1, <3>2
  <2>. QED
    BY <2>1, <2>2, QuietCycleKeepsLadder DEF Executing, Resting
<1>2. CASE NothingToClaim(v) \/ Replan(v) \/ BlockedOnApproval(v) \/ ComeBackLater(v)
  <2>1. ~Executing(v) /\ NobodyStarts /\ UNCHANGED <<calls, attempt, leasedBy, aborts>>
    BY <1>2 DEF NothingToClaim, Replan, BlockedOnApproval, ComeBackLater, Quiet, Executing,
       storeVars, taskVars, leaseVars, ghosts, NobodyStarts
  <2>2. \E step \in {"idle", "grow", "stop", "more"} : \E c : Go(v, step, c) /\ c.answer = NoAnswer
    <3>. DEFINE grown == [NoCycle EXCEPT !.adding = Present(state) \cup Proposed(state)]
    <3>1. grown.answer = NoAnswer
      BY DEF NoCycle
    <3>2. \/ Go(v, "idle", Ledger(v)) \/ Go(v, "stop", NoCycle) \/ Go(v, "more", NoCycle)
          \/ Go(v, "grow", grown)
      BY <1>2 DEF NothingToClaim, Replan, BlockedOnApproval, ComeBackLater, Return
    <3>. HIDE DEF grown
    <3>. QED
      BY <1>0, <3>1, <3>2
  <2>. QED
    BY <2>1, <2>2, QuietCycleKeepsLadder
<1>3. CASE PlanOutgrown(v) \/ DeclareSuccess(v) \/ DeclareExhausted(v) \/ DeclareStalled(v)
  <2>1. ~Executing(v) /\ NobodyStarts /\ UNCHANGED <<calls, attempt, leasedBy, aborts>>
    BY <1>3 DEF PlanOutgrown, DeclareSuccess, DeclareExhausted, DeclareStalled, Quiet, Executing,
       storeVars, taskVars, leaseVars, ghosts, NobodyStarts
  <2>2. PICK end, why : Concluding(v, end, why)
    BY <1>3 DEF PlanOutgrown, DeclareSuccess, DeclareExhausted, DeclareStalled
  <2>. DEFINE c == [cycle[v] EXCEPT !.seen = Ended(@, end, why)]
  <2>3. Go(v, "conclude", c) /\ c.answer = cycle[v].answer
    BY <2>2 DEF Concluding, SupInv, ConsentInv, WorkerInv, CycleTypeOK, Cycle
  <2>. HIDE DEF c
  <2>. QED
    BY <2>1, <2>3, QuietCycleKeepsLadder
<1>4. CASE Propagate(v) \/ WriteCheckpoint(v) \/ Grow(v) \/ Conclude(v)
  <2>1. ~Executing(v)
    BY <1>4 DEF Propagate, WriteCheckpoint, Grow, Conclude, Executing
  <2>2. NobodyStarts /\ UNCHANGED <<calls, attempt, leasedBy, aborts>>
    <3>1. CASE Propagate(v) \/ Grow(v)
      BY <3>1 DEF Propagate, Sweep, Grow, SaveDAG, leaseVars, ghosts, NobodyStarts, Taken, Terminal,
         Absent, SupInv, WorkerTypeOK, StoreTypeOK, NeedsDead, Unfinished
    <3>2. CASE WriteCheckpoint(v) \/ Conclude(v)
      BY <3>2 DEF WriteCheckpoint, Conclude, SaveGoal, storeVars, taskVars, leaseVars, ghosts,
         NobodyStarts
    <3>. QED
      BY <1>4, <3>1, <3>2
  <2>3. \E step \in {"propagate", "stop", "more"} : Go(v, step, NoCycle)
    BY <1>4 DEF Propagate, WriteCheckpoint, Grow, Conclude, Return
  <2>. QED
    BY <1>0, <2>1, <2>2, <2>3, QuietCycleKeepsLadder
<1>5. CASE ToolReturns(v)
  <2>1. PICK answer \in Answer : Go(v, "spend", [cycle[v] EXCEPT !.answer = answer])
    BY <1>5 DEF ToolReturns
  <2>. DEFINE c == [cycle[v] EXCEPT !.answer = answer]
  <2>2. pc'[v] = "spend" /\ cycle'[v] = c
    BY <2>1, GoMovesOne DEF SupInv, ConsentInv
  <2>3. c.task = cycle[v].task
    BY DEF SupInv, ConsentInv, WorkerInv, CycleTypeOK, Cycle
  <2>4. UNCHANGED <<state, attempt, leasedBy, calls, aborts>> /\ pc[v] = "tool"
    BY <1>5 DEF ToolReturns, storeVars, taskVars, leaseVars, ghosts
  <2>5. cycle'[v].answer # "interrupted"
    <3>1. ~DriveCycle(v)
      BY <2>4 DEF DriveCycle, Begin, GoalNotClaimable, Observe, CeilingReached, CycleStarts, Resting
    <3>2. ~StoreFails(v)
      BY <2>2, GoMovesOne DEF StoreFails, Abort, Return, SupInv, ConsentInv
    <3>. QED
      BY <3>1, <3>2 DEF DriveStep
  <2>. QED
    BY <2>2, <2>3, <2>4, <2>5, AnswerKeepsLadder DEF Executing
<1>. QED
  BY <1>1, <1>2, <1>3, <1>4, <1>5, AbortKeepsLadder, ClaimKeepsLadder, InvokeKeepsLadder,
     SpendKeepsLadder, ParkKeepsLadder, SettleKeepsLadder DEF CycleOf, Continue
LEMMA LadderStep ==
  ASSUME SupInv, Ladder, [SupNext]_allVars
  PROVE  Ladder'
<1>1. WorkerTypeOK'
  BY TypesStep DEF SupInv, ConsentInv
<1>2. CASE Restart
  <2>1. /\ NobodyStarts /\ UNCHANGED <<calls, attempt, leasedBy>>
        /\ aborts' = aborts + 1 /\ aborts \in Nat
    BY <1>2, Ceilings
       DEF Restart, Vanish, taskVars, leaseVars, NobodyStarts, SupInv, WorkerTypeOK
  <2>2. \A w \in Worker : ~Executing(w)' /\ cycle'[w].answer # "interrupted"
    BY <1>2 DEF Restart, Executing, NoCycle, NoAnswer
  <2>. QED
    BY <1>1, <2>1, <2>2, CalmKeepsLadder
<1>3. ASSUME NEW v \in Worker, CycleOf(v), DriveCycle(v) \/ DriveStep(v) \/ StoreFails(v)
      PROVE  Ladder'
  <2>1. OthersStay(v) /\ \A w \in Worker : w # v => pc[w] \notin Step
    BY <1>3, CycleStepCases, TheOneCycle DEF CycleOf, SupInv, ConsentInv
  <2>2. Alone(v)
    BY <2>1 DEF OthersStay, Alone, Executing, Step
  <2>. QED
    BY <1>1, <1>3, <2>2, CycleKeepsLadder
<1>4. CASE People \/ TimePasses \/ UNCHANGED workerVars
  <2>1. /\ UNCHANGED <<pc, cycle, calls, attempt, leasedBy, aborts>>
    BY <1>4 DEF People, StorePlan, SaveDAG, CancelRun, Cancel, Answered, Decide, FinishDecline,
       Sweep, TimePasses, Tick, workerVars, runVars, storeVars, taskVars, leaseVars
  <2>2. NobodyStarts
    <3>0. state \in [Task -> TaskState]
      BY DEF SupInv, WorkerTypeOK, StoreTypeOK
    <3>. USE <3>0 DEF NobodyStarts, Taken, Terminal
    <3>1. CASE StorePlan
      BY <3>1 DEF StorePlan, SaveDAG, Absent
    <3>2. CASE CancelRun
      BY <3>2 DEF CancelRun, Cancel
    <3>3. CASE \E k \in Console, t \in Task, approve \in BOOLEAN : Answered(k, t, approve)
      BY <3>3 DEF Answered, Decide
    <3>4. CASE \E k \in Console : FinishDecline(k)
      BY <3>4 DEF FinishDecline, Sweep
    <3>5. CASE TimePasses \/ UNCHANGED workerVars
      BY <3>5 DEF TimePasses, Tick, workerVars, storeVars, taskVars
    <3>. QED
      BY <1>4, <3>1, <3>2, <3>3, <3>4, <3>5 DEF People
  <2>3. \A w \in Worker : Executing(w)' <=> Executing(w)
    BY <2>1 DEF Executing
  <2>. QED
    BY <1>1, <2>1, <2>2, <2>3, CalmKeepsLadder DEF Ladder, NeverInterrupted
<1>. QED
  BY <1>2, <1>3, <1>4, SupStepCases

LEMMA LadderInit == SupInit => Ladder
<1>. SUFFICES ASSUME SupInit PROVE Ladder
  OBVIOUS
<1>1. /\ pc = [w \in Worker |-> "more"] /\ cycle = [w \in Worker |-> NoCycle]
      /\ calls = [t \in Task |-> 0] /\ attempt = [t \in Task |-> 0] /\ aborts = 0
      /\ state = [t \in Task |-> Absent]
  BY DEF SupInit, WorkerInit, StoreInit
<1>2. NoCycle.answer # "interrupted"
  BY DEF NoCycle, NoAnswer
<1>. QED
  BY <1>1, <1>2, Ceilings
     DEF Ladder, SoleHolder, NeverInterrupted, CallsWithinAttempts, RoomWhereNeeded, Room,
         RetryLadderBounded, Executing, Absent

\* The retry ladder ends, for every plan: a task's tool is called at most MaxAttemptsPerTask
\* times, plus once per cycle that was cut short, however often the task was parked, reclaimed
\* or handed back (handleFailure, Claim).
THEOREM LadderEnds == SupSpec => []RetryLadderBounded
<1>1. SupInit => Ladder
  BY LadderInit
<1>2. SupInv /\ Ladder /\ [SupNext]_allVars => Ladder'
  BY LadderStep
<1>3. Ladder => RetryLadderBounded
  BY DEF Ladder
<1>. QED
  BY <1>1, <1>2, <1>3, SupInvHolds, PTL DEF SupSpec
-----------------------------------------------------------------------------
(***************************************************************************)
(* The books.  A cycle works on a copy of the goal row; with one driver    *)
(* the copy is the row's ledger until the cycle has written its            *)
(* checkpoint.                                                             *)
(***************************************************************************)
Carrying == {"claim", "gate", "tool", "spend", "settle", "checkpoint", "idle", "conclude"}

CopyIsCurrent == \A w \in Worker : pc[w] \in Carrying => Seen(w).iterations = goal.iterations

Books == CopyIsCurrent /\ CheckpointWithinLedger

LEMMA CycleKeepsBooks ==
  ASSUME SupInv, Books, NEW v \in Worker, CycleOf(v), OthersStay(v),
         \A w \in Worker : w # v => pc[w] \notin Step
  PROVE  Books'
<1>1. /\ cycle[v] \in Cycle /\ goal.iterations \in Nat /\ checkpoint \in Nat
      /\ checkpoint <= goal.iterations
      /\ pc[v] \in Carrying => Seen(v).iterations = goal.iterations
  BY DEF SupInv, ConsentInv, WorkerInv, CycleTypeOK, WorkerTypeOK, StoreTypeOK, GoalRow, Books,
         CopyIsCurrent, CheckpointWithinLedger
<1>2. SUFFICES ASSUME ~Books'
               PROVE  /\ checkpoint' <= goal'.iterations
                      /\ pc'[v] \in Carrying => cycle'[v].seen.iterations = goal'.iterations
  BY DEF Books, CopyIsCurrent, CheckpointWithinLedger, OthersStay, Carrying, Step, Seen
<1>3. \A step, c : Go(v, step, c) => pc'[v] = step /\ cycle'[v] = c
  BY GoMovesOne DEF SupInv, ConsentInv
<1>4. \A g, end, why : g \in GoalRow => Ended(g, end, why).iterations = g.iterations
  BY DEF Ended, GoalRow
<1>5. goal \in GoalRow /\ Seen(v) \in GoalRow
  BY <1>1 DEF SupInv, WorkerTypeOK, StoreTypeOK, Cycle, Seen
<1>6. NoCycle \in Cycle
  BY NoCycleIsACycle
<1>7. CASE Begin(v)
  <2>. DEFINE start(g) == [NoCycle EXCEPT !.now = clock, !.seen = g]
  <2>1. \A g : start(g).seen = g
    BY <1>6 DEF Cycle
  <2>2. checkpoint' = checkpoint /\ goal' = goal
    BY <1>7 DEF Begin, GoalNotClaimable, Observe, CeilingReached, storeVars, ghosts
  <2>3. \/ Go(v, "stop", NoCycle) \/ Go(v, "claim", start(goal))
        \/ Go(v, "conclude", start(Ended(goal, "failed", "ceiling_exceeded")))
    BY <1>7 DEF Begin, GoalNotClaimable, Observe, CeilingReached, Return
  <2>. HIDE DEF start
  <2>. QED
    BY <1>1, <1>3, <1>4, <1>5, <2>1, <2>2, <2>3 DEF Carrying
<1>8. CASE TakeTask(v)
  <2>1. PICK t \in Task :
          /\ ClientClaim(t, LeaseName[v], Now(v))
          /\ Go(v, "gate", [cycle[v] EXCEPT !.task = t, !.try = attempt'[t],
                                            !.permitted = approved[t]])
    BY <1>8 DEF TakeTask
  <2>. DEFINE c == [cycle[v] EXCEPT !.task = t, !.try = attempt'[t], !.permitted = approved[t]]
  <2>2. c.seen = Seen(v)
    BY <1>1 DEF Cycle, Seen
  <2>3. goal' = goal /\ checkpoint' = checkpoint /\ pc[v] = "claim"
    BY <1>8, <2>1 DEF TakeTask, ClientClaim, Claim, ghosts
  <2>4. Go(v, "gate", c)
    BY <2>1
  <2>. HIDE DEF c
  <2>. QED
    BY <1>1, <1>3, <2>2, <2>3, <2>4 DEF Carrying
<1>9. CASE ToolReturns(v)
  <2>1. PICK answer \in Answer : Go(v, "spend", [cycle[v] EXCEPT !.answer = answer])
    BY <1>9 DEF ToolReturns
  <2>. DEFINE c == [cycle[v] EXCEPT !.answer = answer]
  <2>2. c.seen = Seen(v)
    BY <1>1 DEF Cycle, Seen
  <2>3. goal' = goal /\ checkpoint' = checkpoint /\ pc[v] = "tool"
    BY <1>9 DEF ToolReturns, storeVars, ghosts
  <2>4. Go(v, "spend", c)
    BY <2>1
  <2>. HIDE DEF c
  <2>. QED
    BY <1>1, <1>3, <2>2, <2>3, <2>4 DEF Carrying
<1>10. CASE RecordSpend(v)
  <2>. DEFINE spent == [Seen(v) EXCEPT !.iterations = @ + 1]
              c == [cycle[v] EXCEPT !.seen = spent]
  <2>1. spent.iterations = goal.iterations + 1 /\ c.seen = spent
    BY <1>1, <1>5, <1>10 DEF RecordSpend, Cycle, GoalRow, Carrying
  <2>2. checkpoint' = checkpoint
    BY <1>10 DEF RecordSpend, ghosts
  <2>3. \/ goal' = spent /\ Go(v, "settle", c)
        \/ goal' = goal /\ Go(v, "stop", NoCycle)
    BY <1>10 DEF RecordSpend, SaveGoal, Return, storeVars
  <2>. HIDE DEF spent, c
  <2>. QED
    BY <1>1, <1>3, <2>1, <2>2, <2>3 DEF Carrying
<1>11. CASE Conclude(v)
  <2>1. goal'.iterations = goal.iterations /\ checkpoint' = checkpoint /\ Go(v, "stop", NoCycle)
    BY <1>1, <1>11 DEF Conclude, SaveGoal, Return, storeVars, ghosts, Carrying
  <2>. QED
    BY <1>1, <1>3, <2>1 DEF Carrying
<1>12. CASE WriteCheckpoint(v)
  <2>1. /\ goal' = goal /\ Go(v, "more", NoCycle) /\ Seen(v).iterations = goal.iterations
        /\ checkpoint' \in {checkpoint, Seen(v).iterations}
    BY <1>1, <1>12 DEF WriteCheckpoint, Return, storeVars, Carrying
  <2>. QED
    BY <1>1, <1>3, <2>1 DEF Carrying
<1>13. CASE PlanOutgrown(v) \/ DeclareSuccess(v) \/ DeclareExhausted(v) \/ DeclareStalled(v)
  <2>1. PICK end, why : Concluding(v, end, why)
    BY <1>13 DEF PlanOutgrown, DeclareSuccess, DeclareExhausted, DeclareStalled
  <2>. DEFINE c == [cycle[v] EXCEPT !.seen = Ended(@, end, why)]
  <2>2. Go(v, "conclude", c) /\ c.seen = Ended(Seen(v), end, why)
    BY <1>1, <2>1 DEF Concluding, Cycle, Seen
  <2>3. pc[v] = "idle" /\ goal' = goal /\ checkpoint' = checkpoint
    BY <1>13 DEF PlanOutgrown, DeclareSuccess, DeclareExhausted, DeclareStalled, Quiet, storeVars,
       ghosts
  <2>. HIDE DEF c
  <2>. QED
    BY <1>1, <1>3, <1>4, <1>5, <2>2, <2>3 DEF Carrying
<1>14. CASE NothingToClaim(v) \/ Invoke(v) \/ Settle(v)
  <2>1. Ledger(v).seen = Seen(v)
    BY <1>6 DEF Ledger, Cycle
  <2>2. goal' = goal /\ checkpoint' = checkpoint /\ pc[v] \in Carrying
    BY <1>14 DEF NothingToClaim, Invoke, Settle, Succeed, Fail, Retry, HandBack, LoseLease, Complete,
       Release, storeVars, ghosts, Carrying
  <2>3. \/ \E step \in {"idle", "checkpoint"} : Go(v, step, Ledger(v))
        \/ Go(v, "tool", cycle[v])
        \/ \E step \in {"propagate", "more", "error"} : Go(v, step, NoCycle)
    BY <1>14
       DEF NothingToClaim, Invoke, Settle, Succeed, Fail, Retry, HandBack, LoseLease, Return
  <2>. QED
    BY <1>1, <1>3, <2>1, <2>2, <2>3 DEF Carrying, Seen
<1>15. CASE Park(v) \/ Propagate(v) \/ Grow(v) \/ Replan(v) \/ BlockedOnApproval(v)
            \/ ComeBackLater(v) \/ Abort(v)
  <2>1. goal' = goal /\ checkpoint' = checkpoint
    BY <1>15 DEF Park, Complete, Propagate, Sweep, Grow, SaveDAG, Replan, BlockedOnApproval,
       ComeBackLater, Abort, Vanish, storeVars, ghosts
  <2>2. \E step \in {"propagate", "grow", "stop", "more", "error"} : \E c : Go(v, step, c)
    BY <1>15 DEF Park, Propagate, Grow, Replan, BlockedOnApproval, ComeBackLater, Abort, Return
  <2>. QED
    BY <1>1, <1>3, <2>1, <2>2 DEF Carrying
<1>. QED
  BY <1>7, <1>8, <1>9, <1>10, <1>11, <1>12, <1>13, <1>14, <1>15 DEF CycleOf, Continue

LEMMA BooksStep ==
  ASSUME SupInv, Books, [SupNext]_allVars
  PROVE  Books'
<1>1. CASE Restart
  BY <1>1 DEF Restart, Vanish, Books, CopyIsCurrent, CheckpointWithinLedger, Carrying
<1>2. ASSUME NEW v \in Worker, CycleOf(v), DriveCycle(v) \/ DriveStep(v) \/ StoreFails(v)
      PROVE  Books'
  BY <1>2, CycleStepCases, TheOneCycle, CycleKeepsBooks DEF CycleOf, SupInv, ConsentInv
<1>3. CASE People \/ TimePasses \/ UNCHANGED workerVars
  <2>1. UNCHANGED <<pc, cycle, checkpoint>>
    BY <1>3 DEF People, StorePlan, CancelRun, Answered, FinishDecline, TimePasses, workerVars,
       runVars
  <2>2. goal'.iterations = goal.iterations
    BY <1>3 DEF People, StorePlan, SaveDAG, CancelRun, Cancel, Answered, Decide, FinishDecline,
       Sweep, TimePasses, Tick, workerVars, storeVars, SupInv, WorkerTypeOK, StoreTypeOK, GoalRow
  <2>. QED
    BY <2>1, <2>2 DEF Books, CopyIsCurrent, CheckpointWithinLedger, Seen
<1>. QED
  BY <1>1, <1>2, <1>3, SupStepCases

LEMMA BooksHold == SupSpec => []Books
<1>1. SupInit => Books
  BY DEF SupInit, WorkerInit, StoreInit, Books, CopyIsCurrent, CheckpointWithinLedger, Carrying
<1>2. SupInv /\ Books /\ [SupNext]_allVars => Books'
  BY BooksStep
<1>. QED
  BY <1>1, <1>2, SupInvHolds, PTL DEF SupSpec

\* A checkpoint never names an iteration the ledger has not reached: the charge is saved before
\* the checkpoint is written, and a crash between the two leaves the checkpoint behind, never
\* ahead (RunOnce, SaveGoal, Checkpoint).
THEOREM CheckpointsFollowTheLedger == SupSpec => []CheckpointWithinLedger
<1>1. Books => CheckpointWithinLedger
  BY DEF Books
<1>. QED
  BY <1>1, BooksHold, PTL

-----------------------------------------------------------------------------
(***************************************************************************)
(* Sums.  MapThenSumSet of the community modules folds over a set by a     *)
(* recursive function on its subsets.  That this recursion has a solution, *)
(* and what the solution does when one summand grows, is shown here for    *)
(* any finite set, by taking a smallest subset that would be an exception. *)
(***************************************************************************)
\* The element the fold takes next, and the rule it follows.
Pick(s) == CHOOSE x \in s : TRUE
SumRule(f, S, g) == g = [s \in SUBSET S |-> IF s = {} THEN 0 ELSE f[Pick(s)] + g[s \ {Pick(s)}]]

\* A set of naturals that is not empty has a least element.
LEMMA LeastOne ==
  ASSUME NEW T, T \subseteq Nat, T # {}
  PROVE  \E m \in T : \A k \in T : m <= k
<1>. DEFINE less == {ss \in Nat \X Nat : ss[1] < ss[2]}
<1>1. OpToRel(<, Nat) = less
  BY DEF OpToRel
<1>2. IsWellFoundedOn(less, Nat)
  BY <1>1, NatLessThanWellFounded
<1>3. PICK m \in T : \A k \in T : <<k, m>> \notin less
  <2>. HIDE DEF less
  <2>. QED
    BY <1>2, WFMin
<1>4. ASSUME NEW k \in T PROVE m <= k
  <2>1. k \in Nat /\ m \in Nat
    OBVIOUS
  <2>2. <<k, m>> \in Nat \X Nat /\ <<k, m>>[1] = k /\ <<k, m>>[2] = m
    BY <2>1
  <2>3. ~(k < m)
    BY <1>3, <1>4, <2>2
  <2>. QED
    BY <2>1, <2>3
<1>. QED
  BY <1>4

\* The sum of f over S.
Total(f, S) == MapThenSumSet(LAMBDA t : f[t], S)

LEMMA SumIsARecursion ==
  ASSUME NEW f, NEW S
  PROVE  Total(f, S) = (CHOOSE g : SumRule(f, S, g))[S]
BY DEF Total, MapThenSumSet, MapThenFoldSet, SumRule, Pick

\* The rule on the subsets of at most n elements.
Layer(S, n) == {s \in SUBSET S : Cardinality(s) <= n}
Layered(f, S, n, g) ==
  g = [s \in Layer(S, n) |-> IF s = {} THEN 0 ELSE f[Pick(s)] + g[s \ {Pick(s)}]]

LEMMA PickOne ==
  ASSUME NEW S, IsFiniteSet(S), NEW s \in SUBSET S, s # {}
  PROVE  /\ Pick(s) \in s /\ s \ {Pick(s)} \in SUBSET S
         /\ Cardinality(s) \in Nat /\ Cardinality(s \ {Pick(s)}) = Cardinality(s) - 1
         /\ Cardinality(s) # 0
<1>1. Pick(s) \in s
  BY DEF Pick
<1>2. IsFiniteSet(s)
  BY FS_Subset
<1>3. Cardinality(s) \in Nat
  BY <1>2, FS_CardinalityType
<1>4. Cardinality(s) # 0
  BY <1>2, FS_EmptySet
<1>5. Cardinality(s \ {Pick(s)}) = Cardinality(s) - 1
  BY <1>1, <1>2, FS_RemoveElement
<1>. QED
  BY <1>1, <1>3, <1>4, <1>5

\* What holds of the empty set, and of a set when it holds without its next element.
LEMMA BySubsets ==
  ASSUME NEW S, IsFiniteSet(S), NEW G \in SUBSET (SUBSET S), {} \in G,
         \A s \in SUBSET S : s # {} /\ s \ {Pick(s)} \in G => s \in G
  PROVE  \A s \in SUBSET S : s \in G
<1>. SUFFICES ASSUME NEW s0 \in SUBSET S, s0 \notin G PROVE FALSE
  OBVIOUS
<1>. DEFINE bad == {s \in SUBSET S : s \notin G}
            sizes == {Cardinality(s) : s \in bad}
<1>1. \A s \in bad : Cardinality(s) \in Nat
  BY FS_Subset, FS_CardinalityType
<1>2. sizes \subseteq Nat /\ sizes # {}
  BY <1>1
<1>3. PICK m \in sizes : \A k \in sizes : m <= k
  <2>. HIDE DEF sizes
  <2>. QED
    BY <1>2, LeastOne
<1>4. PICK s \in bad : Cardinality(s) = m
  OBVIOUS
<1>5. s # {} /\ s \in SUBSET S
  OBVIOUS
<1>. DEFINE r == s \ {Pick(s)}
<1>6. r \in SUBSET S /\ Cardinality(s) \in Nat /\ Cardinality(r) = Cardinality(s) - 1
  BY <1>5, PickOne
<1>7. r \notin G
  BY <1>4, <1>5
<1>8. Cardinality(r) \in sizes
  BY <1>6, <1>7
<1>9. m <= Cardinality(r)
  BY <1>3, <1>8
<1>. HIDE DEF r
<1>. QED
  BY <1>4, <1>6, <1>9

LEMMA LayersHaveSums ==
  ASSUME NEW S, IsFiniteSet(S), NEW f, NEW n \in Nat
  PROVE  \E g : Layered(f, S, n, g)
<1>. SUFFICES ASSUME ~ \E g : Layered(f, S, n, g) PROVE FALSE
  OBVIOUS
<1>. DEFINE bad == {k \in Nat : ~ \E g : Layered(f, S, k, g)}
<1>1. PICK m \in bad : \A k \in bad : m <= k
  <2>1. bad \subseteq Nat /\ bad # {}
    OBVIOUS
  <2>. HIDE DEF bad
  <2>. QED
    BY <2>1, LeastOne
<1>2. CASE m = 0
  <2>1. \A s \in Layer(S, 0) : s = {}
    <3>. SUFFICES ASSUME NEW s \in Layer(S, 0), s # {} PROVE FALSE
      OBVIOUS
    <3>1. s \in SUBSET S /\ Cardinality(s) <= 0
      BY DEF Layer
    <3>2. Cardinality(s) \in Nat /\ Cardinality(s) # 0
      BY <3>1, PickOne
    <3>. QED
      BY <3>1, <3>2
  <2>2. Layered(f, S, 0, [s \in Layer(S, 0) |-> 0])
    BY <2>1 DEF Layered
  <2>. QED
    BY <1>2, <2>2
<1>3. CASE m # 0
  <2>1. m - 1 \in Nat /\ m - 1 < m
    BY <1>3
  <2>2. m - 1 \notin bad
    BY <1>1, <2>1
  <2>3. PICK g : Layered(f, S, m - 1, g)
    BY <2>1, <2>2
  <2>. DEFINE h == [s \in Layer(S, m) |-> IF s = {} THEN 0 ELSE f[Pick(s)] + g[s \ {Pick(s)}]]
  <2>4. ASSUME NEW s \in Layer(S, m), s # {}
        PROVE  s \ {Pick(s)} \in Layer(S, m - 1) /\ s \ {Pick(s)} \in Layer(S, m)
    <3>1. s \in SUBSET S /\ Cardinality(s) <= m
      BY DEF Layer
    <3>2. /\ s \ {Pick(s)} \in SUBSET S /\ Cardinality(s) \in Nat
          /\ Cardinality(s \ {Pick(s)}) = Cardinality(s) - 1
      BY <2>4, <3>1, PickOne
    <3>3. Cardinality(s \ {Pick(s)}) <= m - 1 /\ Cardinality(s \ {Pick(s)}) <= m
      BY <3>1, <3>2
    <3>. QED
      BY <3>2, <3>3 DEF Layer
  <2>5. \A s \in Layer(S, m - 1) : s \in Layer(S, m)
    <3>. SUFFICES ASSUME NEW s \in Layer(S, m - 1) PROVE s \in Layer(S, m)
      OBVIOUS
    <3>1. s \in SUBSET S /\ Cardinality(s) <= m - 1
      BY DEF Layer
    <3>2. Cardinality(s) \in Nat
      BY <3>1, FS_Subset, FS_CardinalityType
    <3>3. Cardinality(s) <= m
      BY <3>1, <3>2
    <3>. QED
      BY <3>1, <3>3 DEF Layer
  <2>6. \A s \in Layer(S, m - 1) : h[s] = g[s]
    BY <2>3, <2>5 DEF Layered
  <2>7. \A s \in Layer(S, m) : s # {} => h[s \ {Pick(s)}] = g[s \ {Pick(s)}]
    BY <2>4, <2>6
  <2>8. h = [s \in Layer(S, m) |-> IF s = {} THEN 0 ELSE f[Pick(s)] + h[s \ {Pick(s)}]]
    BY <2>7
  <2>9. Layered(f, S, m, h)
    BY <2>8 DEF Layered
  <2>. QED
    BY <2>9
<1>. QED
  BY <1>2, <1>3

\* The sum the community modules compute is one that follows the recursion.
LEMMA SumFollowsTheRule ==
  ASSUME NEW S, IsFiniteSet(S), NEW f
  PROVE  \E g : SumRule(f, S, g) /\ Total(f, S) = g[S]
<1>. DEFINE n == Cardinality(S)
<1>1. n \in Nat
  BY FS_CardinalityType
<1>2. Layer(S, n) = SUBSET S
  BY <1>1, FS_Subset DEF Layer
<1>3. \E g : SumRule(f, S, g)
  <2>1. PICK g : Layered(f, S, n, g)
    BY <1>1, LayersHaveSums
  <2>. DEFINE top == Layer(S, n)
  <2>2. g = [s \in top |-> IF s = {} THEN 0 ELSE f[Pick(s)] + g[s \ {Pick(s)}]]
    BY <2>1 DEF Layered
  <2>3. top = SUBSET S
    BY <1>2
  <2>. HIDE DEF top
  <2>4. g = [s \in SUBSET S |-> IF s = {} THEN 0 ELSE f[Pick(s)] + g[s \ {Pick(s)}]]
    BY <2>2, <2>3
  <2>. QED
    BY <2>4 DEF SumRule
<1>. DEFINE c == CHOOSE g : SumRule(f, S, g)
<1>4. SumRule(f, S, c)
  BY <1>3
<1>5. Total(f, S) = c[S]
  BY SumIsARecursion
<1>. QED
  BY <1>4, <1>5

LEMMA SumIsNatural ==
  ASSUME NEW S, IsFiniteSet(S), NEW f \in [S -> Nat], NEW g, SumRule(f, S, g)
  PROVE  \A s \in SUBSET S : g[s] \in Nat
<1>. DEFINE good == {s \in SUBSET S : g[s] \in Nat}
<1>1. g[{}] = 0
  BY DEF SumRule
<1>2. ASSUME NEW s \in SUBSET S, s # {}, s \ {Pick(s)} \in good PROVE s \in good
  <2>1. Pick(s) \in S
    BY <1>2, PickOne
  <2>2. g[s] = f[Pick(s)] + g[s \ {Pick(s)}]
    BY <1>2 DEF SumRule
  <2>3. f[Pick(s)] \in Nat /\ g[s \ {Pick(s)}] \in Nat
    BY <1>2, <2>1
  <2>4. g[s] \in Nat
    BY <2>2, <2>3
  <2>. QED
    BY <2>4
<1>3. good \in SUBSET (SUBSET S) /\ {} \in good
  BY <1>1
<1>4. \A s \in SUBSET S : s \in good
  <2>. HIDE DEF good
  <2>. QED
    BY <1>2, <1>3, BySubsets
<1>. QED
  BY <1>4

LEMMA SumType ==
  ASSUME NEW S, IsFiniteSet(S), NEW f \in [S -> Nat]
  PROVE  Total(f, S) \in Nat
<1>1. PICK g : SumRule(f, S, g) /\ Total(f, S) = g[S]
  BY SumFollowsTheRule
<1>2. g[S] \in Nat
  BY <1>1, SumIsNatural
<1>. QED
  BY <1>1, <1>2

\* One summand more by one, the sum more by one.
LEMMA SumGoesUp ==
  ASSUME NEW S, IsFiniteSet(S), NEW f \in [S -> Nat], NEW t \in S, NEW h,
         h = [f EXCEPT ![t] = @ + 1]
  PROVE  Total(h, S) = Total(f, S) + 1
<1>1. PICK g : SumRule(f, S, g) /\ Total(f, S) = g[S]
  BY SumFollowsTheRule
<1>2. PICK k : SumRule(h, S, k) /\ Total(h, S) = k[S]
  BY SumFollowsTheRule
<1>3. \A s \in SUBSET S : g[s] \in Nat
  BY <1>1, SumIsNatural
<1>4. h \in [S -> Nat] /\ \A x \in S : h[x] = IF x = t THEN f[x] + 1 ELSE f[x]
  OBVIOUS
<1>. DEFINE good == {s \in SUBSET S : k[s] = IF t \in s THEN g[s] + 1 ELSE g[s]}
<1>5. {} \in good
  BY <1>1, <1>2 DEF SumRule
<1>6. ASSUME NEW s \in SUBSET S, s # {}, s \ {Pick(s)} \in good PROVE s \in good
  <2>. DEFINE x == Pick(s)
              r == s \ {Pick(s)}
  <2>1. x \in s /\ x \in S /\ r \in SUBSET S
    BY <1>6, PickOne
  <2>2. g[s] = f[x] + g[r] /\ k[s] = h[x] + k[r]
    BY <1>1, <1>2, <1>6 DEF SumRule
  <2>3. k[r] = IF t \in r THEN g[r] + 1 ELSE g[r]
    BY <1>6
  <2>4. g[r] \in Nat /\ f[x] \in Nat
    BY <1>3, <2>1
  <2>5. t \in s <=> (t \in r \/ t = x)
    BY <2>1
  <2>6. t = x => t \notin r
    OBVIOUS
  <2>7. h[x] = IF x = t THEN f[x] + 1 ELSE f[x]
    BY <1>4, <2>1
  <2>. HIDE DEF x, r
  <2>8. k[s] = IF t \in s THEN g[s] + 1 ELSE g[s]
    BY <2>2, <2>3, <2>4, <2>5, <2>6, <2>7
  <2>. QED
    BY <2>8
<1>7. \A s \in SUBSET S : s \in good
  <2>1. good \in SUBSET (SUBSET S)
    OBVIOUS
  <2>. HIDE DEF good
  <2>. QED
    BY <1>5, <1>6, <2>1, BySubsets
<1>8. k[S] = g[S] + 1
  BY <1>7
<1>. QED
  BY <1>1, <1>2, <1>8

LEMMA SumOfNothing ==
  ASSUME NEW S, IsFiniteSet(S), NEW f, \A x \in S : f[x] = 0
  PROVE  Total(f, S) = 0
<1>1. PICK g : SumRule(f, S, g) /\ Total(f, S) = g[S]
  BY SumFollowsTheRule
<1>. DEFINE good == {s \in SUBSET S : g[s] = 0}
<1>2. {} \in good
  BY <1>1 DEF SumRule
<1>3. ASSUME NEW s \in SUBSET S, s # {}, s \ {Pick(s)} \in good PROVE s \in good
  <2>1. Pick(s) \in S
    BY <1>3, PickOne
  <2>2. g[s] = f[Pick(s)] + g[s \ {Pick(s)}]
    BY <1>1, <1>3 DEF SumRule
  <2>3. f[Pick(s)] = 0 /\ g[s \ {Pick(s)}] = 0
    BY <1>3, <2>1
  <2>4. g[s] = 0
    BY <2>2, <2>3
  <2>. QED
    BY <2>4
<1>4. \A s \in SUBSET S : s \in good
  <2>1. good \in SUBSET (SUBSET S)
    OBVIOUS
  <2>. HIDE DEF good
  <2>. QED
    BY <1>2, <1>3, <2>1, BySubsets
<1>. QED
  BY <1>1, <1>4

-----------------------------------------------------------------------------
(***************************************************************************)
(* The calls against the ledger.  A call is charged one step after it      *)
(* returns, and the copy the charge is made on was read before the call:   *)
(* the ledger is right because the copy had room for every call made so    *)
(* far (CallsFitTheCopy), because with one driver at most one call is      *)
(* waiting to be charged, and because nobody but that driver ends a run in *)
(* any other way than cancelling it (OnlyCancelledUnderACycle).            *)
(***************************************************************************)
Charged(w) == pc[w] \in {"tool", "spend"}

OnlyCancelledUnderACycle == \A w \in Worker : pc[w] \in Step => goal.state \in {"running", "cancelled"}

CopyIsRunning ==
  \A w \in Worker : pc[w] \in {"claim", "gate", "tool", "spend"} => Seen(w).state = "running"

CallsFitTheCopy ==
  \A w \in Worker : pc[w] \in {"claim", "gate"} => TotalCalls <= Seen(w).iterations + aborts

CallLedger ==
  /\ LedgerCountsEveryCall /\ CeilingHolds
  /\ OnlyCancelledUnderACycle /\ CopyIsRunning /\ CallsFitTheCopy

LEMMA OneOrNone ==
  ASSUME NEW p, NEW v \in Worker, \A w \in Worker : w # v => p[w] \notin {"tool", "spend"}
  PROVE  Cardinality({w \in Worker : p[w] \in {"tool", "spend"}})
           = IF p[v] \in {"tool", "spend"} THEN 1 ELSE 0
<1>1. CASE p[v] \in {"tool", "spend"}
  <2>1. {w \in Worker : p[w] \in {"tool", "spend"}} = {v}
    BY <1>1
  <2>. QED
    BY <1>1, <2>1, FS_Singleton
<1>2. CASE p[v] \notin {"tool", "spend"}
  <2>1. {w \in Worker : p[w] \in {"tool", "spend"}} = {}
    BY <1>2
  <2>. QED
    BY <1>2, <2>1, FS_EmptySet
<1>. QED
  BY <1>1, <1>2

LEMMA CallsAreASum ==
  ASSUME IsFiniteSet(Task), calls \in [Task -> Nat]
  PROVE  TotalCalls \in Nat
<1>1. TotalCalls = Total(calls, Task)
  BY DEF TotalCalls, Total
<1>. QED
  BY <1>1, SumType

LEMMA CallsAreTotalNext == TotalCalls' = Total(calls', Task)
<1>1. TotalCalls = Total(calls, Task)
  BY DEF TotalCalls, Total
<1>2. (TotalCalls = Total(calls, Task))'
  BY <1>1, PTL
<1>. QED
  BY <1>2

LEMMA OneCallMore ==
  ASSUME IsFiniteSet(Task), calls \in [Task -> Nat], NEW t \in Task,
         calls' = [calls EXCEPT ![t] = @ + 1]
  PROVE  TotalCalls' = TotalCalls + 1
<1>1. TotalCalls = Total(calls, Task)
  BY DEF TotalCalls, Total
<1>2. TotalCalls' = Total(calls', Task)
  BY CallsAreTotalNext
<1>. QED
  BY <1>1, <1>2, SumGoesUp

LEMMA CallsStay ==
  ASSUME calls' = calls
  PROVE  TotalCalls' = TotalCalls
<1>1. TotalCalls = Total(calls, Task)
  BY DEF TotalCalls, Total
<1>2. TotalCalls' = Total(calls', Task)
  BY CallsAreTotalNext
<1>. QED
  BY <1>1, <1>2

LEMMA CycleKeepsCallLedger ==
  ASSUME IsFiniteSet(Task), SupInv, Books, CallLedger, NEW v \in Worker, CycleOf(v), OthersStay(v),
         \A w \in Worker : w # v => pc[w] \notin Step
  PROVE  CallLedger'
<1>. DEFINE one == IF Charged(v) THEN 1 ELSE 0
            next == IF Charged(v)' THEN 1 ELSE 0
<1>1. /\ cycle[v] \in Cycle /\ goal \in GoalRow /\ calls \in [Task -> Nat] /\ aborts \in Nat
      /\ checkpoint \in Nat /\ pc[v] \in Resting \cup Step
      /\ MaxIterations \in Nat
  BY Ceilings, StoreConstants
     DEF SupInv, ConsentInv, WorkerInv, CycleTypeOK, WorkerTypeOK, StoreTypeOK
<1>2. /\ goal.iterations \in Nat /\ Seen(v) \in GoalRow /\ Seen(v).iterations \in Nat
  BY <1>1 DEF GoalRow, Cycle, Seen
<1>3. TotalCalls \in Nat
  BY <1>1, CallsAreASum
<1>4. InFlight = one
  <2>1. \A w \in Worker : w # v => pc[w] \notin {"tool", "spend"}
    BY DEF Step
  <2>. QED
    BY <2>1, OneOrNone DEF InFlight, Charged
<1>5. InFlight' = next
  <2>1. \A w \in Worker : w # v => pc'[w] \notin {"tool", "spend"}
    BY DEF Step, OthersStay
  <2>2. Cardinality({w \in Worker : pc'[w] \in {"tool", "spend"}})
          = IF pc'[v] \in {"tool", "spend"} THEN 1 ELSE 0
    BY <2>1, OneOrNone
  <2>. QED
    BY <2>2 DEF InFlight, Charged
<1>6. /\ goal.state # "cancelled" => TotalCalls <= goal.iterations + one + aborts
      /\ TotalCalls <= MaxIterations + aborts
      /\ pc[v] \in Step => goal.state \in {"running", "cancelled"}
      /\ pc[v] \in {"claim", "gate", "tool", "spend"} => Seen(v).state = "running"
      /\ pc[v] \in {"claim", "gate"} => TotalCalls <= Seen(v).iterations + aborts
  BY <1>4 DEF CallLedger, LedgerCountsEveryCall, CeilingHolds, OnlyCancelledUnderACycle,
              CopyIsRunning, CallsFitTheCopy
<1>7. /\ pc[v] \in Carrying => Seen(v).iterations = goal.iterations
      /\ pc[v] \in {"claim", "gate", "tool", "spend"} => Seen(v).iterations < MaxIterations
  BY DEF Books, CopyIsCurrent, SupInv, ConsentInv, WorkerInv, CyclesAreClients, Seen
<1>8. SUFFICES
        /\ goal'.state # "cancelled" => TotalCalls' <= goal'.iterations + next + aborts'
        /\ TotalCalls' <= MaxIterations + aborts'
        /\ pc'[v] \in Step => goal'.state \in {"running", "cancelled"}
        /\ pc'[v] \in {"claim", "gate", "tool", "spend"} => cycle'[v].seen.state = "running"
        /\ pc'[v] \in {"claim", "gate"} => TotalCalls' <= cycle'[v].seen.iterations + aborts'
  <2>1. \A w \in Worker : w # v => pc'[w] \notin Step
    BY DEF OthersStay
  <2>. QED
    BY <1>5, <2>1
       DEF CallLedger, LedgerCountsEveryCall, CeilingHolds, OnlyCancelledUnderACycle,
           CopyIsRunning, CallsFitTheCopy, Seen, Step
<1>9. \A step, c : Go(v, step, c) => pc'[v] = step /\ cycle'[v] = c
  BY GoMovesOne DEF SupInv, ConsentInv
<1>10. CASE Observe(v)
  <2>. DEFINE c == [NoCycle EXCEPT !.now = clock, !.seen = goal]
  <2>1. c.seen = goal
    BY DEF NoCycle
  <2>2. /\ pc[v] \in Resting /\ goal.state = "running" /\ goal' = goal /\ calls' = calls
        /\ aborts' = aborts /\ Go(v, "claim", c)
    BY <1>10 DEF Observe, CycleStarts, storeVars, ghosts
  <2>3. TotalCalls' = TotalCalls /\ pc'[v] = "claim" /\ cycle'[v].seen = goal
    BY <1>9, <2>1, <2>2, CallsStay
  <2>4. one = 0 /\ next = 0
    BY <2>2, <2>3 DEF Charged, Resting
  <2>. HIDE DEF c, one, next
  <2>. QED
    BY <1>2, <1>3, <1>6, <2>2, <2>3, <2>4
<1>11. CASE TakeTask(v)
  <2>1. PICK t \in Task :
          /\ ClientClaim(t, LeaseName[v], Now(v))
          /\ Go(v, "gate", [cycle[v] EXCEPT !.task = t, !.try = attempt'[t],
                                            !.permitted = approved[t]])
    BY <1>11 DEF TakeTask
  <2>. DEFINE c == [cycle[v] EXCEPT !.task = t, !.try = attempt'[t], !.permitted = approved[t]]
  <2>2. c.seen = Seen(v) /\ Go(v, "gate", c)
    BY <1>1, <2>1 DEF Cycle, Seen
  <2>. HIDE DEF c
  <2>3. goal' = goal /\ calls' = calls /\ aborts' = aborts /\ pc[v] = "claim"
    BY <1>11, <2>1 DEF TakeTask, ClientClaim, Claim, ghosts
  <2>4. TotalCalls' = TotalCalls /\ pc'[v] = "gate" /\ cycle'[v].seen = Seen(v)
    BY <1>9, <2>2, <2>3, CallsStay
  <2>5. one = 0 /\ next = 0
    BY <2>3, <2>4 DEF Charged
  <2>. HIDE DEF one, next
  <2>. QED
    BY <1>6, <2>3, <2>4, <2>5 DEF Step
<1>12. CASE Invoke(v)
  <2>1. /\ pc[v] = "gate" /\ goal' = goal /\ aborts' = aborts /\ Go(v, "tool", cycle[v])
        /\ calls' = [calls EXCEPT ![Job(v)] = @ + 1]
    BY <1>12 DEF Invoke, storeVars
  <2>2. Job(v) \in Task
    BY <2>1 DEF SupInv, ConsentInv, WorkerInv, CyclesAreClients, Job
  <2>3. TotalCalls' = TotalCalls + 1
    BY <1>1, <2>1, <2>2, OneCallMore
  <2>4. pc'[v] = "tool" /\ cycle'[v].seen = Seen(v)
    BY <1>9, <2>1 DEF Seen
  <2>5. one = 0 /\ next = 1
    BY <2>1, <2>4 DEF Charged
  <2>6. /\ Seen(v).iterations = goal.iterations /\ Seen(v).iterations < MaxIterations
        /\ TotalCalls <= Seen(v).iterations + aborts
        /\ goal.state \in {"running", "cancelled"} /\ Seen(v).state = "running"
    BY <1>6, <1>7, <2>1 DEF Carrying, Step
  <2>. HIDE DEF one, next
  <2>7. /\ TotalCalls' <= goal'.iterations + next + aborts'
        /\ TotalCalls' <= MaxIterations + aborts'
    BY <1>1, <1>2, <1>3, <2>1, <2>3, <2>5, <2>6
  <2>. QED
    BY <2>1, <2>4, <2>6, <2>7
<1>13. CASE ToolReturns(v)
  <2>1. PICK answer \in Answer : Go(v, "spend", [cycle[v] EXCEPT !.answer = answer])
    BY <1>13 DEF ToolReturns
  <2>. DEFINE c == [cycle[v] EXCEPT !.answer = answer]
  <2>2. c.seen = Seen(v) /\ Go(v, "spend", c)
    BY <1>1, <2>1 DEF Cycle, Seen
  <2>. HIDE DEF c
  <2>3. goal' = goal /\ calls' = calls /\ aborts' = aborts /\ pc[v] = "tool"
    BY <1>13 DEF ToolReturns, storeVars, ghosts
  <2>4. TotalCalls' = TotalCalls /\ pc'[v] = "spend" /\ cycle'[v].seen = Seen(v)
    BY <1>9, <2>2, <2>3, CallsStay
  <2>5. one = 1 /\ next = 1
    BY <2>3, <2>4 DEF Charged
  <2>. HIDE DEF one, next
  <2>. QED
    BY <1>6, <2>3, <2>4, <2>5 DEF Step
<1>14. CASE RecordSpend(v)
  <2>. DEFINE spent == [Seen(v) EXCEPT !.iterations = @ + 1]
              c == [cycle[v] EXCEPT !.seen = spent]
  <2>1. /\ pc[v] = "spend" /\ calls' = calls /\ aborts' = aborts /\ TotalCalls' = TotalCalls
    BY <1>14, CallsStay DEF RecordSpend, ghosts
  <2>2. Seen(v).state = "running" /\ goal.state \in {"running", "cancelled"} /\ one = 1
    BY <1>6, <2>1 DEF Step, Charged
  <2>3. spent.iterations = goal.iterations + 1 /\ spent.state = "running"
    BY <1>2, <1>7, <2>1, <2>2 DEF GoalRow, Carrying
  <2>4. CASE SaveGoal(spent) /\ Go(v, "settle", c)
    <3>1. pc'[v] = "settle" /\ goal' = spent /\ goal.state = "running"
      BY <1>9, <2>2, <2>3, <2>4 DEF SaveGoal, RefuseTerminalOverwrite, GoalTerminal
    <3>2. next = 0
      BY <3>1 DEF Charged
    <3>. HIDE DEF one, next, spent
    <3>. QED
      BY <1>1, <1>2, <1>3, <1>6, <2>1, <2>2, <2>3, <3>1, <3>2
  <2>5. CASE RefuseTerminalOverwrite(spent) /\ UNCHANGED storeVars /\ Return(v, "stop")
    <3>1. pc'[v] = "stop" /\ goal' = goal /\ goal.state = "cancelled"
      BY <1>9, <2>2, <2>5 DEF RefuseTerminalOverwrite, GoalTerminal, storeVars, Return
    <3>. HIDE DEF one, next, spent
    <3>. QED
      BY <1>6, <2>1, <3>1 DEF Step
  <2>. HIDE DEF spent, c
  <2>6. \/ SaveGoal(spent) /\ Go(v, "settle", c)
        \/ RefuseTerminalOverwrite(spent) /\ UNCHANGED storeVars /\ Return(v, "stop")
    BY <1>14 DEF RecordSpend, spent, c
  <2>. QED
    BY <2>4, <2>5, <2>6
<1>15. CASE Conclude(v)
  <2>1. /\ pc[v] = "conclude" /\ calls' = calls /\ aborts' = aborts /\ TotalCalls' = TotalCalls
        /\ (goal' = Seen(v) /\ ~RefuseTerminalOverwrite(Seen(v))) \/ goal' = goal
        /\ pc'[v] = "stop"
    BY <1>9, <1>15, CallsStay DEF Conclude, SaveGoal, storeVars, ghosts, Return
  <2>2. one = 0 /\ next = 0
    BY <2>1 DEF Charged
  <2>3. /\ goal'.iterations = goal.iterations
        /\ goal'.state # "cancelled" => goal.state # "cancelled"
    BY <1>7, <2>1 DEF Carrying, RefuseTerminalOverwrite, GoalTerminal
  <2>. HIDE DEF one, next
  <2>. QED
    BY <1>6, <2>1, <2>2, <2>3 DEF Step
<1>16. CASE CeilingReached(v)
  <2>1. /\ pc[v] \in Resting /\ pc'[v] = "conclude" /\ goal.state = "running" /\ goal' = goal
        /\ calls' = calls /\ aborts' = aborts /\ TotalCalls' = TotalCalls
    BY <1>9, <1>16, CallsStay DEF CeilingReached, CycleStarts, storeVars, ghosts
  <2>2. one = 0 /\ next = 0
    BY <2>1 DEF Charged, Resting
  <2>. HIDE DEF one, next
  <2>. QED
    BY <1>6, <2>1, <2>2
<1>17. CASE Abort(v)
  <2>1. /\ pc'[v] \in {"error", "more"} /\ goal' = goal /\ calls' = calls /\ aborts' = aborts + 1
        /\ TotalCalls' = TotalCalls
    BY <1>9, <1>17, CallsStay DEF Abort, Vanish, Return
  <2>2. one \in {0, 1} /\ next = 0
    BY <2>1 DEF Charged
  <2>. HIDE DEF one, next
  <2>. QED
    BY <1>1, <1>2, <1>3, <1>6, <2>1, <2>2 DEF Step
<1>18. CASE \/ GoalNotClaimable(v) \/ NothingToClaim(v) \/ Park(v) \/ Settle(v) \/ Propagate(v)
            \/ WriteCheckpoint(v) \/ PlanOutgrown(v) \/ Replan(v) \/ BlockedOnApproval(v)
            \/ DeclareSuccess(v) \/ DeclareExhausted(v) \/ DeclareStalled(v) \/ ComeBackLater(v)
            \/ Grow(v)
  <2>1. calls' = calls /\ aborts' = aborts /\ TotalCalls' = TotalCalls
    BY <1>18, CallsStay
       DEF GoalNotClaimable, NothingToClaim, Park, Settle, Propagate, WriteCheckpoint, PlanOutgrown,
           Replan, BlockedOnApproval, DeclareSuccess, DeclareExhausted, DeclareStalled,
           ComeBackLater, Grow, ghosts
  <2>2. goal' = goal
    BY <1>18
       DEF GoalNotClaimable, NothingToClaim, Park, Settle, Propagate, WriteCheckpoint, PlanOutgrown,
           Replan, BlockedOnApproval, DeclareSuccess, DeclareExhausted, DeclareStalled,
           ComeBackLater, Grow, SaveDAG, Sweep, Succeed, Fail, Retry, HandBack, LoseLease, Complete,
           Release, storeVars
  <2>3. pc[v] \notin {"tool", "spend"}
    BY <1>18
       DEF GoalNotClaimable, NothingToClaim, Park, Settle, Propagate, WriteCheckpoint, PlanOutgrown,
           Replan, BlockedOnApproval, DeclareSuccess, DeclareExhausted, DeclareStalled,
           ComeBackLater, Grow, CycleStarts, Resting, Quiet
  <2>4. \/ \E c : Go(v, "stop", c) \/ Go(v, "more", c) \/ Go(v, "error", c)
        \/ /\ pc[v] \in Step
           /\ \E c : \E step \in {"idle", "grow", "conclude", "checkpoint", "propagate"} :
                Go(v, step, c)
    BY <1>18
       DEF GoalNotClaimable, NothingToClaim, Park, Settle, Propagate, WriteCheckpoint, PlanOutgrown,
           Replan, BlockedOnApproval, DeclareSuccess, DeclareExhausted, DeclareStalled,
           ComeBackLater, Grow, Succeed, Fail, Retry, HandBack, LoseLease, Concluding, Quiet,
           Return, Step
  <2>5. \/ pc'[v] \in Resting
        \/ pc[v] \in Step /\ pc'[v] \in {"idle", "grow", "conclude", "checkpoint", "propagate"}
    BY <1>9, <2>4 DEF Resting
  <2>6. one = 0 /\ next = 0
    BY <2>3, <2>5 DEF Charged, Resting
  <2>. HIDE DEF one, next
  <2>. QED
    BY <1>6, <2>1, <2>2, <2>5, <2>6 DEF Step, Resting
<1>. QED
  BY <1>10, <1>11, <1>12, <1>13, <1>14, <1>15, <1>16, <1>17, <1>18 DEF CycleOf, Begin, Continue

LEMMA CallLedgerStep ==
  ASSUME IsFiniteSet(Task), SupInv, Books, CallLedger, [SupNext]_allVars
  PROVE  CallLedger'
<1>1. CASE Restart
  <2>1. /\ pc' = [w \in Worker |-> "error"] /\ goal' = goal /\ calls' = calls
        /\ aborts' = aborts + 1 /\ TotalCalls' = TotalCalls
    BY <1>1, CallsStay DEF Restart, Vanish
  <2>2. /\ goal.iterations \in Nat /\ aborts \in Nat /\ MaxIterations \in Nat /\ TotalCalls \in Nat
    BY CallsAreASum, StoreConstants, Ceilings
       DEF SupInv, ConsentInv, WorkerInv, WorkerTypeOK, StoreTypeOK, GoalRow
  <2>3. InFlight' = 0
    <3>1. {w \in Worker : pc'[w] \in {"tool", "spend"}} = {}
      BY <2>1
    <3>2. Cardinality({w \in Worker : pc'[w] \in {"tool", "spend"}}) = 0
      BY <3>1, FS_EmptySet
    <3>. QED
      BY <3>2 DEF InFlight
  <2>4. InFlight \in {0, 1}
    <3>1. CASE \E v \in Worker : pc[v] \in Step
      <4>1. PICK v \in Worker : \A w \in Worker : w # v => pc[w] \notin {"tool", "spend"}
        BY <3>1 DEF SupInv, DriverInv, OneDriver, Step
      <4>2. InFlight = IF pc[v] \in {"tool", "spend"} THEN 1 ELSE 0
        BY <4>1, OneOrNone DEF InFlight
      <4>. QED
        BY <4>2
    <3>2. CASE ~ \E v \in Worker : pc[v] \in Step
      <4>1. {w \in Worker : pc[w] \in {"tool", "spend"}} = {}
        BY <3>2 DEF Step
      <4>. QED
        BY <4>1, FS_EmptySet DEF InFlight
    <3>. QED
      BY <3>1, <3>2
  <2>5. LedgerCountsEveryCall' /\ CeilingHolds'
    BY <2>1, <2>2, <2>3, <2>4 DEF CallLedger, LedgerCountsEveryCall, CeilingHolds
  <2>. QED
    BY <2>1, <2>5
       DEF CallLedger, OnlyCancelledUnderACycle, CopyIsRunning, CallsFitTheCopy, Step
<1>2. ASSUME NEW v \in Worker, CycleOf(v), DriveCycle(v) \/ DriveStep(v) \/ StoreFails(v)
      PROVE  CallLedger'
  BY <1>2, CycleStepCases, TheOneCycle, CycleKeepsCallLedger DEF CycleOf, SupInv, ConsentInv
<1>3. CASE People \/ TimePasses \/ UNCHANGED workerVars
  <2>1. UNCHANGED <<pc, cycle, calls, aborts>> /\ TotalCalls' = TotalCalls
    BY <1>3, CallsStay
       DEF People, StorePlan, CancelRun, Answered, FinishDecline, TimePasses, workerVars, runVars
  <2>2. /\ goal'.iterations = goal.iterations
        /\ goal'.state = goal.state \/ goal'.state = "cancelled"
    BY <1>3 DEF People, StorePlan, SaveDAG, CancelRun, Cancel, Answered, Decide, FinishDecline,
       Sweep, TimePasses, Tick, workerVars, storeVars, SupInv, WorkerTypeOK, StoreTypeOK, GoalRow
  <2>3. InFlight' = InFlight
    BY <2>1 DEF InFlight
  <2>. QED
    BY <2>1, <2>2, <2>3
       DEF CallLedger, LedgerCountsEveryCall, CeilingHolds, OnlyCancelledUnderACycle, CopyIsRunning,
           CallsFitTheCopy, Seen
<1>. QED
  BY <1>1, <1>2, <1>3, SupStepCases

LEMMA CallLedgerHolds ==
  ASSUME IsFiniteSet(Task)
  PROVE  SupSpec => []CallLedger
<1>1. SupInit => CallLedger
  <2>. SUFFICES ASSUME SupInit PROVE CallLedger
    OBVIOUS
  <2>1. /\ calls = [t \in Task |-> 0] /\ aborts = 0 /\ pc = [w \in Worker |-> "more"]
        /\ goal.iterations = 0
    BY DEF SupInit, WorkerInit, StoreInit
  <2>2. TotalCalls = 0
    <3>1. TotalCalls = Total(calls, Task)
      BY DEF TotalCalls, Total
    <3>. QED
      BY <2>1, <3>1, SumOfNothing
  <2>3. InFlight = 0
    <3>1. {w \in Worker : pc[w] \in {"tool", "spend"}} = {}
      BY <2>1
    <3>. QED
      BY <3>1, FS_EmptySet DEF InFlight
  <2>. QED
    BY <2>1, <2>2, <2>3, StoreConstants
       DEF CallLedger, LedgerCountsEveryCall, CeilingHolds, OnlyCancelledUnderACycle, CopyIsRunning,
           CallsFitTheCopy, Step
<1>2. SupInv /\ Books /\ CallLedger /\ [SupNext]_allVars => CallLedger'
  BY CallLedgerStep
<1>. QED
  BY <1>1, <1>2, SupInvHolds, BooksHold, PTL DEF SupSpec

\* The ledger misses no call, for every finite plan: whatever ran was charged, is about to be, or
\* was cut short or refused in a run that had been cancelled (RecordSpend, SaveGoal).
THEOREM LedgerMissesNoCall ==
  ASSUME IsFiniteSet(Task)
  PROVE  SupSpec => []LedgerCountsEveryCall
<1>1. CallLedger => LedgerCountsEveryCall
  BY DEF CallLedger
<1>. QED
  BY <1>1, CallLedgerHolds, PTL

\* The ceiling bounds the calls themselves, for every finite plan: at most one call too many per
\* cycle that was cut short, cancelled runs included (CheckCeilings before Claim).
THEOREM CeilingBoundsTheCalls ==
  ASSUME IsFiniteSet(Task)
  PROVE  SupSpec => []CeilingHolds
<1>1. CallLedger => CeilingHolds
  BY DEF CallLedger
<1>. QED
  BY <1>1, CallLedgerHolds, PTL
=============================================================================
