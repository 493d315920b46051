----------------------------- MODULE Supervisor -----------------------------
(***************************************************************************)
(* The supervisor (src/internal/api/supervisor.go): what calls RunOnce.    *)
(* Start makes at most one goroutine per goal, drive calls RunOnce until a *)
(* cycle says there is no more, and the goroutine clears the running flag  *)
(* on its way out.  The requests that wake it commit their change to the   *)
(* store first and call Start afterwards.                                  *)
(*                                                                         *)
(* The process can die at any point.  Everything here is in its memory, so *)
(* nothing of it is left, and a new process starts with no goroutine.      *)
(***************************************************************************)
EXTENDS WorkerRun, FiniteSetsExt

VARIABLES
  running,   \* running[id] of this goal
  drive,     \* the goroutines: "none", "fresh" before the first cycle, "looping"
  waking,    \* requests that have committed and are about to call Start
  swallowed  \* ghost: a Start found the flag set and did nothing

supVars == <<running, drive, waking, swallowed>>
allVars == <<workerVars, supVars>>

SupInit ==
  /\ WorkerInit
  /\ running = FALSE
  /\ drive = [w \in Worker |-> "none"]
  /\ waking = {}
  /\ swallowed = FALSE

-----------------------------------------------------------------------------
(***************************************************************************)
(* drive                                                                   *)
(***************************************************************************)
\* The loop goes round while the last cycle said there is more.
DriveCycle(w) ==
  /\ drive[w] = "fresh" \/ (drive[w] = "looping" /\ pc[w] = "more")
  /\ Begin(w)
  /\ drive' = [drive EXCEPT ![w] = "looping"]
  /\ UNCHANGED <<running, waking, swallowed>>

\* Every Start is given context.Background(), which is never cancelled.
DriveStep(w) ==
  /\ drive[w] = "looping"
  /\ Continue(w)
  /\ cycle'[w].answer # "interrupted"
  /\ UNCHANGED supVars

\* RunOnce has returned for the last time; the deferred function clears the flag.
DriveReturns(w) ==
  /\ drive[w] = "looping" /\ pc[w] \in {"stop", "error"}
  /\ drive' = [drive EXCEPT ![w] = "none"]
  /\ running' = FALSE
  /\ UNCHANGED <<workerVars, waking, swallowed>>

\* mutant: the flag is looked at and not set
StartUnflagged(k) ==
  /\ k \in waking
  /\ waking' = waking \ {k}
  /\ IF running THEN swallowed' = TRUE /\ UNCHANGED <<running, drive>>
     ELSE /\ \E w \in Worker : drive[w] = "none" /\ drive' = [drive EXCEPT ![w] = "fresh"]
          /\ UNCHANGED <<running, swallowed>>
  /\ UNCHANGED workerVars

\* mutant: the flag is set and the goroutine is forgotten
StartNothing(k) ==
  /\ k \in waking
  /\ waking' = waking \ {k}
  /\ running' = TRUE /\ swallowed' = swallowed
  /\ UNCHANGED <<workerVars, drive>>

\* At most once per goal: a Start that finds the flag set returns.
Start(k) ==
  /\ k \in waking
  /\ waking' = waking \ {k}
  /\ IF running THEN swallowed' = TRUE /\ UNCHANGED <<running, drive>>
     ELSE /\ \E w \in Worker : drive[w] = "none" /\ drive' = [drive EXCEPT ![w] = "fresh"]
          /\ running' = TRUE /\ UNCHANGED swallowed
  /\ UNCHANGED workerVars

-----------------------------------------------------------------------------
(***************************************************************************)
(* The requests.                                                           *)
(***************************************************************************)
Free(k) == k \notin waking /\ k \notin sweeping

StartGoal(k) ==
  /\ Free(k) /\ StorePlan
  /\ waking' = waking \cup {k}
  /\ UNCHANGED <<running, drive, swallowed>>

\* decideTask: the decision is committed, and an approval alone is followed by Start.
DecideTask(k, t, approve) ==
  /\ Free(k) /\ Answered(k, t, approve)
  /\ waking' = IF approve THEN waking \cup {k} ELSE waking
  /\ UNCHANGED <<running, drive, swallowed>>

EndDecline(k) == FinishDecline(k) /\ UNCHANGED supVars

HandleCancelGoal == CancelRun /\ UNCHANGED supVars

Elapse == TimePasses /\ UNCHANGED supVars

\* A store call of the cycle fails; drive publishes the error and returns.
StoreFails(w) == Abort(w) /\ UNCHANGED supVars

\* The process dies and another one boots.
Restart ==
  /\ running /\ aborts < MaxAborts
  /\ aborts' = aborts + 1
  /\ Vanish(Client)
  /\ pc' = [w \in Worker |-> "error"]
  /\ cycle' = [w \in Worker |-> NoCycle]
  /\ running' = FALSE
  /\ drive' = [w \in Worker |-> "none"]
  /\ waking' = {}
  /\ UNCHANGED <<calls, checkpoint, swallowed>>

Drive(w) == DriveCycle(w) \/ DriveStep(w) \/ DriveReturns(w)
Request(k) == Start(k) \/ EndDecline(k)

SupNext ==
  \/ \E w \in Worker : Drive(w) \/ StoreFails(w)
  \/ \E k \in Console : Request(k) \/ StartGoal(k)
  \/ \E k \in Console, t \in Task, approve \in BOOLEAN : DecideTask(k, t, approve)
  \/ HandleCancelGoal \/ Elapse \/ Restart

\* Goroutines and requests that have begun go on; nobody has to ask, answer or cancel.
SupFairness ==
  /\ \A w \in Worker : WF_allVars(Drive(w))
  /\ \A k \in Console : WF_allVars(Request(k))

SupSpec == SupInit /\ [][SupNext]_allVars /\ SupFairness

-----------------------------------------------------------------------------
(***************************************************************************)
(* What one driver per goal gives.                                         *)
(***************************************************************************)
\* Never two goroutines for one goal, however approvals, exits and restarts interleave
\* with the flag (Start, the deferred reset in drive).
OneDriver ==
  \A v, w \in Worker : v # w => drive[v] = "none" \/ drive[w] = "none"

TotalCalls == MapThenSumSet(LAMBDA t : calls[t], Task)
InFlight == Cardinality({w \in Worker : pc[w] \in {"tool", "spend"}})

\* The ledger misses no call: every tool call has been charged, is about to be, or was cut
\* short or refused because the run had been cancelled (RecordSpend, "a failed attempt
\* still cost money").
LedgerCountsEveryCall ==
  goal.state # "cancelled" => TotalCalls <= goal.iterations + InFlight + aborts

\* The ceiling bounds the calls themselves, cancelled runs included: one call too many per
\* cycle cut short at the most (CheckCeilings before Claim).
CeilingHolds == TotalCalls <= MaxIterations + aborts

\* The retry ladder ends: a task's tool runs at most MaxAttemptsPerTask times, plus once per
\* cycle cut short, though being parked also costs an attempt (handleFailure, Claim).
RetryLadderBounded == \A t \in Task : calls[t] <= MaxAttemptsPerTask + aborts

\* A checkpoint never names an iteration the ledger has not reached (SaveGoal before
\* Checkpoint in RunOnce).
CheckpointWithinLedger == checkpoint <= goal.iterations

\* A run that has been planned ends or comes to wait for a person, and goes on when the
\* person approves, unless the approval's Start found the flag still set, a decline found
\* no driver, or the driver died: the three ways in which nobody is left to drive it.
Declined == \E t \in Gated : state[t] = "cancelled"

RunGoesOn ==
  Present(state) # {} ~>
    \/ goal.state \in GoalTerminal \/ Awaiting(state)
    \/ swallowed \/ Declined \/ aborts > 0

\* "Approved. %s is running again." (decideTask): an approved task is taken up.
ApprovedTaskRuns ==
  \A t \in Gated :
    approved[t] /\ state[t] = "ready" ~> state[t] # "ready" \/ goal.state \in GoalTerminal

\* "a killed process resumes without redoing finished work": a planned run that nobody has
\* to approve ends, whatever dies.
RunSurvivesRestart == Present(state) # {} ~> goal.state \in GoalTerminal
=============================================================================
