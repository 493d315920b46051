------------------------------- MODULE Timeline -------------------------------
(***************************************************************************)
(* What the timeline of a run says about its tasks                         *)
(* (src/internal/api/timeline.go): for every task that has not finished,   *)
(* why it is not running, and whether the run is stalled.  It is read from *)
(* the rows of the store at some moment, whatever their writers are doing. *)
(***************************************************************************)
EXTENDS RunStore

\* What the timeline takes for an end.  A blocked task is listed, with the reason.
Over == {"succeeded", "failed", "cancelled"}

Listed(st) == {t \in Task : st[t] # Absent /\ st[t] \notin Over}

\* mutant: only the required dependencies are named
WaitingForRequired(st, t) == {d \in DependsOn[t] : st[d] \notin Over}

\* describeWaiting: the dependencies that have not finished, one that is missing from the plan too.
Waiting(st, t) == {d \in Edges(t) : st[d] \notin Over}

\* whatNext, for one task.
Why(st, t) ==
  CASE st[t] = "ready" -> "a worker will claim it next"
    [] st[t] = "running" -> "running now"
    [] st[t] = "awaiting_approval" -> "waiting for a person"
    [] st[t] = "blocked" -> "a task it depends on failed"
    [] st[t] = "pending" /\ Waiting(st, t) = {} -> "it should become ready on the next pass"
    [] OTHER -> "waiting on other tasks"

NeedsAPerson(st) == {t \in Listed(st) : st[t] = "awaiting_approval"}

\* buildTimeline: a graph that is not there yet is left out of the answer.
Summary(st) ==
  [done |-> Cardinality({t \in Task : st[t] \in Terminal}),
   total |-> Cardinality({t \in Task : st[t] # Absent}),
   stalled |-> Stalled(st)]

-----------------------------------------------------------------------------
Promised == {"a worker will claim it next", "it should become ready on the next pass"}

\* The end of a dependency has reached whatever it dooms.
Propagated(st) == \A t \in Task : ~NeedsDead(st, t)

\* A blocked task counts as finished for those it contributes to, and the timeline still names it.
WaitsInNameOnly(st, t) == \E d \in Contributes[t] : st[d] = "blocked"

\* What Claim asks before it hands a task out.
WouldBeClaimed(t) == goal.state = "running" /\ t \in ClaimableSet(clock)

\* While a run is running, the timeline promises what the store does: a task "a worker will claim
\* next" or that "should become ready on the next pass" is one that Claim hands out, unless the end
\* of a task it needs has not reached it yet; a task said to wait for others is one that Claim
\* refuses; and a run is called stalled exactly when no sentence says that something moves or asks a
\* person (whatNext, describeWaiting, at whatever moment of whatever traffic they are read).
\*
\* It leaves out two sentences of the page that are not so.  whatNext is not given the run: of a run
\* that is over or paused it says the same, though Claim hands out nothing and no worker comes.  And
\* a task whose contributor is blocked is said to wait for it, though it can start.
TimelineExplains ==
  /\ \A t \in Listed(state) :
       /\ Why(state, t) \in Promised /\ goal.state = "running" /\ Propagated(state) => WouldBeClaimed(t)
       /\ Why(state, t) = "waiting on other tasks" /\ ~WaitsInNameOnly(state, t) => ~WouldBeClaimed(t)
  /\ Propagated(state) /\ (\A t \in Listed(state) : ~WaitsInNameOnly(state, t)) =>
       (Summary(state).stalled <=>
          /\ Summary(state).done < Summary(state).total
          /\ \A t \in Listed(state) :
               Why(state, t) \notin Promised \cup {"running now", "waiting for a person"})
=============================================================================
