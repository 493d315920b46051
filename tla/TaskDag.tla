------------------------------ MODULE TaskDag ------------------------------
(***************************************************************************)
(* The task graph of one goal (src/internal/task/task.go): the closed set  *)
(* of task states, the table of legal moves, and the questions the rest of *)
(* the system asks of the graph.                                           *)
(*                                                                         *)
(* Every operator takes st, the state of every task, so that it reads the  *)
(* store's rows (RunStore) as well as a graph held in memory               *)
(* (DagAlgorithms).  A task that is not in the plan yet is Absent: the     *)
(* plan of an `improve` run grows while it runs.                           *)
(***************************************************************************)
EXTENDS Naturals

CONSTANTS Task,        \* every task the plan may ever hold
          DependsOn,   \* DependsOn[t]: tasks that must have SUCCEEDED before t runs
          Contributes  \* Contributes[t]: tasks that must be TERMINAL before t runs

Absent == "absent"

Terminal == {"succeeded", "failed", "blocked", "cancelled"}

TaskState == Terminal \cup {Absent, "pending", "ready", "running", "awaiting_approval"}

\* The table `transitions`, plus the row an Absent task has: it enters the plan pending.
Transitions ==
  [ absent            |-> {"pending"},
    pending           |-> {"ready", "blocked", "cancelled"},
    ready             |-> {"running", "blocked", "cancelled"},
    running           |-> {"succeeded", "failed", "awaiting_approval", "ready", "cancelled"},
    awaiting_approval |-> {"ready", "cancelled", "failed"},
    succeeded         |-> {},
    failed            |-> {},
    blocked           |-> {},
    cancelled         |-> {} ]

\* Claim makes the moves pending -> ready -> running and running -> ready -> running in one
\* step, so a move seen from outside is one entry of the table or two joined at ready.
LegalMove(from, to) ==
  \/ to \in Transitions[from]
  \/ "ready" \in Transitions[from] /\ to \in Transitions["ready"]
  \/ from = "ready" /\ to = "running"

Edges(t) == DependsOn[t] \cup Contributes[t]

Unfinished(st, t) == st[t] # Absent /\ st[t] \notin Terminal

(***************************************************************************)
(* A task may run when every required dependency succeeded and every       *)
(* contributory one is terminal, whatever its outcome.                     *)
(***************************************************************************)
\* mutant: a finished dependency is taken for a successful one
DependenciesTerminal(st, t) == \A d \in Edges(t) : st[d] \in Terminal

\* mutant: only the required edges are waited for
RequiredSucceeded(st, t) == \A d \in DependsOn[t] : st[d] = "succeeded"

DependenciesSucceeded(st, t) ==
  /\ \A d \in DependsOn[t] : st[d] = "succeeded"
  /\ \A d \in Contributes[t] : st[d] \in Terminal

\* What could run: Running tasks are excluded, they wait for nothing.
ReadySet(st) == {t \in Task : st[t] \in {"pending", "ready"} /\ DependenciesSucceeded(st, t)}

\* Work remains, and none of it can ever become ready, runs or waits for a person.
Stalled(st) ==
  /\ ReadySet(st) = {}
  /\ \A t \in Task : st[t] \notin {"running", "awaiting_approval"}
  /\ \E t \in Task : Unfinished(st, t)

(***************************************************************************)
(* Failure propagation.  A required dependency in one of the Dead states   *)
(* can never succeed, so whatever needs it is blocked, and whatever needs  *)
(* that.  The code reaches this set by sweeping the tasks until a pass     *)
(* changes nothing (DagAlgorithms runs that loop; RunStore runs the SQL    *)
(* passes); here it is the least set closed under the rule.                *)
(***************************************************************************)
Dead == {"failed", "blocked", "cancelled"}

NeedsDead(st, t) == Unfinished(st, t) /\ \E d \in DependsOn[t] : st[d] \in Dead

ClosedUnderBlocking(st, S) ==
  \A t \in Task :
    (NeedsDead(st, t) \/ (Unfinished(st, t) /\ DependsOn[t] \cap S # {})) => t \in S

Downstream(st) ==
  {t \in Task : \A S \in SUBSET Task : ClosedUnderBlocking(st, S) => t \in S}

PropagateFailure(st) ==
  [t \in Task |-> IF t \in Downstream(st) THEN "blocked" ELSE st[t]]

\* No required or contributory path leads from a task back to itself: what NewDAG demands.
Acyclic == \A S \in SUBSET Task : S # {} => \E t \in S : Edges(t) \cap S = {}
=============================================================================
