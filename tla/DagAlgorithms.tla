--------------------------- MODULE DagAlgorithms ---------------------------
(***************************************************************************)
(* The two loops of src/internal/task/task.go whose answers the rest of    *)
(* the system builds on, run step by step over every small graph:          *)
(*                                                                         *)
(*   detectCycle        the iterative three-colour search with an explicit *)
(*                      stack, which decides whether a plan is stored;     *)
(*   PropagateFailure   the sweep in id order that blocks everything       *)
(*                      downstream of a dead task, next to the SQL passes  *)
(*                      that do the same on the Postgres leg.              *)
(*                                                                         *)
(* One action is one iteration of the loop in the code.  Tasks are numbers *)
(* so that "id order" is the order of the numbers.                         *)
(***************************************************************************)
EXTENDS Naturals, Sequences, FiniteSets

CONSTANTS Size,       \* tasks per graph
          MaxEdges    \* bound on the edges of a graph

ASSUME SizeAssumption == Size \in Nat

Id == 1..Size

VARIABLES
  required,      \* the edges <<t, d>>: d in t.DependsOn
  contributory,  \* the edges <<t, d>>: d in t.Contributes
  root,          \* detectCycle: the outer loop's position in ids()
  colour, stack, \* detectCycle: its two locals
  verdict,       \* detectCycle: "searching", "cycle" or "none"
  found, st,     \* PropagateFailure: the states it found, and the states now
  leg,           \* which implementation runs: "memory", "postgres", or "none" yet
  cursor, changed

graph == <<required, contributory>>
search == <<root, colour, stack, verdict>>
sweep == <<found, st, leg, cursor, changed>>
vars == <<graph, search, sweep>>

Targets(edges, t) == {e[2] : e \in {f \in edges : f[1] = t}}

Dag == INSTANCE TaskDag WITH
  Task <- Id,
  DependsOn <- [t \in Id |-> Targets(required, t)],
  Contributes <- [t \in Id |-> Targets(contributory, t)]

SmallGraphs == {edges \in SUBSET (Id \X Id) : Cardinality(edges) <= MaxEdges}

\* What a store can hold when a task has just failed or been declined: whatever has begun
\* began with its dependencies satisfied.
FoundState == {"pending", "running", "succeeded", "failed", "cancelled"}
JustFailed(f) ==
  /\ \A t \in Id : f[t] # "pending" => Dag!DependenciesSucceeded(f, t)
  /\ \E t \in Id : f[t] \in {"failed", "cancelled"}

Init ==
  /\ \E edges \in SmallGraphs : \E soft \in SUBSET edges :
       required = edges \ soft /\ contributory = soft
  /\ root = 1
  /\ colour = [t \in Id |-> "white"]
  /\ stack = <<>>
  /\ verdict = "searching"
  /\ found = [t \in Id |-> "pending"]
  /\ st = found
  /\ leg = "none"
  /\ cursor = 1
  /\ changed = TRUE

-----------------------------------------------------------------------------
(***************************************************************************)
(* detectCycle.                                                            *)
(***************************************************************************)
Top == stack[Len(stack)]
Pop == SubSeq(stack, 1, Len(stack) - 1)

\* The outer loop: the next root in id order, skipping what a search has coloured.
NextRoot ==
  /\ verdict = "searching" /\ stack = <<>> /\ root <= Size
  /\ root' = root + 1
  /\ stack' = IF colour[root] = "white" THEN <<root>> ELSE stack
  /\ UNCHANGED <<graph, colour, verdict, sweep>>

\* The white ones of a task's edges, in any order a plan may list them; t itself is grey by now.
Listings(S) == {s \in [1..Cardinality(S) -> S] : \A d \in S : \E i \in DOMAIN s : s[i] = d}
White(edges, t) == {d \in Targets(edges, t) \ {t} : colour[d] = "white"}

\* The code walks DependsOn, then Contributes.
EdgeLists(t) == {a \o b : a \in Listings(White(required, t)), b \in Listings(White(contributory, t))}

\* mutant: an edge to the current path is pushed over instead of reported
MissBackEdge ==
  /\ verdict = "searching" /\ stack # <<>> /\ colour[Top] = "white"
  /\ colour' = [colour EXCEPT ![Top] = "grey"]
  /\ \E pushed \in EdgeLists(Top) : stack' = stack \o pushed
  /\ UNCHANGED <<graph, root, verdict, sweep>>

\* A white task goes grey; an edge to a grey task is a cycle, white ones are pushed.
Enter ==
  /\ verdict = "searching" /\ stack # <<>> /\ colour[Top] = "white"
  /\ colour' = [colour EXCEPT ![Top] = "grey"]
  /\ IF \E d \in Dag!Edges(Top) : colour'[d] = "grey"
     THEN verdict' = "cycle" /\ UNCHANGED stack
     ELSE UNCHANGED verdict /\ \E pushed \in EdgeLists(Top) : stack' = stack \o pushed
  /\ UNCHANGED <<graph, root, sweep>>

\* mutant: the grey task stays on the stack and the loop never ends
NeverPop ==
  /\ verdict = "searching" /\ stack # <<>> /\ colour[Top] # "white"
  /\ colour' = [colour EXCEPT ![Top] = "black"]
  /\ UNCHANGED <<graph, root, stack, verdict, sweep>>

\* A task seen again: grey means its edges are done, black that it was pushed twice.
Leave ==
  /\ verdict = "searching" /\ stack # <<>> /\ colour[Top] # "white"
  /\ colour' = [colour EXCEPT ![Top] = "black"]
  /\ stack' = Pop
  /\ UNCHANGED <<graph, root, verdict, sweep>>

NoCycle ==
  /\ verdict = "searching" /\ stack = <<>> /\ root > Size
  /\ verdict' = "none"
  /\ UNCHANGED <<graph, root, colour, stack, sweep>>

-----------------------------------------------------------------------------
(***************************************************************************)
(* PropagateFailure, on a plan that was accepted.                          *)
(***************************************************************************)
Arrive ==
  /\ verdict = "none" /\ leg = "none"
  /\ found' \in {f \in [Id -> FoundState] : JustFailed(f)}
  /\ st' = found'
  /\ leg' \in {"memory", "postgres"}
  /\ UNCHANGED <<graph, search, cursor, changed>>

\* mutant: contributory edges block as well
BlockByAnyEdge(t) ==
  Dag!Unfinished(st, t) /\ \E d \in Dag!Edges(t) : st[d] \in Dag!Dead

Blocks(t) == Dag!NeedsDead(st, t)

\* One task of the in-memory sweep: it sees what this pass has already blocked.
SweepTask ==
  /\ leg = "memory" /\ cursor <= Size
  /\ st' = [st EXCEPT ![cursor] = IF Blocks(cursor) THEN "blocked" ELSE @]
  /\ changed' = (IF cursor = 1 THEN Blocks(1) ELSE changed \/ Blocks(cursor))
  /\ cursor' = cursor + 1
  /\ UNCHANGED <<graph, search, found, leg>>

\* The end of a pass: another one if this one changed anything.
EndPass ==
  /\ leg = "memory" /\ cursor > Size
  /\ cursor' = 1
  /\ leg' = IF changed THEN leg ELSE "done"
  /\ UNCHANGED <<graph, search, found, st, changed>>

\* mutant: one UPDATE is taken to be enough
SweepPassOnce ==
  /\ leg = "postgres"
  /\ st' = [t \in Id |-> IF Blocks(t) THEN "blocked" ELSE st[t]]
  /\ leg' = "done"
  /\ UNCHANGED <<graph, search, found, cursor, changed>>

\* One UPDATE of the Postgres leg: it sees the states the statement started from.
SweepPass ==
  /\ leg = "postgres"
  /\ st' = [t \in Id |-> IF Blocks(t) THEN "blocked" ELSE st[t]]
  /\ leg' = IF \E t \in Id : Blocks(t) THEN leg ELSE "done"
  /\ UNCHANGED <<graph, search, found, cursor, changed>>

Finished == verdict = "cycle" \/ leg = "done"

Next ==
  \/ NextRoot \/ Enter \/ Leave \/ NoCycle
  \/ Arrive \/ SweepTask \/ EndPass \/ SweepPass
  \/ Finished /\ UNCHANGED vars

Spec == Init /\ [][Next]_vars /\ WF_vars(Next)

-----------------------------------------------------------------------------
\* The search reports a cycle exactly when the graph has one, duplicate pushes, self
\* edges and edges between finished parts included (detectCycle).
CycleVerdictIsRight ==
  /\ verdict = "cycle" => ~Dag!Acyclic
  /\ verdict = "none" => Dag!Acyclic

\* Both legs end with exactly the least set of tasks that need a dead one blocked: the
\* order of the ids, and seeing or not seeing the pass's own writes, change nothing
\* (PropagateFailure, propagateFailure).
PropagationIsLeast == leg = "done" => st = Dag!PropagateFailure(found)

\* Once propagation has finished, a plan in which nothing runs and something is left has
\* a task that can start: Stalled is never the answer to a failure that was propagated.
NoStallAfterPropagation == leg = "done" => ~Dag!Stalled(st)

\* Both loops end on every graph and every assignment of states.
LoopsEnd == <>Finished
============================================================================
