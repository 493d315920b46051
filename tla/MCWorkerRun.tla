---------------------------- MODULE MCWorkerRun ----------------------------
(***************************************************************************)
(* A run that grows: when a has succeeded the planner adds the chain b,    *)
(* which needs a, and c, which needs b, takes what a contributes and is    *)
(* gated; and d, which takes what c contributes, if anything.  Once d has  *)
(* succeeded it proposes e, which is a task more than the plan may hold.   *)
(***************************************************************************)
EXTENDS WorkerRun, TLC

CONSTANTS a, b, c, d, e, w1, w2

PlanDependsOn == a :> {} @@ b :> {a} @@ c :> {b} @@ d :> {} @@ e :> {}
PlanContributes == a :> {} @@ b :> {} @@ c :> {a} @@ d :> {c} @@ e :> {}
PlanSpawns == a :> {b, c, d} @@ b :> {} @@ c :> {} @@ d :> {e} @@ e :> {}

\* Each worker leases under a name of its own, so workers can be exchanged.
OwnName == [w \in Worker |-> w]
Alike == Permutations(Worker)
===========================================================================
