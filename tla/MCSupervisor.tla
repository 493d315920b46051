---------------------------- MODULE MCSupervisor ----------------------------
(***************************************************************************)
(* One goal under the supervisor.  a and b are planned at first, b needs   *)
(* a.  a's result adds c, which is gated and takes what b contributes; b's *)
(* result adds d.  The objective is c.                                     *)
(***************************************************************************)
EXTENDS Supervisor, TLC

CONSTANTS a, b, c, d, g1, g2

PlanDependsOn == a :> {} @@ b :> {a} @@ c :> {a} @@ d :> {b}
PlanContributes == a :> {} @@ b :> {} @@ c :> {b} @@ d :> {}
PlanSpawns == a :> {c} @@ b :> {d} @@ c :> {} @@ d :> {}

\* Another plan: d, the objective, takes what c contributes, and c needs b, which is gated; a
\* stands alone.
DoomedDependsOn == a :> {} @@ b :> {} @@ c :> {b} @@ d :> {}
DoomedContributes == a :> {} @@ b :> {} @@ c :> {} @@ d :> {c}
NothingSpawns == [t \in {a, b, c, d} |-> {}]

\* buildWorker names every worker of the process alike.
OneName == g1 :> "herosd" @@ g2 :> "herosd"
=============================================================================
