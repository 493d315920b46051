---------------------------- MODULE MCRunStore ----------------------------
(***************************************************************************)
(* The store under any two clients.  Three tasks: b needs a, c takes what  *)
(* a's and b's outcomes contribute, so a failure of a blocks b and leaves  *)
(* c runnable.                                                             *)
(***************************************************************************)
EXTENDS Timeline, TLC

PlanDependsOn == "a" :> {} @@ "b" :> {"a"} @@ "c" :> {}
PlanContributes == "a" :> {} @@ "b" :> {} @@ "c" :> {"a", "b"}
===========================================================================
