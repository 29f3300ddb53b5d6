---------------------------- MODULE MCTaskRuntime ----------------------------
(* Instances of TaskRuntime for TLC. *)
EXTENDS TaskRuntime, TLC

CONSTANTS t1, t2, t3, s1, s2

OneSession == (t1 :> s1) @@ (t2 :> s1) @@ (t3 :> s1)
PairSession == (t1 :> s1) @@ (t2 :> s1)
==============================================================================
