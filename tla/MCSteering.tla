------------------------------ MODULE MCSteering ------------------------------
(* Instances of Steering for TLC. *)
EXTENDS Steering, TLC

CONSTANTS i1, i2, c1, c2

InputSymmetry == Permutations(Input)
===============================================================================
