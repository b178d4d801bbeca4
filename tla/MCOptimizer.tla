---------------------------- MODULE MCOptimizer ----------------------------
(* Values for the constants of Optimizer that a configuration cannot write. *)
EXTENDS Optimizer

SmallImms == {-1, 0, 1, 2, 4}
BothSigns == {-3, 5}
=============================================================================
