----------------------------- MODULE MCPeephole -----------------------------
(* Values for the constants of Peephole that a configuration cannot write.  *)
EXTENDS Peephole

SmallImms == {-1, 0, 1, 2, 3, 4}
BothSigns == {-3, 5}
=============================================================================
