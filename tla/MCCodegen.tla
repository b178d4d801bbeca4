----------------------------- MODULE MCCodegen -----------------------------
(***************************************************************************)
(* Codegen for TLC: an int of 8 bits, so that a char has 2 and a short 4,  *)
(* with values at the borders of the ranges and of the powers of two.      *)
(***************************************************************************)
EXTENDS Codegen

Values == {-128, -127, -37, -4, -1, 0, 1, 2, 3, 7, 100, 127}
\* On both sides of what fits into one word of either target.
Borders == {-128, -9, -8, -1, 0, 1, 3, 4, 7, 8, 15, 16, 77, 127}
=============================================================================
