---------------------------- MODULE MCRegAlloc ----------------------------
(* Instances of RegAlloc for TLC.                                          *)
EXTENDS RegAlloc, TLC

CONSTANTS vx, vy, vp, vc, vt, vg

NoParams == <<>>
OneParam == <<vx>>
TwoParams == <<vx, vy>>

\* Neither global variable is distinguished from the other.
Symmetric == Permutations({vg, vy})
=============================================================================
