----------------------------- MODULE FlowGraph -----------------------------
(***************************************************************************)
(* Control-flow graphs as the passes over src/src/ssa.c see them, and what *)
(* dominance means on them.  A graph is the function from each block to    *)
(* the set of its successors (next, or then_ and else_).                   *)
(***************************************************************************)
EXTENDS Integers, FiniteSets

CONSTANT N      \* blocks of a function; the first is the entry, the last
                \* the exit

ASSUME BlocksAssumption == N \in Nat \ {0, 1}

Blocks == 1..N
entry == 1      \* func->bbs
exit == N       \* func->exit

Transpose(out) == [b \in Blocks |-> {p \in Blocks : b \in out[p]}]

\* The blocks reached from S along out without entering the blocks of X.
Reach(out, S, X) ==
    LET R[k \in Nat] ==
          IF k = 0 THEN S \ X
          ELSE LET B == R[k - 1] IN B \cup ((UNION {out[b] : b \in B}) \ X)
    IN  R[N]

\* The graphs the parser builds: one successor or two, none of them the
\* entry, everything reached from the entry and able to reach the exit.
Shapes == {S \in SUBSET (Blocks \ {entry}) : Cardinality(S) \in {1, 2}}
FlowGraphs ==
    {out \in {[b \in Blocks |-> IF b = exit THEN {} ELSE f[b]] :
                f \in [Blocks \ {exit} -> Shapes]} :
       /\ Reach(out, {entry}, {}) = Blocks
       /\ Reach(Transpose(out), {exit}, {}) = Blocks}

-----------------------------------------------------------------------------
(* Dominance by paths, from the given root.                                *)

Dominates(out, root, a, b) == b \notin Reach(out, {root}, {a})
StrictDoms(out, root, b) == {a \in Blocks \ {b} : Dominates(out, root, a, b)}
\* The strict dominator that all the others dominate.
IsIdom(out, root, a, b) ==
    /\ a \in StrictDoms(out, root, b)
    /\ \A c \in StrictDoms(out, root, b) : Dominates(out, root, c, a)
\* Where the dominance of a ends.
Frontier(out, root, a) ==
    {b \in Blocks : /\ \E p \in Transpose(out)[b] : Dominates(out, root, a, p)
                    /\ a \notin StrictDoms(out, root, b)}
=============================================================================
