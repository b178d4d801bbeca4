----------------------------- MODULE Dominance -----------------------------
(***************************************************************************)
(* The dominator tree and the dominance frontiers of a function, as        *)
(* build_rpo(), build_idom(), build_dom() and build_df() of src/src/ssa.c  *)
(* compute them, and the post-dominators of build_reversed_rpo(),          *)
(* build_r_idom(), build_rdom() and build_rdf(), which are the same        *)
(* algorithm on the graph turned round.                                    *)
(*                                                                         *)
(* The order of the successors in a traversal and of the entries of prev[] *)
(* is left open.                                                           *)
(***************************************************************************)
EXTENDS FlowGraph, Sequences

CONSTANTS
    Graphs,      \* the graphs to be looked at
    Directions   \* "fwd" and "rev"

ASSUME GraphsAssumption == Graphs \subseteq [Blocks -> SUBSET Blocks]

NULL == 0

VARIABLES
    g,           \* the graph, in the direction of the analysis
    root,        \* func->bbs or func->exit
    pc,
    stack, seen, \* the traversal: its C stack, the visited blocks
    bb_cnt,      \* blocks numbered so far
    rpo,         \* numbers in post order, then in reverse post order
    idom,
    changed,     \* of build_idom()
    bb, todo, pred,  \* the block looked at, its predecessors left, the best
                 \* common dominator of the others
    i, j,        \* of intersect()
    dom_prev, DF

traversal == <<stack, seen, bb_cnt>>
loop == <<changed, bb, todo, pred, i, j>>
results == <<rpo, idom, dom_prev, DF>>
vars == <<g, root, pc, traversal, loop, results>>

None == [b \in Blocks |-> NULL]

Init ==
    /\ \E out \in Graphs, dir \in Directions :
         /\ g = IF dir = "fwd" THEN out ELSE Transpose(out)
         /\ root = IF dir = "fwd" THEN entry ELSE exit
    /\ pc = "traverse" /\ stack = <<root>> /\ seen = {root} /\ bb_cnt = 0
    /\ rpo = None /\ idom = None
    /\ changed = FALSE /\ bb = NULL /\ todo = {} /\ pred = NULL
    /\ i = NULL /\ j = NULL
    /\ dom_prev = None /\ DF = [b \in Blocks |-> {}]

-----------------------------------------------------------------------------
(* build_rpo                                                               *)

\* bb_forward_traversal(): down to a successor that was not visited.
Visit ==
    /\ pc = "traverse" /\ stack # <<>>
    /\ \E b \in g[stack[Len(stack)]] \ seen :
         stack' = Append(stack, b) /\ seen' = seen \cup {b}
    /\ UNCHANGED <<g, root, pc, bb_cnt, loop, results>>

\* Back from a block: bb_index_rpo().
Leave ==
    /\ pc = "traverse" /\ stack # <<>>
    /\ g[stack[Len(stack)]] \subseteq seen
    /\ rpo' = [rpo EXCEPT ![stack[Len(stack)]] = bb_cnt]
    /\ bb_cnt' = bb_cnt + 1
    /\ stack' = SubSeq(stack, 1, Len(stack) - 1)
    /\ UNCHANGED <<g, root, pc, seen, loop, idom, dom_prev, DF>>

\* bb_reverse_index() and bb_build_rpo(): from here on the blocks are looked
\* at in the order of their numbers.
Reversed == [b \in Blocks |-> bb_cnt - rpo[b]]
RpoNext(r, b) == {c \in seen : r[c] = r[b] + 1}

Reverse ==
    /\ pc = "traverse" /\ stack = <<>>
    /\ rpo' = Reversed
    /\ idom' = [idom EXCEPT ![root] = root]
    /\ bb' = root /\ pc' = "next"
    /\ UNCHANGED <<g, root, traversal, changed, todo, pred, i, j, dom_prev, DF>>

-----------------------------------------------------------------------------
(* build_idom                                                              *)

Preds(b) == {p \in Blocks : b \in g[p]}

\* The next block in reverse post order, and one of its predecessors that has
\* a dominator.  Without one `pred' would be used uninitialised.
NextBlock ==
    /\ pc = "next"
    /\ \E b \in RpoNext(rpo, bb) :
         /\ bb' = b
         /\ \/ /\ \A p \in Preds(b) : idom[p] = NULL
               /\ pc' = "stuck" /\ UNCHANGED <<pred, todo>>
            \/ \E p \in Preds(b) :
                 /\ idom[p] # NULL /\ pred' = p
                 /\ todo' = Preds(b) \ {p} /\ pc' = "merge"
    /\ UNCHANGED <<g, root, traversal, changed, i, j, results>>

\* Mutant of Merge: predecessors without a dominator are not left out.
MergeAll ==
    /\ pc = "merge"
    /\ \E p \in todo :
         /\ todo' = todo \ {p}
         /\ \/ p = pred /\ UNCHANGED <<pc, i, j>>
            \/ p # pred /\ pc' = "intersect" /\ i' = p /\ j' = pred
    /\ UNCHANGED <<g, root, traversal, changed, bb, pred, results>>

\* The common dominator of the predecessors that have one.
Merge ==
    /\ pc = "merge"
    /\ \E p \in todo :
         /\ todo' = todo \ {p}
         /\ \/ /\ p = pred \/ idom[p] = NULL
               /\ UNCHANGED <<pc, i, j>>
            \/ /\ p # pred /\ idom[p] # NULL
               /\ pc' = "intersect" /\ i' = p /\ j' = pred
    /\ UNCHANGED <<g, root, traversal, changed, bb, pred, results>>

\* intersect(): the deeper of the two fingers climbs.
Climb ==
    /\ pc = "intersect" /\ i # j
    /\ \/ /\ rpo[i] > rpo[j] /\ i' = idom[i] /\ UNCHANGED j
       \/ /\ rpo[j] > rpo[i] /\ j' = idom[j] /\ UNCHANGED i
    /\ pc' = IF i' = NULL \/ j' = NULL THEN "stuck" ELSE pc
    /\ UNCHANGED <<g, root, traversal, changed, bb, todo, pred, results>>

\* Mutant of Met: the finger is cleared before it is read.
MetCleared ==
    /\ pc = "intersect" /\ i = j
    /\ i' = NULL /\ j' = NULL /\ pred' = i' /\ pc' = "merge"
    /\ UNCHANGED <<g, root, traversal, changed, bb, todo, results>>

Met ==
    /\ pc = "intersect" /\ i = j
    /\ pred' = i /\ pc' = "merge" /\ i' = NULL /\ j' = NULL
    /\ UNCHANGED <<g, root, traversal, changed, bb, todo, results>>

\* All predecessors seen.
Assign ==
    /\ pc = "merge" /\ todo = {}
    /\ idom' = [idom EXCEPT ![bb] = pred]
    /\ changed' = (changed \/ idom[bb] # pred)
    /\ pc' = "next" /\ pred' = NULL
    /\ UNCHANGED <<g, root, traversal, bb, todo, i, j, rpo, dom_prev, DF>>

\* Mutant of PassEnds: one pass is enough.
PassEndsOnce ==
    /\ pc = "next" /\ RpoNext(rpo, bb) = {}
    /\ bb' = root /\ changed' = FALSE
    /\ pc' = "tree"
    /\ UNCHANGED <<g, root, traversal, todo, pred, i, j, results>>

\* Mutant of PassEnds: `changed' is not reset.
PassEndsStale ==
    /\ pc = "next" /\ RpoNext(rpo, bb) = {}
    /\ bb' = root /\ UNCHANGED changed
    /\ pc' = IF changed THEN "next" ELSE "tree"
    /\ UNCHANGED <<g, root, traversal, todo, pred, i, j, results>>

PassEnds ==
    /\ pc = "next" /\ RpoNext(rpo, bb) = {}
    /\ bb' = root /\ changed' = FALSE
    /\ pc' = IF changed THEN "next" ELSE "tree"
    /\ UNCHANGED <<g, root, traversal, todo, pred, i, j, results>>

-----------------------------------------------------------------------------
(* build_dom and build_df                                                  *)

\* The blocks met on the way up from b, stop excluded; all of them up to the
\* root if stop is not met.
Way(b, stop) ==
    LET U[k \in Nat] ==
          IF k = 0 THEN {b}
          ELSE LET S == U[k - 1] IN S \cup {idom[a] : a \in S \ {stop, NULL}}
    IN  U[N] \ {stop}
Meets(b, stop) == b = stop \/ \E a \in Way(b, stop) : idom[a] = stop

\* bb_build_dom(), on every block: each one becomes a child of its dominator.
BuildDom ==
    /\ pc = "tree"
    /\ dom_prev' = [b \in Blocks |-> IF b = root THEN NULL ELSE idom[b]]
    /\ pc' = "frontier"
    /\ UNCHANGED <<g, root, traversal, loop, rpo, idom, DF>>

\* Mutant of Entries: the dominator itself is entered.
EntriesTop(a) ==
    {e \in Blocks \X Blocks : /\ e[2] \in Preds(e[1])
                              /\ a \in Way(e[2], idom[e[1]]) \cup {idom[e[1]]}}

\* bb_build_df(), on every block: it is entered at the blocks on the way from
\* each predecessor to its dominator.  An entry is <<block, predecessor>>: two
\* predecessors below the same block make two entries.
Entries(a) ==
    {e \in Blocks \X Blocks : /\ e[2] \in Preds(e[1])
                              /\ a \in Way(e[2], idom[e[1]])}
BuildDf ==
    /\ pc = "frontier"
    /\ \/ /\ \A b \in Blocks, p \in Blocks : p \in Preds(b) => Meets(p, idom[b])
          /\ DF' = [a \in Blocks |-> Entries(a)]
          /\ pc' = "done"
       \/ /\ \E b \in Blocks, p \in Blocks : p \in Preds(b) /\ ~Meets(p, idom[b])
          /\ pc' = "lost" /\ UNCHANGED DF
    /\ UNCHANGED <<g, root, traversal, loop, rpo, idom, dom_prev>>

Done == pc \in {"done", "stuck", "lost"} /\ UNCHANGED vars

Next ==
    \/ Visit \/ Leave \/ Reverse
    \/ NextBlock \/ Merge \/ Climb \/ Met \/ Assign \/ PassEnds
    \/ BuildDom \/ BuildDf \/ Done

\* The analysis is one call that goes on.
Spec == Init /\ [][Next]_vars /\ WF_vars(Next)

-----------------------------------------------------------------------------
\* Pointers that are followed are not NULL.
TypeOK ==
    /\ g \in [Blocks -> SUBSET Blocks] /\ root \in Blocks
    /\ pc \in {"traverse", "next", "merge", "intersect", "tree", "frontier",
               "done", "stuck", "lost"}
    /\ stack \in Seq(Blocks) /\ seen \subseteq Blocks /\ bb_cnt \in Nat
    /\ rpo \in [Blocks -> Int] /\ idom \in [Blocks -> Blocks \cup {NULL}]
    /\ changed \in BOOLEAN /\ todo \subseteq Blocks
    /\ {bb, pred, i, j} \subseteq Blocks \cup {NULL}
    /\ pc \in {"next", "merge", "intersect"} => bb \in Blocks
    /\ pc \in {"merge", "intersect"} => pred \in Blocks
    /\ pc = "intersect" => {i, j} \subseteq Blocks

\* The post order makes build_idom() work on any graph: a block's candidate
\* dominator always comes before it, so intersect() climbs towards the root;
\* a predecessor with a candidate is always found, so `pred' is never used
\* uninitialised; and no finger ever leaves the tree.
Iterating == pc \in {"next", "merge", "intersect", "tree", "frontier", "done"}
CandidatesAbove ==
    /\ Iterating =>
         \A b \in Blocks \ {root} : idom[b] # NULL => rpo[idom[b]] < rpo[b]
    /\ pc # "stuck"

\* The result of build_idom() is the dominator tree, whatever the graph: the
\* iteration stops only at the immediate dominators.
IdomCorrect ==
    pc \in {"tree", "frontier", "done"} =>
      \A b \in Blocks \ {root} : IsIdom(g, root, idom[b], b)

\* The frontiers are where the dominance ends, which is where phi
\* instructions are needed; no walk of bb_build_df() misses its end.
FrontierCorrect ==
    /\ pc # "lost"
    /\ pc = "done" =>
      \A a \in Blocks : {e[1] : e \in DF[a]} = Frontier(g, root, a)

\* The iteration reaches its fixed point.
Ends == <>(pc = "done")
=============================================================================
