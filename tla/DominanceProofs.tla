-------------------------- MODULE DominanceProofs --------------------------
(***************************************************************************)
(* build_idom() never uses an undefined predecessor and never leaves the   *)
(* tree, for every graph: the numbering by the traversal guarantees it.    *)
(* For the graphs the parser builds, its result is the dominator tree and  *)
(* that of build_df() the dominance frontiers.                             *)
(***************************************************************************)
EXTENDS Dominance, FlowGraphProofs, SequenceTheorems

OnStack(b) == \E m \in 1..Len(stack) : stack[m] = b

\* Between the visits: blocks that were left have different numbers, and a
\* predecessor that is still on the stack or was left later.
TraverseInv ==
    /\ root \in seen /\ idom = None
    /\ \A m \in 1..Len(stack) : stack[m] \in seen
    /\ \A m, n \in 1..Len(stack) : stack[m] = stack[n] => m = n
    /\ stack # <<>> => stack[1] = root
    /\ \A m \in 2..Len(stack) : stack[m] \in g[stack[m - 1]]
    /\ \A b \in seen : ~OnStack(b) => 0 <= rpo[b] /\ rpo[b] < bb_cnt
    /\ \A b, c \in seen : ~OnStack(b) /\ ~OnStack(c) /\ rpo[b] = rpo[c] => b = c
    /\ \A b \in seen \ {root} : ~OnStack(b) =>
         \E p \in seen : b \in g[p] /\ (OnStack(p) \/ rpo[p] > rpo[b])
    /\ stack = <<>> => \A b \in seen : rpo[b] <= rpo[root]

\* The reverse post order.
OrderInv ==
    /\ root \in seen
    /\ \A b, c \in seen : rpo[b] = rpo[c] => b = c
    /\ \A b \in seen : rpo[root] <= rpo[b]
    /\ \A b \in seen \ {root} : \E p \in seen : b \in g[p] /\ rpo[p] < rpo[b]

\* The candidates for the dominators form a tree.
TreeInv ==
    /\ idom[root] = root
    /\ \A b \in Blocks : idom[b] # NULL =>
         b \in seen /\ idom[b] \in seen /\ idom[idom[b]] # NULL
    /\ \A b \in Blocks \ {root} : idom[b] # NULL => rpo[idom[b]] < rpo[b]

\* Blocks before the current one have a candidate, and among the predecessors
\* of the current one that are still to be merged one comes before it.
Before(a) == idom[a] # NULL /\ rpo[a] < rpo[bb]
LoopInv ==
    /\ bb \in seen
    /\ pc = "next" => \A c \in seen : rpo[c] <= rpo[bb] => idom[c] # NULL
    /\ pc \in {"merge", "intersect"} =>
         bb # root /\ \A c \in seen : rpo[c] < rpo[bb] => idom[c] # NULL
    /\ pc = "merge" => idom[pred] # NULL
                         /\ (Before(pred) \/ \E p \in todo : Before(p))
    /\ pc = "intersect" =>
         /\ idom[i] # NULL /\ idom[j] # NULL
         /\ Before(i) \/ Before(j) \/ \E p \in todo : Before(p)

IndInv ==
    /\ TypeOK
    /\ pc # "stuck"
    /\ pc = "traverse" => TraverseInv
    /\ pc \notin {"traverse", "lost"} => OrderInv /\ TreeInv
    /\ pc \in {"next", "merge", "intersect"} => LoopInv

-----------------------------------------------------------------------------
(* The traversal.                                                          *)

LEMMA InitInv == Init => IndInv
  <1> SUFFICES ASSUME Init PROVE IndInv
    OBVIOUS
  <1>1. entry \in Blocks /\ exit \in Blocks
    BY BlocksAssumption DEF entry, exit, Blocks
  <1>2. root \in Blocks
    BY <1>1 DEF Init
  <1>3. g \in [Blocks -> SUBSET Blocks]
    <2>1. \A out : Transpose(out) \in [Blocks -> SUBSET Blocks]
      BY DEF Transpose
    <2> QED
      BY <2>1, GraphsAssumption DEF Init
  <1>4. None \in [Blocks -> Int] /\ None \in [Blocks -> Blocks \cup {NULL}]
    BY DEF None, NULL
  <1>5. stack \in Seq(Blocks) /\ Len(stack) = 1 /\ stack[1] = root
    BY <1>2 DEF Init
  <1>6. TypeOK
    BY <1>2, <1>3, <1>4, <1>5 DEF Init, TypeOK
  <1>7. TraverseInv
    BY <1>2, <1>5 DEF Init, TraverseInv, OnStack
  <1> QED
    BY <1>6, <1>7 DEF Init, IndInv

LEMMA VisitInv == ASSUME IndInv, Visit PROVE IndInv'
  <1> DEFINE t == stack[Len(stack)]
  <1>1. PICK b \in g[t] \ seen :
          stack' = Append(stack, b) /\ seen' = seen \cup {b}
    BY DEF Visit
  <1>2. TraverseInv /\ TypeOK /\ pc = "traverse" /\ stack # <<>>
    BY DEF IndInv, Visit
  <1>3. Len(stack) \in Nat \ {0} /\ t \in Blocks /\ t \in seen
    BY <1>2 DEF TypeOK, TraverseInv
  <1>4. b \in Blocks
    BY <1>1, <1>2, <1>3 DEF TypeOK
  <1>5. /\ stack' \in Seq(Blocks) /\ Len(stack') = Len(stack) + 1
        /\ stack'[Len(stack) + 1] = b
        /\ \A m \in 1..Len(stack) : stack'[m] = stack[m]
    BY <1>1, <1>2, <1>4 DEF TypeOK
  <1>6. \A x : OnStack(x)' <=> OnStack(x) \/ x = b
    BY <1>3, <1>5 DEF OnStack
  <1>7. TypeOK'
    BY <1>1, <1>4, <1>5 DEF IndInv, TypeOK, Visit, loop, results
  <1>8. root \in seen' /\ idom' = None /\ stack' # <<>> /\ stack'[1] = root
        /\ UNCHANGED <<g, root, rpo, bb_cnt, pc>>
    BY <1>1, <1>2, <1>3, <1>5 DEF TraverseInv, Visit, results
  <1>9. \A m \in 1..Len(stack') : stack'[m] \in seen'
    BY <1>1, <1>2, <1>3, <1>5 DEF TraverseInv
  <1>10. \A m, n \in 1..Len(stack') : stack'[m] = stack'[n] => m = n
    BY <1>1, <1>2, <1>3, <1>5 DEF TraverseInv
  <1>11. \A m \in 2..Len(stack') : stack'[m] \in g[stack'[m - 1]]
    BY <1>1, <1>2, <1>3, <1>5 DEF TraverseInv
  <1>12. \A x \in seen' : ~OnStack(x)' => x \in seen /\ ~OnStack(x)
    BY <1>1, <1>6
  <1>13. /\ \A x \in seen' : ~OnStack(x)' => 0 <= rpo[x] /\ rpo[x] < bb_cnt
         /\ \A x, y \in seen' :
              ~OnStack(x)' /\ ~OnStack(y)' /\ rpo[x] = rpo[y] => x = y
    BY <1>2, <1>12 DEF TraverseInv
  <1>14. \A x \in seen' \ {root} : ~OnStack(x)' =>
           \E p \in seen' : x \in g[p] /\ (OnStack(p)' \/ rpo[p] > rpo[x])
    BY <1>1, <1>2, <1>6, <1>12 DEF TraverseInv
  <1>15. TraverseInv'
    BY <1>8, <1>9, <1>10, <1>11, <1>13, <1>14 DEF TraverseInv
  <1> QED
    BY <1>2, <1>7, <1>8, <1>15 DEF IndInv

LEMMA LeaveInv == ASSUME IndInv, Leave PROVE IndInv'
  <1> DEFINE t == stack[Len(stack)]
  <1>1. TraverseInv /\ TypeOK /\ pc = "traverse" /\ stack # <<>>
    BY DEF IndInv, Leave
  <1>0. PICK L \in Nat : L = Len(stack)
    BY <1>1 DEF TypeOK
  <1>2. L \in Nat \ {0} /\ t = stack[L] /\ t \in Blocks /\ t \in seen
    BY <1>0, <1>1 DEF TypeOK, TraverseInv
  <1> HIDE DEF t
  <1>3. /\ rpo' = [rpo EXCEPT ![t] = bb_cnt] /\ bb_cnt' = bb_cnt + 1
        /\ stack' = SubSeq(stack, 1, L - 1)
        /\ UNCHANGED <<g, root, seen, idom, pc>>
    BY <1>0 DEF Leave, t
  <1>4. /\ stack' \in Seq(Blocks) /\ Len(stack') = L - 1
        /\ \A m \in 1..(L - 1) : stack'[m] = stack[m]
    <2>1. stack \in Seq(Blocks) /\ 1 \in 1..(L + 1) /\ L - 1 \in 0..L
      BY <1>1, <1>2 DEF TypeOK
    <2> QED
      BY <1>0, <1>2, <1>3, <2>1, SubSeqProperties
  <1>5. \A x : OnStack(x)' <=> OnStack(x) /\ x # t
    <2>1. ASSUME NEW x, OnStack(x)' PROVE OnStack(x) /\ x # t
      <3>1. PICK m \in 1..(L - 1) : stack'[m] = x
        BY <1>2, <1>4, <2>1 DEF OnStack
      <3>2. stack[m] = x /\ m \in 1..L /\ m # L /\ L \in 1..L
        BY <1>2, <1>4, <3>1
      <3> QED
        BY <1>0, <1>1, <1>2, <3>2 DEF OnStack, TraverseInv
    <2>2. ASSUME NEW x, OnStack(x), x # t PROVE OnStack(x)'
      <3>1. PICK m \in 1..L : stack[m] = x
        BY <1>0, <2>2 DEF OnStack
      <3>2. m \in 1..(L - 1)
        BY <1>2, <2>2, <3>1
      <3> QED
        BY <1>2, <1>4, <3>1, <3>2 DEF OnStack
    <2> QED
      BY <2>1, <2>2
  <1>6. TypeOK'
    BY <1>1, <1>2, <1>3, <1>4 DEF TypeOK, Leave, loop
  <1>7. /\ rpo'[t] = bb_cnt /\ \A x \in Blocks : x # t => rpo'[x] = rpo[x]
        /\ bb_cnt \in Nat /\ seen \subseteq Blocks
    BY <1>1, <1>2, <1>3 DEF TypeOK
  <1>8. ASSUME NEW x \in seen, ~OnStack(x)', x # t
        PROVE  ~OnStack(x) /\ rpo'[x] = rpo[x] /\ 0 <= rpo[x] /\ rpo[x] < bb_cnt
    BY <1>1, <1>5, <1>7, <1>8 DEF TraverseInv
  <1>9. \A x \in seen' : ~OnStack(x)' => 0 <= rpo'[x] /\ rpo'[x] < bb_cnt'
    BY <1>1, <1>3, <1>7, <1>8 DEF TypeOK
  <1>10. \A x, y \in seen' :
           ~OnStack(x)' /\ ~OnStack(y)' /\ rpo'[x] = rpo'[y] => x = y
    <2> SUFFICES ASSUME NEW x \in seen, NEW y \in seen,
                        ~OnStack(x)', ~OnStack(y)', rpo'[x] = rpo'[y]
                 PROVE  x = y
      BY <1>3
    <2>1. CASE x # t /\ y # t
      BY <1>1, <1>8, <2>1 DEF TraverseInv
    <2>2. CASE x = t \/ y = t
      BY <1>7, <1>8, <2>2, <1>1 DEF TypeOK
    <2> QED
      BY <2>1, <2>2
  <1>11. ASSUME NEW x \in seen \ {root}, ~OnStack(x)'
         PROVE  \E p \in seen : x \in g[p] /\ (OnStack(p)' \/ rpo'[p] > rpo'[x])
    <2>1. CASE x = t
      <3>1. L # 1
        BY <1>0, <1>1, <1>2, <2>1 DEF TraverseInv
      <3>2. L - 1 \in 1..L /\ L \in 2..L /\ L \in 1..L /\ L - 1 \in 1..(L - 1)
        BY <1>2, <3>1
      <3>3. stack[L - 1] \in seen /\ t \in g[stack[L - 1]]
        BY <1>0, <1>1, <1>2, <3>2 DEF TraverseInv
      <3>4. PICK p \in seen : p = stack[L - 1]
        BY <3>3
      <3>5. OnStack(p)'
        BY <1>4, <3>2, <3>4 DEF OnStack
      <3> QED
        BY <2>1, <3>3, <3>4, <3>5
    <2>2. CASE x # t
      <3>1. PICK p \in seen : x \in g[p] /\ (OnStack(p) \/ rpo[p] > rpo[x])
        BY <1>1, <1>8, <1>11, <2>2 DEF TraverseInv
      <3>2. CASE p = t
        BY <1>7, <1>8, <1>11, <2>2, <3>1, <3>2
      <3>3. CASE p # t
        BY <1>5, <1>7, <1>8, <1>11, <2>2, <3>1, <3>3
      <3> QED
        BY <3>2, <3>3
    <2> QED
      BY <2>1, <2>2
  <1>12. stack' = <<>> => \A x \in seen : rpo'[x] <= rpo'[root]
    <2> SUFFICES ASSUME stack' = <<>>, NEW x \in seen
                 PROVE  rpo'[x] <= rpo'[root]
      OBVIOUS
    <2>1. L = 1 /\ t = root
      <3>1. Len(stack') = 0
        OBVIOUS
      <3>2. L = 1
        BY <1>2, <1>4, <3>1
      <3> QED
        BY <1>1, <1>2, <3>2 DEF TraverseInv
    <2>2. ~OnStack(x)'
      BY <1>2, <1>4, <2>1 DEF OnStack
    <2>3. CASE x = t
      BY <1>7, <2>1, <2>3
    <2>4. CASE x # t
      BY <1>1, <1>7, <1>8, <2>1, <2>2, <2>4 DEF TypeOK
    <2> QED
      BY <2>3, <2>4
  <1>13. /\ \A m \in 1..Len(stack') : stack'[m] \in seen'
         /\ \A m, n \in 1..Len(stack') : stack'[m] = stack'[n] => m = n
         /\ stack' # <<>> => stack'[1] = root
         /\ \A m \in 2..Len(stack') : stack'[m] \in g[stack'[m - 1]]
    BY <1>0, <1>1, <1>2, <1>3, <1>4 DEF TraverseInv
  <1>14. TraverseInv'
    BY <1>1, <1>3, <1>9, <1>10, <1>11, <1>12, <1>13 DEF TraverseInv
  <1> QED
    BY <1>1, <1>3, <1>6, <1>14 DEF IndInv

\* The numbers are turned round, and the first candidate is the root's.
LEMMA ReverseInv == ASSUME IndInv, Reverse PROVE IndInv'
  <1>1. TraverseInv /\ TypeOK /\ stack = <<>>
    BY DEF IndInv, Reverse
  <1>2. /\ \A b \in Blocks : rpo'[b] = bb_cnt - rpo[b]
        /\ idom' = [idom EXCEPT ![root] = root] /\ bb' = root /\ pc' = "next"
        /\ UNCHANGED <<g, root, seen>>
    BY DEF Reverse, Reversed, traversal
  <1>3. TypeOK'
    BY <1>1 DEF TypeOK, Reverse, Reversed, traversal
  <1>4. /\ \A b \in Blocks : rpo[b] \in Int
        /\ bb_cnt \in Int /\ root \in Blocks /\ seen \subseteq Blocks
    BY <1>1 DEF TypeOK
  <1>5. \A b : ~OnStack(b)
    BY <1>1 DEF OnStack
  <1>6. OrderInv'
    <2>1. \A b, c \in seen : rpo'[b] = rpo'[c] => b = c
      BY <1>1, <1>2, <1>4, <1>5 DEF TraverseInv
    <2>2. \A b \in seen : rpo'[root] <= rpo'[b]
      BY <1>1, <1>2, <1>4 DEF TraverseInv
    <2>3. \A b \in seen \ {root} : \E p \in seen : b \in g[p] /\ rpo'[p] < rpo'[b]
      BY <1>1, <1>2, <1>4, <1>5 DEF TraverseInv
    <2> QED
      BY <1>1, <1>2, <2>1, <2>2, <2>3 DEF OrderInv, TraverseInv
  <1>7. idom'[root] = root /\ \A b \in Blocks \ {root} : idom'[b] = NULL
    BY <1>1, <1>2, <1>4 DEF TraverseInv, None
  <1>8. root # NULL
    BY <1>4 DEF Blocks, NULL
  <1>9. TreeInv'
    BY <1>1, <1>2, <1>4, <1>7, <1>8 DEF TreeInv, TraverseInv
  <1>10. LoopInv'
    <2>1. \A c \in seen : rpo'[c] <= rpo'[root] => c = root
      BY <1>1, <1>2, <1>4, <1>5 DEF TraverseInv
    <2> QED
      BY <1>1, <1>2, <1>7, <1>8, <2>1 DEF LoopInv, TraverseInv
  <1> QED
    BY <1>2, <1>3, <1>6, <1>9, <1>10 DEF IndInv

-----------------------------------------------------------------------------
(* The iteration.  Every step but Assign leaves the tree alone.            *)

LEMMA SameTree ==
    ASSUME OrderInv, TreeInv, UNCHANGED <<g, root, seen, rpo, idom>>
    PROVE  OrderInv' /\ TreeInv'
  BY DEF OrderInv, TreeInv

\* A predecessor that comes before the block has a candidate.
LEMMA NextBlockInv == ASSUME IndInv, NextBlock PROVE IndInv'
  <1>1. TypeOK /\ OrderInv /\ TreeInv /\ LoopInv /\ pc = "next"
    BY DEF IndInv, NextBlock
  <1>2. PICK b \in RpoNext(rpo, bb) :
          /\ bb' = b
          /\ \/ /\ \A p \in Preds(b) : idom[p] = NULL
                /\ pc' = "stuck" /\ UNCHANGED <<pred, todo>>
             \/ \E p \in Preds(b) :
                  /\ idom[p] # NULL /\ pred' = p
                  /\ todo' = Preds(b) \ {p} /\ pc' = "merge"
    BY DEF NextBlock
  <1>3. UNCHANGED <<g, root, seen, rpo, idom, stack, bb_cnt, changed, i, j>>
    BY DEF NextBlock, traversal, results
  <1>4. /\ b \in seen /\ rpo[b] = rpo[bb] + 1 /\ bb \in seen
        /\ seen \subseteq Blocks /\ \A c \in Blocks : rpo[c] \in Int
    BY <1>1 DEF RpoNext, LoopInv, TypeOK
  <1>5. b # root
    BY <1>1, <1>4 DEF OrderInv
  <1>6. \A c \in seen : rpo[c] < rpo[b] => idom[c] # NULL
    BY <1>1, <1>4 DEF LoopInv
  <1>7. PICK q \in seen : b \in g[q] /\ rpo[q] < rpo[b]
    BY <1>1, <1>4, <1>5 DEF OrderInv
  <1>8. q \in Preds(b) /\ idom[q] # NULL
    BY <1>4, <1>6, <1>7 DEF Preds
  <1>9. PICK p \in Preds(b) :
          /\ idom[p] # NULL /\ pred' = p
          /\ todo' = Preds(b) \ {p} /\ pc' = "merge"
    BY <1>2, <1>8
  <1>10. p \in Blocks /\ todo' \subseteq Blocks
    BY <1>9 DEF Preds
  <1>11. TypeOK'
    BY <1>1, <1>2, <1>3, <1>4, <1>9, <1>10 DEF TypeOK
  <1>12. Before(pred)' \/ \E a \in todo' : Before(a)'
    BY <1>2, <1>3, <1>7, <1>8, <1>9 DEF Before
  <1>13. LoopInv'
    BY <1>2, <1>3, <1>4, <1>5, <1>6, <1>9, <1>12 DEF LoopInv
  <1> QED
    BY <1>1, <1>3, <1>9, <1>11, <1>13, SameTree DEF IndInv

LEMMA MergeInv == ASSUME IndInv, Merge PROVE IndInv'
  <1>1. TypeOK /\ OrderInv /\ TreeInv /\ LoopInv /\ pc = "merge"
    BY DEF IndInv, Merge
  <1>2. UNCHANGED <<g, root, seen, rpo, idom, stack, bb_cnt, changed, bb, pred>>
    BY DEF Merge, traversal, results
  <1>3. PICK p \in todo :
          /\ todo' = todo \ {p}
          /\ \/ /\ p = pred \/ idom[p] = NULL
                /\ UNCHANGED <<pc, i, j>>
             \/ /\ p # pred /\ idom[p] # NULL
                /\ pc' = "intersect" /\ i' = p /\ j' = pred
    BY DEF Merge
  <1>4. p \in Blocks /\ pred \in Blocks
    BY <1>1 DEF TypeOK
  <1>5. TypeOK'
    BY <1>1, <1>2, <1>3, <1>4 DEF TypeOK
  <1>6. Before(pred) \/ \E q \in todo : Before(q)
    BY <1>1 DEF LoopInv
  <1>7. CASE pc' = "merge"
    <2>1. p = pred \/ idom[p] = NULL
      BY <1>3, <1>7
    <2>2. Before(pred) \/ \E q \in todo' : Before(q)
      BY <1>3, <1>6, <2>1 DEF Before
    <2>3. LoopInv'
      BY <1>1, <1>2, <1>7, <2>2 DEF LoopInv, Before
    <2> QED
      BY <1>1, <1>2, <1>5, <1>7, <2>3, SameTree DEF IndInv
  <1>8. CASE pc' = "intersect"
    <2>1. i' = p /\ j' = pred /\ idom[p] # NULL /\ idom[pred] # NULL
      BY <1>1, <1>3, <1>8 DEF LoopInv
    <2>2. Before(i)' \/ Before(j)' \/ \E q \in todo' : Before(q)'
      BY <1>2, <1>3, <1>6, <2>1 DEF Before
    <2>3. LoopInv'
      BY <1>1, <1>2, <1>8, <2>1, <2>2 DEF LoopInv
    <2> QED
      BY <1>1, <1>2, <1>5, <1>8, <2>3, SameTree DEF IndInv
  <1> QED
    BY <1>1, <1>3, <1>7, <1>8

\* The deeper finger is not at the root, and its candidate comes before it.
LEMMA ClimbInv == ASSUME IndInv, Climb PROVE IndInv'
  <1>1. TypeOK /\ OrderInv /\ TreeInv /\ LoopInv /\ pc = "intersect"
    BY DEF IndInv, Climb
  <1>2. UNCHANGED <<g, root, seen, rpo, idom, stack, bb_cnt, changed, bb, todo, pred>>
    BY DEF Climb, traversal, results
  <1>3. /\ i \in Blocks /\ j \in Blocks /\ \A c \in Blocks : rpo[c] \in Int
        /\ \A c \in Blocks : idom[c] \in Blocks \cup {NULL}
        /\ bb \in Blocks /\ root \in Blocks
    BY <1>1 DEF TypeOK
  <1>4. idom[i] # NULL /\ idom[j] # NULL /\ i \in seen /\ j \in seen
    BY <1>1, <1>3 DEF LoopInv, TreeInv
  <1>5. /\ idom[i] \in Blocks /\ idom[j] \in Blocks
        /\ idom[idom[i]] # NULL /\ idom[idom[j]] # NULL
    BY <1>1, <1>3, <1>4 DEF TreeInv
  <1>6. NULL \notin Blocks
    BY DEF NULL, Blocks
  <1>7. Before(i) \/ Before(j) \/ \E q \in todo : Before(q)
    BY <1>1 DEF LoopInv
  <1>8. CASE rpo[i] > rpo[j] /\ i' = idom[i] /\ UNCHANGED j
    <2>1. i # root
      BY <1>1, <1>3, <1>4, <1>8 DEF OrderInv
    <2>2. rpo[idom[i]] < rpo[i]
      BY <1>1, <1>3, <1>4, <2>1 DEF TreeInv
    <2>3. Before(i) => Before(idom[i])
      BY <1>3, <1>5, <2>2 DEF Before
    <2>4. Before(i)' \/ Before(j)' \/ \E q \in todo' : Before(q)'
      BY <1>2, <1>7, <1>8, <2>3 DEF Before
    <2>5. pc' = "intersect" /\ i' \in Blocks /\ j' \in Blocks
      BY <1>1, <1>3, <1>5, <1>6, <1>8 DEF Climb
    <2>6. idom'[i'] # NULL /\ idom'[j'] # NULL
      BY <1>2, <1>4, <1>5, <1>8
    <2>7. LoopInv'
      BY <1>1, <1>2, <2>4, <2>5, <2>6 DEF LoopInv
    <2>8. TypeOK'
      BY <1>1, <1>2, <2>5 DEF TypeOK
    <2> QED
      BY <1>1, <1>2, <2>5, <2>7, <2>8, SameTree DEF IndInv
  <1>9. CASE rpo[j] > rpo[i] /\ j' = idom[j] /\ UNCHANGED i
    <2>1. j # root
      BY <1>1, <1>3, <1>4, <1>9 DEF OrderInv
    <2>2. rpo[idom[j]] < rpo[j]
      BY <1>1, <1>3, <1>4, <2>1 DEF TreeInv
    <2>3. Before(j) => Before(idom[j])
      BY <1>3, <1>5, <2>2 DEF Before
    <2>4. Before(i)' \/ Before(j)' \/ \E q \in todo' : Before(q)'
      BY <1>2, <1>7, <1>9, <2>3 DEF Before
    <2>5. pc' = "intersect" /\ i' \in Blocks /\ j' \in Blocks
      BY <1>1, <1>3, <1>5, <1>6, <1>9 DEF Climb
    <2>6. idom'[i'] # NULL /\ idom'[j'] # NULL
      BY <1>2, <1>4, <1>5, <1>9
    <2>7. LoopInv'
      BY <1>1, <1>2, <2>4, <2>5, <2>6 DEF LoopInv
    <2>8. TypeOK'
      BY <1>1, <1>2, <2>5 DEF TypeOK
    <2> QED
      BY <1>1, <1>2, <2>5, <2>7, <2>8, SameTree DEF IndInv
  <1> QED
    BY <1>8, <1>9 DEF Climb

LEMMA MetInv == ASSUME IndInv, Met PROVE IndInv'
  <1>1. TypeOK /\ OrderInv /\ TreeInv /\ LoopInv /\ pc = "intersect" /\ i = j
    BY DEF IndInv, Met
  <1>2. /\ UNCHANGED <<g, root, seen, rpo, idom, stack, bb_cnt, changed, bb, todo>>
        /\ pred' = i /\ pc' = "merge" /\ i' = NULL /\ j' = NULL
    BY DEF Met, traversal, results
  <1>3. TypeOK'
    BY <1>1, <1>2 DEF TypeOK
  <1>4. Before(pred)' \/ \E q \in todo' : Before(q)'
    BY <1>1, <1>2 DEF LoopInv, Before
  <1>5. LoopInv'
    BY <1>1, <1>2, <1>4 DEF LoopInv
  <1> QED
    BY <1>1, <1>2, <1>3, <1>5, SameTree DEF IndInv

\* With no predecessor left, the common dominator itself comes before the
\* block.
LEMMA AssignInv == ASSUME IndInv, Assign PROVE IndInv'
  <1>1. TypeOK /\ OrderInv /\ TreeInv /\ LoopInv /\ pc = "merge" /\ todo = {}
    BY DEF IndInv, Assign
  <1>2. /\ UNCHANGED <<g, root, seen, rpo, stack, bb_cnt, bb, todo, i, j>>
        /\ idom' = [idom EXCEPT ![bb] = pred]
        /\ changed' = (changed \/ idom[bb] # pred)
        /\ pc' = "next" /\ pred' = NULL
    BY DEF Assign, traversal
  <1>3. /\ bb \in Blocks /\ pred \in Blocks /\ \A c \in Blocks : rpo[c] \in Int
        /\ seen \subseteq Blocks /\ idom \in [Blocks -> Blocks \cup {NULL}]
        /\ root \in Blocks
    BY <1>1 DEF TypeOK
  <1>4. Before(pred) /\ bb # root /\ bb \in seen
    BY <1>1 DEF LoopInv
  <1>5. idom'[bb] = pred /\ \A c \in Blocks : c # bb => idom'[c] = idom[c]
    BY <1>2, <1>3
  <1>6. NULL \notin Blocks
    BY DEF NULL, Blocks
  <1>7. TypeOK'
    <2>1. changed' \in BOOLEAN
      BY <1>2
    <2>2. idom' \in [Blocks -> Blocks \cup {NULL}]
      BY <1>2, <1>3
    <2> QED
      BY <1>1, <1>2, <2>1, <2>2 DEF TypeOK
  <1>8. OrderInv'
    BY <1>1, <1>2 DEF OrderInv
  <1>9. TreeInv'
    <2>1. idom'[root] = root
      BY <1>1, <1>3, <1>4, <1>5 DEF TreeInv
    <2>2. \A c \in Blocks : idom[c] # NULL => idom'[c] # NULL
      BY <1>3, <1>5, <1>6
    <2>3. pred \in seen /\ idom'[pred] # NULL
      BY <1>1, <1>3, <1>4, <2>2 DEF TreeInv, Before
    <2>4. ASSUME NEW c \in Blocks, idom'[c] # NULL
          PROVE  c \in seen /\ idom'[c] \in seen /\ idom'[idom'[c]] # NULL
      <3>1. CASE c = bb
        BY <1>4, <1>5, <2>3, <3>1
      <3>2. CASE c # bb
        <4>1. idom'[c] = idom[c] /\ idom[c] # NULL
          BY <1>5, <2>4, <3>2
        <4>2. c \in seen /\ idom[c] \in seen /\ idom[idom[c]] # NULL
          BY <1>1, <4>1 DEF TreeInv
        <4>3. idom[c] \in Blocks
          BY <1>3, <4>2
        <4> QED
          BY <2>2, <4>1, <4>2, <4>3
      <3> QED
        BY <3>1, <3>2
    <2>5. ASSUME NEW c \in Blocks \ {root}, idom'[c] # NULL
          PROVE  rpo[idom'[c]] < rpo[c]
      <3>1. CASE c = bb
        BY <1>4, <1>5, <3>1 DEF Before
      <3>2. CASE c # bb
        BY <1>1, <1>5, <2>5, <3>2 DEF TreeInv
      <3> QED
        BY <3>1, <3>2
    <2> QED
      BY <1>2, <2>1, <2>4, <2>5 DEF TreeInv
  <1>10. LoopInv'
    <2>1. ASSUME NEW c \in seen, rpo[c] <= rpo[bb] PROVE idom'[c] # NULL
      <3>1. CASE c = bb
        BY <1>3, <1>5, <1>6, <3>1
      <3>2. CASE c # bb
        <4>1. rpo[c] # rpo[bb]
          BY <1>1, <1>4, <3>2 DEF OrderInv
        <4>2. rpo[c] < rpo[bb]
          BY <1>3, <2>1, <4>1
        <4> QED
          BY <1>1, <1>3, <1>5, <3>2, <4>2 DEF LoopInv
      <3> QED
        BY <3>1, <3>2
    <2> QED
      BY <1>2, <1>4, <2>1 DEF LoopInv
  <1> QED
    BY <1>2, <1>7, <1>8, <1>9, <1>10 DEF IndInv

\* The next pass starts at the root.
LEMMA PassEndsInv == ASSUME IndInv, PassEnds PROVE IndInv'
  <1>1. TypeOK /\ OrderInv /\ TreeInv /\ LoopInv /\ pc = "next"
    BY DEF IndInv, PassEnds
  <1>2. /\ UNCHANGED <<g, root, seen, rpo, idom, stack, bb_cnt, todo, pred, i, j>>
        /\ bb' = root /\ changed' = FALSE /\ pc' \in {"next", "tree"}
    BY DEF PassEnds, traversal, results
  <1>3. TypeOK'
    BY <1>1, <1>2 DEF TypeOK
  <1>4. LoopInv'
    <2>1. \A c \in Blocks : rpo[c] \in Int
      BY <1>1 DEF TypeOK
    <2>2. root \in Blocks /\ seen \subseteq Blocks /\ root \in seen
      BY <1>1 DEF TypeOK, OrderInv
    <2>3. \A c \in seen : rpo[c] <= rpo[root] => c = root
      BY <1>1, <2>1, <2>2 DEF OrderInv
    <2>4. root # NULL
      BY <2>2 DEF NULL, Blocks
    <2> QED
      BY <1>1, <1>2, <2>2, <2>3, <2>4 DEF LoopInv, TreeInv
  <1> QED
    BY <1>1, <1>2, <1>3, <1>4, SameTree DEF IndInv

LEMMA ResultInv == ASSUME IndInv, BuildDom \/ BuildDf PROVE IndInv'
  <1>1. TypeOK /\ OrderInv /\ TreeInv /\ pc \in {"tree", "frontier"}
    BY DEF IndInv, BuildDom, BuildDf
  <1>2. /\ UNCHANGED <<g, root, seen, rpo, idom, stack, bb_cnt, changed, bb,
                       todo, pred, i, j>>
        /\ pc' \in {"frontier", "done", "lost"}
    BY DEF BuildDom, BuildDf, traversal, loop
  <1>3. TypeOK'
    BY <1>1, <1>2 DEF TypeOK
  <1> QED
    BY <1>1, <1>2, <1>3, SameTree DEF IndInv

-----------------------------------------------------------------------------

\* Every step of the analysis keeps the numbering, the tree and the place of
\* the candidates.
THEOREM Invariance == Spec => []IndInv
  <1>1. IndInv /\ [Next]_vars => IndInv'
    <2> SUFFICES ASSUME IndInv, [Next]_vars PROVE IndInv'
      OBVIOUS
    <2>1. CASE UNCHANGED vars
      BY <2>1 DEF vars, traversal, loop, results, IndInv, TypeOK, TraverseInv,
         OnStack, OrderInv, TreeInv, LoopInv, Before
    <2>2. CASE Done
      BY <2>1, <2>2 DEF Done
    <2> QED
      BY <2>1, <2>2, VisitInv, LeaveInv, ReverseInv, NextBlockInv, MergeInv,
         ClimbInv, MetInv, AssignInv, PassEndsInv, ResultInv DEF Next
  <1> QED
    BY <1>1, InitInv, PTL DEF Spec

\* The state of the analysis is well typed; every pointer that build_idom()
\* follows is a block.
THEOREM TypeCorrect == Spec => []TypeOK
  BY Invariance, PTL DEF IndInv

\* On every graph, whatever its loops: a candidate dominator comes before its
\* block, a predecessor with a candidate is always found and intersect()
\* never leaves the tree.
THEOREM Candidates == Spec => []CandidatesAbove
  <1>1. IndInv => CandidatesAbove
    BY DEF IndInv, TreeInv, CandidatesAbove, Iterating
  <1> QED
    BY <1>1, Invariance, PTL

-----------------------------------------------------------------------------
(* The dominators, for the graphs the parser builds.                       *)

\* Every block is reached from the root, which has no predecessor.
Rooted ==
    /\ IsGraph(g) /\ root \in Blocks
    /\ Reach(g, {root}, {}) = Blocks /\ Preds(root) = {}

\* The traversal leaves a block when its successors are visited, and gives
\* out the numbers one after the other.
CoverInv ==
    /\ \A b \in seen : ~OnStack(b) => g[b] \subseteq seen
    /\ \A n \in 0..(bb_cnt - 1) : \E b \in seen : ~OnStack(b) /\ rpo[b] = n
NumberInv ==
    /\ seen = Blocks
    /\ \A b \in Blocks : rpo[b] \in Nat
    /\ \A b, c \in Blocks : rpo[b] < rpo[c] => \E d \in Blocks : rpo[d] = rpo[b] + 1

\* No candidate is above a dominator: what dominates b strictly dominates the
\* candidate of b, and whatever the fingers and the common dominator so far
\* have climbed to.
Dom(a, b) == Dominates(g, root, a, b)
SDom(a, b) == a # b /\ Dom(a, b)
BelowInv ==
    /\ \A b \in Blocks \ {root} : idom[b] # NULL =>
         \A d \in Blocks : SDom(d, b) => Dom(d, idom[b])
    /\ pc \in {"merge", "intersect"} =>
         /\ todo \subseteq Preds(bb)
         /\ \A d \in Blocks : SDom(d, bb) => Dom(d, pred)
    /\ pc = "intersect" =>
         \A d \in Blocks : SDom(d, bb) => Dom(d, i) /\ Dom(d, j)

\* The blocks on the way from b to the root of the tree, b included.
Upward(T) == \A c \in T : idom[c] # NULL => idom[c] \in T
Above(b) == {a \in Blocks : \A T \in SUBSET Blocks : b \in T /\ Upward(T) => a \in T}

\* The candidate of b is above all the predecessors of b.
Settled(b) == \A p \in Preds(b) : idom[b] \in Above(p)
\* The common dominator is above the predecessors merged so far; as long as
\* nothing has changed, the blocks passed have the candidates they will keep.
MergeAbove ==
    /\ pc = "merge" =>
         \A p \in Preds(bb) \ todo : idom[p] # NULL => pred \in Above(p)
    /\ pc = "intersect" =>
         \A p \in Preds(bb) \ todo : idom[p] # NULL => i \in Above(p) \/ j \in Above(p)
Passed(b) == rpo[b] < rpo[bb] \/ (pc = "next" /\ rpo[b] = rpo[bb])
PassInv ==
    /\ pc \in {"next", "merge", "intersect"} /\ ~changed =>
         /\ \/ \A b \in Blocks \ {root} : idom[b] = NULL
            \/ \A b \in Blocks : idom[b] # NULL
         /\ \A b \in Blocks \ {root} : Passed(b) => Settled(b)
    /\ pc \in {"tree", "frontier", "done", "lost"} =>
         \A b \in Blocks : idom[b] # NULL /\ (b # root => Settled(b))

DomInv ==
    /\ Rooted
    /\ pc = "traverse" => CoverInv
    /\ pc # "traverse" => NumberInv /\ BelowInv /\ MergeAbove /\ PassInv
         /\ TreeInv /\ OrderInv

LEMMA TransposeGraph == \A out : IsGraph(Transpose(out))
BY DEF IsGraph, Transpose

LEMMA InitDom == ASSUME Graphs \subseteq FlowGraphs, Init PROVE DomInv
<1>1. PICK out \in Graphs, dir \in Directions :
        /\ g = IF dir = "fwd" THEN out ELSE Transpose(out)
        /\ root = IF dir = "fwd" THEN entry ELSE exit
  BY DEF Init
<1>2. out \in FlowGraphs
  BY <1>1
<1>3. Rooted
  <2>1. CASE dir = "fwd"
    BY <1>1, <1>2, <2>1, FlowRooted, BlocksFinite DEF Rooted, Preds
  <2>2. CASE dir # "fwd"
    <3>1. g = Transpose(out) /\ root = exit
      BY <1>1, <2>2
    <3>2. Preds(exit) = {}
      BY <1>2, <3>1, FlowRooted DEF Preds, Transpose
    <3> QED BY <1>2, <3>1, <3>2, FlowRooted, TransposeGraph, BlocksFinite DEF Rooted
  <2> QED BY <2>1, <2>2
<1>4. pc = "traverse" /\ stack = <<root>> /\ seen = {root} /\ bb_cnt = 0
  BY DEF Init
<1>5. OnStack(root)
  BY <1>4 DEF OnStack
<1>6. CoverInv
  BY <1>4, <1>5 DEF CoverInv
<1> QED BY <1>3, <1>4, <1>6 DEF DomInv

\* Rooted speaks of what no step changes.
LEMMA SameRoot == ASSUME Rooted, UNCHANGED <<g, root>> PROVE Rooted'
BY DEF Rooted, Preds

LEMMA VisitDom == ASSUME IndInv, DomInv, Visit PROVE DomInv'
<1>1. TraverseInv /\ TypeOK /\ CoverInv /\ Rooted /\ pc = "traverse" /\ stack # <<>>
  BY DEF IndInv, DomInv, Visit
<1>2. PICK b \in g[stack[Len(stack)]] \ seen :
        stack' = Append(stack, b) /\ seen' = seen \cup {b}
  BY DEF Visit
<1>3. UNCHANGED <<g, root, pc, bb_cnt, rpo>>
  BY DEF Visit, results
<1>4. Len(stack) \in Nat \ {0} /\ stack \in Seq(Blocks) /\ stack[Len(stack)] \in Blocks
  BY <1>1 DEF TypeOK
<1>5. b \in Blocks
  BY <1>1, <1>2, <1>4 DEF TypeOK
<1>6. /\ Len(stack') = Len(stack) + 1 /\ stack'[Len(stack) + 1] = b
      /\ \A m \in 1..Len(stack) : stack'[m] = stack[m]
  BY <1>2, <1>4, <1>5
<1>7. \A x : OnStack(x)' <=> OnStack(x) \/ x = b
  BY <1>4, <1>6 DEF OnStack
<1>8. \A x : OnStack(x) => x \in seen
  BY <1>1 DEF OnStack, TraverseInv
<1>9. CoverInv'
  <2>1. \A x \in seen' : ~OnStack(x)' => g'[x] \subseteq seen'
    BY <1>1, <1>2, <1>3, <1>7 DEF CoverInv
  <2>2. ASSUME NEW n \in 0..(bb_cnt' - 1)
        PROVE  \E x \in seen' : ~OnStack(x)' /\ rpo'[x] = n
    <3>1. PICK x \in seen : ~OnStack(x) /\ rpo[x] = n
      BY <1>1, <1>3 DEF CoverInv
    <3> QED BY <1>2, <1>3, <1>7, <3>1
  <2> QED BY <2>1, <2>2 DEF CoverInv
<1> QED BY <1>1, <1>3, <1>9, SameRoot DEF DomInv

LEMMA LeaveDom == ASSUME IndInv, DomInv, Leave PROVE DomInv'
<1> DEFINE t == stack[Len(stack)]
<1>1. TraverseInv /\ TypeOK /\ CoverInv /\ Rooted /\ pc = "traverse" /\ stack # <<>>
  BY DEF IndInv, DomInv, Leave
<1>0. PICK L \in Nat : L = Len(stack)
  BY <1>1 DEF TypeOK
<1>2. L \in Nat \ {0} /\ t = stack[L] /\ t \in Blocks /\ t \in seen
  BY <1>0, <1>1 DEF TypeOK, TraverseInv
<1>20. g[t] \subseteq seen
  BY DEF Leave
<1> HIDE DEF t
<1>3. /\ rpo' = [rpo EXCEPT ![t] = bb_cnt] /\ bb_cnt' = bb_cnt + 1
      /\ stack' = SubSeq(stack, 1, L - 1)
      /\ UNCHANGED <<g, root, seen, pc>>
  BY <1>0 DEF Leave, t
<1>4. Len(stack') = L - 1 /\ \A m \in 1..(L - 1) : stack'[m] = stack[m]
  <2>1. stack \in Seq(Blocks) /\ 1 \in 1..(L + 1) /\ L - 1 \in 0..L
    BY <1>1, <1>2 DEF TypeOK
  <2> QED BY <1>0, <1>2, <1>3, <2>1, SubSeqProperties
<1>5. \A x : OnStack(x) => OnStack(x)' \/ x = t
  <2> SUFFICES ASSUME NEW x, OnStack(x), x # t PROVE OnStack(x)'
    OBVIOUS
  <2>1. PICK m \in 1..L : stack[m] = x
    BY <1>0 DEF OnStack
  <2>2. m \in 1..(L - 1)
    BY <1>2, <2>1
  <2> QED BY <1>2, <1>4, <2>1, <2>2 DEF OnStack
<1>50. \A x : OnStack(x)' => OnStack(x) /\ x # t
  <2> SUFFICES ASSUME NEW x, OnStack(x)' PROVE OnStack(x) /\ x # t
    OBVIOUS
  <2>1. PICK m \in 1..(L - 1) : stack'[m] = x
    BY <1>2, <1>4 DEF OnStack
  <2>2. stack[m] = x /\ m \in 1..L /\ m # L /\ L \in 1..L
    BY <1>2, <1>4, <2>1
  <2> QED BY <1>0, <1>1, <1>2, <2>2 DEF OnStack, TraverseInv
<1>6. /\ rpo'[t] = bb_cnt /\ bb_cnt \in Nat /\ seen \subseteq Blocks
      /\ \A x \in Blocks : x # t => rpo'[x] = rpo[x]
  BY <1>1, <1>2, <1>3 DEF TypeOK
<1>7. OnStack(t)
  BY <1>0, <1>2 DEF OnStack
<1>8. CoverInv'
  <2>1. \A x \in seen' : ~OnStack(x)' => g'[x] \subseteq seen'
    BY <1>1, <1>20, <1>3, <1>5 DEF CoverInv
  <2>2. ASSUME NEW n \in 0..bb_cnt
        PROVE  \E x \in seen : ~OnStack(x)' /\ rpo'[x] = n
    <3>1. CASE n = bb_cnt
      BY <1>2, <1>50, <1>6, <3>1
    <3>2. CASE n # bb_cnt
      <4>1. n \in 0..(bb_cnt - 1)
        BY <1>6, <3>2
      <4>2. PICK x \in seen : ~OnStack(x) /\ rpo[x] = n
        BY <1>1, <4>1 DEF CoverInv
      <4>3. x # t /\ ~OnStack(x)'
        BY <1>50, <1>7, <4>2
      <4> QED BY <1>6, <4>2, <4>3
    <3> QED BY <3>1, <3>2
  <2>3. bb_cnt' - 1 = bb_cnt
    BY <1>3, <1>6
  <2> QED BY <1>3, <2>1, <2>2, <2>3 DEF CoverInv
<1> QED BY <1>1, <1>3, <1>8, SameRoot DEF DomInv

LEMMA ReverseDom == ASSUME IndInv, DomInv, Reverse PROVE DomInv'
<1>1. TraverseInv /\ TypeOK /\ CoverInv /\ Rooted /\ stack = <<>>
  BY DEF IndInv, DomInv, Reverse
<1>2. /\ \A b \in Blocks : rpo'[b] = bb_cnt - rpo[b]
      /\ idom' = [idom EXCEPT ![root] = root] /\ bb' = root /\ pc' = "next"
      /\ UNCHANGED <<g, root, seen, todo, pred, i, j>>
  BY DEF Reverse, Reversed, traversal
<1>3. /\ \A b \in Blocks : rpo[b] \in Int
      /\ bb_cnt \in Nat /\ root \in Blocks /\ seen \subseteq Blocks /\ root \in seen
  BY <1>1 DEF TypeOK, TraverseInv
<1>4. \A b : ~OnStack(b)
  BY <1>1 DEF OnStack
<1>5. OrderInv' /\ TreeInv'
  BY <1>2, ReverseInv DEF IndInv
<1>6. seen = Blocks
  <2>1. {root} \in SUBSET Blocks /\ {root} \ {} \subseteq seen
    BY <1>3
  <2>2. \A b \in seen \cap (Blocks \ {}) : g[b] \ {} \subseteq seen
    BY <1>1, <1>4 DEF CoverInv
  <2>3. Reach(g, {root}, {}) \subseteq seen
    BY <1>1, <2>1, <2>2, ReachLeast DEF Rooted
  <2> QED BY <1>1, <1>3, <2>3 DEF Rooted
<1>7. \A b \in Blocks : 0 <= rpo[b] /\ rpo[b] < bb_cnt
  BY <1>1, <1>4, <1>6 DEF TraverseInv
<1>8. NumberInv'
  <2>1. \A b \in Blocks : rpo'[b] \in Nat
    BY <1>2, <1>3, <1>7
  <2>2. ASSUME NEW b \in Blocks, NEW c \in Blocks, rpo'[b] < rpo'[c]
        PROVE  \E d \in Blocks : rpo'[d] = rpo'[b] + 1
    <3>1. rpo[b] - 1 \in 0..(bb_cnt - 1)
      BY <1>2, <1>3, <1>7, <2>2
    <3>2. PICK d \in seen : rpo[d] = rpo[b] - 1
      BY <1>1, <3>1 DEF CoverInv
    <3>3. d \in Blocks /\ rpo'[d] = rpo'[b] + 1
      BY <1>2, <1>3, <3>2
    <3> QED BY <3>3
  <2> QED BY <1>2, <1>6, <2>1, <2>2 DEF NumberInv
<1>9. \A b \in Blocks \ {root} : idom'[b] = NULL
  BY <1>1, <1>2, <1>3 DEF TraverseInv, None
<1>10. BelowInv' /\ MergeAbove'
  BY <1>2, <1>9 DEF BelowInv, MergeAbove
<1>11. PassInv'
  <2>1. \A b \in Blocks : rpo'[b] <= rpo'[root] => b = root
    BY <1>2, <1>3, <1>5, <1>6, <1>8 DEF OrderInv, NumberInv
  <2>2. \A b \in Blocks : Passed(b)' => rpo'[b] <= rpo'[root]
    BY <1>2, <1>3, <1>8 DEF Passed, NumberInv
  <2> QED BY <1>2, <1>9, <2>1, <2>2 DEF PassInv
<1> QED BY <1>1, <1>2, <1>5, <1>8, <1>10, <1>11, SameRoot DEF DomInv

-----------------------------------------------------------------------------
(* The way up the tree, and the numbers on it.                             *)

LEMMA AboveSelf == ASSUME NEW b \in Blocks PROVE b \in Above(b)
BY DEF Above

LEMMA AboveStep ==
    ASSUME NEW b, NEW a \in Above(b), idom[a] \in Blocks, idom[a] # NULL
    PROVE  idom[a] \in Above(b)
BY DEF Above, Upward

LEMMA AboveTrans ==
    ASSUME NEW a, NEW b, NEW c, a \in Above(b), b \in Above(c)
    PROVE  a \in Above(c)
BY DEF Above

\* A dominator has the smaller number: from every block a path of smaller
\* and smaller numbers leads back to the root.
LEMMA DominatorFirst ==
    ASSUME Rooted, NumberInv, OrderInv, NEW a \in Blocks, NEW b \in Blocks,
           Dom(a, b), a # b
    PROVE  rpo[a] < rpo[b]
<1> DEFINE T == {x \in Blocks : rpo[x] < rpo[a] /\ Dom(a, x)}
           R == {rpo[x] : x \in T}
<1>0. /\ \A x \in Blocks : rpo[x] \in Nat
      /\ \A x, y \in Blocks : rpo[x] = rpo[y] => x = y
      /\ \A x \in Blocks \ {root} : \E p \in Blocks : x \in g[p] /\ rpo[p] < rpo[x]
      /\ root \in Blocks /\ IsGraph(g)
  BY DEF Rooted, NumberInv, OrderInv
<1> SUFFICES ASSUME T # {} PROVE FALSE
  BY <1>0
<1>1. R \subseteq Nat /\ R # {}
  BY <1>0
<1>2. PICK n \in R : \A m \in R : n <= m
  BY <1>1, LeastNat
<1>3. PICK x \in T : \A y \in T : rpo[x] <= rpo[y]
  BY <1>2
<1>4. x # a
  BY <1>0
<1>5. x # root
  BY <1>0, <1>4, Undominated DEF Dom
<1>6. PICK p \in Blocks : x \in g[p] /\ rpo[p] < rpo[x]
  BY <1>0, <1>5
<1>7. Dom(a, p)
  BY <1>0, <1>4, <1>6, Undominated DEF Dom
<1>8. p \in T
  BY <1>0, <1>6, <1>7
<1> QED BY <1>0, <1>3, <1>6, <1>8

-----------------------------------------------------------------------------
(* The steps of the iteration.                                             *)

LEMMA NextBlockDom == ASSUME IndInv, DomInv, NextBlock PROVE DomInv'
<1>1. /\ TypeOK /\ OrderInv /\ TreeInv /\ LoopInv /\ pc = "next"
      /\ Rooted /\ NumberInv /\ BelowInv /\ PassInv
  BY DEF IndInv, DomInv, NextBlock
<1>2. PICK b \in RpoNext(rpo, bb) :
        /\ bb' = b
        /\ \/ /\ \A p \in Preds(b) : idom[p] = NULL
              /\ pc' = "stuck" /\ UNCHANGED <<pred, todo>>
           \/ \E p \in Preds(b) :
                /\ idom[p] # NULL /\ pred' = p
                /\ todo' = Preds(b) \ {p} /\ pc' = "merge"
  BY DEF NextBlock
<1>3. UNCHANGED <<g, root, seen, rpo, idom, changed>>
  BY DEF NextBlock, traversal, results
<1>4. pc' # "stuck"
  BY NextBlockInv DEF IndInv
<1>5. PICK p \in Preds(b) :
        /\ idom[p] # NULL /\ pred' = p /\ todo' = Preds(b) \ {p} /\ pc' = "merge"
  BY <1>2, <1>4
<1>6. /\ p \in Blocks /\ b \in g[p] /\ b \in Blocks /\ rpo[b] = rpo[bb] + 1
      /\ IsGraph(g) /\ root \in Blocks /\ bb \in Blocks
  BY <1>1, <1>2, <1>5 DEF Preds, RpoNext, Rooted, NumberInv, LoopInv
<1>7. Rooted' /\ NumberInv' /\ OrderInv' /\ TreeInv'
  BY <1>1, <1>3, SameRoot, SameTree DEF NumberInv, RpoNext
<1>8. BelowInv'
  <2>1. todo' \subseteq Preds(bb)'
    BY <1>2, <1>3, <1>5 DEF Preds
  <2>2. \A d \in Blocks : SDom(d, b) => Dom(d, p)
    BY <1>6, Undominated DEF SDom, Dom
  <2> QED BY <1>1, <1>2, <1>3, <1>5, <2>1, <2>2 DEF BelowInv, Dom, SDom
<1>9. MergeAbove'
  <2>1. p \in Above(p)
    BY <1>6, AboveSelf
  <2>2. Preds(bb)' \ todo' = {p}
    BY <1>2, <1>3, <1>5 DEF Preds
  <2> QED BY <1>3, <1>5, <2>1, <2>2 DEF MergeAbove, Above, Upward
<1>10. PassInv'
  <2>1. \A c \in Blocks : Passed(c)' => Passed(c)
    BY <1>1, <1>2, <1>3, <1>5, <1>6 DEF Passed, NumberInv
  <2>2. \A c : Settled(c)' <=> Settled(c)
    BY <1>3 DEF Settled, Preds, Above, Upward
  <2> QED BY <1>1, <1>3, <1>5, <2>1, <2>2 DEF PassInv
<1> QED BY <1>5, <1>7, <1>8, <1>9, <1>10 DEF DomInv

\* Steps that leave the tree and the pass alone.
LEMMA SameAbove ==
    ASSUME UNCHANGED <<g, root, seen, rpo, idom, changed, bb>>
    PROVE  /\ \A a, b : Dom(a, b)' <=> Dom(a, b)
           /\ \A a, b : SDom(a, b)' <=> SDom(a, b)
           /\ \A a, b : (a \in Above(b))' <=> a \in Above(b)
           /\ \A b : Preds(b)' = Preds(b)
           /\ \A b : Settled(b)' <=> Settled(b)
BY DEF Dom, SDom, Above, Upward, Preds, Settled

LEMMA SamePass ==
    ASSUME OrderInv, TreeInv, Rooted, NumberInv, PassInv,
           UNCHANGED <<g, root, seen, rpo, idom, changed, bb>>,
           pc \in {"merge", "intersect"}, pc' \in {"merge", "intersect"}
    PROVE  OrderInv' /\ TreeInv' /\ Rooted' /\ NumberInv' /\ PassInv'
<1>1. OrderInv' /\ TreeInv' /\ Rooted' /\ NumberInv'
  BY SameTree, SameRoot DEF NumberInv
<1>2. \A c : Passed(c)' <=> Passed(c)
  BY DEF Passed
<1>3. PassInv'
  BY <1>2, SameAbove DEF PassInv
<1> QED BY <1>1, <1>3

LEMMA MergeDom == ASSUME IndInv, DomInv, Merge PROVE DomInv'
<1>1. /\ TypeOK /\ OrderInv /\ TreeInv /\ LoopInv /\ pc = "merge"
      /\ Rooted /\ NumberInv /\ BelowInv /\ MergeAbove /\ PassInv
  BY DEF IndInv, DomInv, Merge
<1>2. UNCHANGED <<g, root, seen, rpo, idom, changed, bb, pred>>
  BY DEF Merge, traversal, results
<1>3. PICK p \in todo :
        /\ todo' = todo \ {p}
        /\ \/ /\ p = pred \/ idom[p] = NULL
              /\ UNCHANGED <<pc, i, j>>
           \/ /\ p # pred /\ idom[p] # NULL
              /\ pc' = "intersect" /\ i' = p /\ j' = pred
  BY DEF Merge
<1>4. pc' \in {"merge", "intersect"}
  BY <1>1, <1>3
<1>5. /\ IsGraph(g) /\ root \in Blocks /\ bb \in Blocks /\ pred \in Blocks
      /\ p \in Blocks /\ bb \in g[p]
  BY <1>1, <1>3 DEF Rooted, BelowInv, Preds, TypeOK
<1>6. \A d \in Blocks : SDom(d, bb) => Dom(d, p) /\ Dom(d, pred)
  BY <1>1, <1>5, Undominated DEF SDom, Dom, BelowInv
<1>7. BelowInv'
  BY <1>1, <1>2, <1>3, <1>6, SameAbove DEF BelowInv
<1>8. p \in Above(p)
  BY <1>5, AboveSelf
<1>9. MergeAbove'
  <2>1. CASE pc' = "merge"
    <3>1. p = pred \/ idom[p] = NULL
      BY <1>3, <2>1
    <3>2. \A q \in Preds(bb) \ todo' : idom[q] # NULL => pred \in Above(q)
      BY <1>1, <1>3, <1>8, <3>1 DEF MergeAbove
    <3> QED BY <1>2, <2>1, <3>2, SameAbove DEF MergeAbove
  <2>2. CASE pc' = "intersect"
    <3>1. i' = p /\ j' = pred
      BY <1>1, <1>3, <2>2
    <3>2. \A q \in Preds(bb) \ todo' : idom[q] # NULL => p \in Above(q) \/ pred \in Above(q)
      BY <1>1, <1>3, <1>8 DEF MergeAbove
    <3> QED BY <1>2, <2>2, <3>1, <3>2, SameAbove DEF MergeAbove
  <2> QED BY <1>4, <2>1, <2>2
<1>10. OrderInv' /\ TreeInv' /\ Rooted' /\ NumberInv' /\ PassInv'
  BY <1>1, <1>2, <1>4, SamePass
<1> QED BY <1>4, <1>7, <1>9, <1>10 DEF DomInv

\* The finger that climbs is not above a dominator: the other one is below it
\* too, and has the smaller number.
LEMMA ClimbDom == ASSUME IndInv, DomInv, Climb PROVE DomInv'
<1>1. /\ TypeOK /\ OrderInv /\ TreeInv /\ LoopInv /\ pc = "intersect"
      /\ Rooted /\ NumberInv /\ BelowInv /\ MergeAbove /\ PassInv
  BY DEF IndInv, DomInv, Climb
<1>2. /\ UNCHANGED <<g, root, seen, rpo, idom, changed, bb, pred, todo>>
      /\ i # j
      /\ \/ rpo[i] > rpo[j] /\ i' = idom[i] /\ UNCHANGED j
         \/ rpo[j] > rpo[i] /\ j' = idom[j] /\ UNCHANGED i
  BY DEF Climb, traversal, results
<1>3. pc' = "intersect"
  <2>1. pc' \in {"stuck", pc}
    BY DEF Climb
  <2> QED BY <1>1, <2>1, ClimbInv DEF IndInv
<1>4. /\ i \in Blocks /\ j \in Blocks /\ idom[i] # NULL /\ idom[j] # NULL
      /\ idom[i] \in Blocks /\ idom[j] \in Blocks
      /\ \A x \in Blocks : rpo[x] \in Nat /\ rpo[root] <= rpo[x]
  BY <1>1 DEF TypeOK, LoopInv, NumberInv, OrderInv
\* Either finger, with the other one before it.
<1>5. ASSUME NEW x \in Blocks, NEW y \in Blocks, rpo[x] > rpo[y], idom[x] # NULL,
             NEW d \in Blocks, Dom(d, x), Dom(d, y)
      PROVE  Dom(d, idom[x])
  <2>1. x # root
    BY <1>4, <1>5
  <2>2. d # x
    BY <1>1, <1>4, <1>5, DominatorFirst
  <2> QED BY <1>1, <1>5, <2>1, <2>2 DEF BelowInv, SDom
<1>6. \A d \in Blocks : SDom(d, bb) => Dom(d, i') /\ Dom(d, j')
  BY <1>1, <1>2, <1>4, <1>5 DEF BelowInv
<1>7. BelowInv'
  <2>1. BelowInv /\ UNCHANGED <<g, root, idom, bb, pred, todo>>
    BY <1>1, <1>2
  <2> QED BY <1>1, <1>2, <1>3, <1>6, <2>1, SameAbove DEF BelowInv
<1>8. MergeAbove'
  <2>1. \A q : i \in Above(q) => idom[i] \in Above(q)
    BY <1>4, AboveStep
  <2>2. \A q : j \in Above(q) => idom[j] \in Above(q)
    BY <1>4, AboveStep
  <2>3. \A q \in Preds(bb) \ todo : idom[q] # NULL => i' \in Above(q) \/ j' \in Above(q)
    BY <1>1, <1>2, <2>1, <2>2 DEF MergeAbove
  <2> QED BY <1>2, <1>3, <2>3, SameAbove DEF MergeAbove
<1>9. OrderInv' /\ TreeInv' /\ Rooted' /\ NumberInv' /\ PassInv'
  BY <1>1, <1>2, <1>3, SamePass
<1> QED BY <1>3, <1>7, <1>8, <1>9 DEF DomInv

LEMMA MetDom == ASSUME IndInv, DomInv, Met PROVE DomInv'
<1>1. /\ TypeOK /\ OrderInv /\ TreeInv /\ pc = "intersect" /\ i = j
      /\ Rooted /\ NumberInv /\ BelowInv /\ MergeAbove /\ PassInv
  BY DEF IndInv, DomInv, Met
<1>2. /\ UNCHANGED <<g, root, seen, rpo, idom, changed, bb, todo>>
      /\ pred' = i /\ pc' = "merge"
  BY DEF Met, traversal, results
<1>3. BelowInv'
  BY <1>1, <1>2, SameAbove DEF BelowInv
<1>4. MergeAbove'
  BY <1>1, <1>2, SameAbove DEF MergeAbove
<1>5. OrderInv' /\ TreeInv' /\ Rooted' /\ NumberInv' /\ PassInv'
  BY <1>1, <1>2, SamePass
<1> QED BY <1>2, <1>3, <1>4, <1>5 DEF DomInv

\* A pass without a change leaves the tree as it is.
LEMMA AssignDom == ASSUME IndInv, DomInv, Assign PROVE DomInv'
<1>1. /\ TypeOK /\ OrderInv /\ TreeInv /\ LoopInv /\ pc = "merge" /\ todo = {}
      /\ Rooted /\ NumberInv /\ BelowInv /\ MergeAbove /\ PassInv
  BY DEF IndInv, DomInv, Assign
<1>2. /\ UNCHANGED <<g, root, seen, rpo, bb, todo>>
      /\ idom' = [idom EXCEPT ![bb] = pred]
      /\ changed' = (changed \/ idom[bb] # pred)
      /\ pc' = "next"
  BY DEF Assign, traversal
<1>3. /\ bb \in Blocks /\ pred \in Blocks /\ bb # root
      /\ idom \in [Blocks -> Blocks \cup {NULL}]
      /\ pred # NULL
  BY <1>1 DEF TypeOK, LoopInv, NULL, Blocks
<1>4. OrderInv' /\ TreeInv'
  BY <1>2, AssignInv DEF IndInv
<1>5. Rooted' /\ NumberInv'
  BY <1>1, <1>2, SameRoot DEF NumberInv
<1>6. idom'[bb] = pred /\ \A c \in Blocks : c # bb => idom'[c] = idom[c]
  BY <1>2, <1>3
<1>7. BelowInv'
  <2>1. \A a, b : Dom(a, b)' <=> Dom(a, b)
    BY <1>2 DEF Dom
  <2>2. \A a, b : SDom(a, b)' <=> SDom(a, b)
    BY <2>1 DEF SDom
  <2>3. \A d \in Blocks : SDom(d, bb) => Dom(d, pred)
    BY <1>1 DEF BelowInv
  <2>4. ASSUME NEW b \in Blocks \ {root}, idom'[b] # NULL,
               NEW d \in Blocks, SDom(d, b)
        PROVE  Dom(d, idom'[b])
    <3>1. CASE b = bb
      BY <1>6, <2>3, <2>4, <3>1
    <3>2. CASE b # bb
      BY <1>1, <1>6, <2>4, <3>2 DEF BelowInv
    <3> QED BY <3>1, <3>2
  <2> QED BY <1>2, <2>1, <2>2, <2>4 DEF BelowInv
<1>8. MergeAbove'
  BY <1>2 DEF MergeAbove
<1>9. PassInv'
  <2> SUFFICES ASSUME ~changed' PROVE PassInv'
    BY <1>2 DEF PassInv
  <2>1. ~changed /\ idom[bb] = pred
    BY <1>1, <1>2 DEF TypeOK
  <2>2. idom' = idom /\ changed' = changed
    BY <1>1, <1>2, <1>3, <2>1 DEF TypeOK
  <2>3. \A b \in Blocks : idom[b] # NULL
    BY <1>1, <1>3, <2>1 DEF PassInv
  <2>4. Settled(bb)
    <3>1. \A p \in Preds(bb) : p \in Blocks
      BY DEF Preds
    <3> QED BY <1>1, <2>1, <2>3, <3>1 DEF Settled, MergeAbove
  <2>5. ASSUME NEW b \in Blocks \ {root}, Passed(b)' PROVE Settled(b)
    <3>1. rpo[b] < rpo[bb] \/ rpo[b] = rpo[bb]
      BY <1>2, <2>5 DEF Passed
    <3>2. CASE rpo[b] < rpo[bb]
      BY <1>1, <2>1, <3>2 DEF PassInv, Passed
    <3>3. CASE rpo[b] = rpo[bb]
      <4>1. b = bb
        BY <1>1, <1>3, <3>3 DEF OrderInv, NumberInv
      <4> QED BY <2>4, <4>1
    <3> QED BY <3>1, <3>2, <3>3
  <2>6. \A b : Settled(b)' <=> Settled(b)
    BY <1>2, <2>2, SameAbove
  <2> QED BY <1>2, <2>2, <2>3, <2>5, <2>6 DEF PassInv
<1> QED BY <1>2, <1>4, <1>5, <1>7, <1>8, <1>9 DEF DomInv

\* The block without a next one has the largest number: every block was
\* passed.
LEMMA LastBlock ==
    ASSUME NumberInv, RpoNext(rpo, bb) = {}, bb \in Blocks, NEW b \in Blocks
    PROVE  rpo[b] <= rpo[bb]
<1>1. \A d \in Blocks : rpo[d] # rpo[bb] + 1
  BY DEF NumberInv, RpoNext
<1> QED BY <1>1 DEF NumberInv

LEMMA PassEndsDom == ASSUME IndInv, DomInv, PassEnds PROVE DomInv'
<1>1. /\ TypeOK /\ OrderInv /\ TreeInv /\ LoopInv /\ pc = "next"
      /\ Rooted /\ NumberInv /\ BelowInv /\ PassInv
  BY DEF IndInv, DomInv, PassEnds
<1>2. /\ RpoNext(rpo, bb) = {} /\ bb' = root /\ changed' = FALSE
      /\ pc' = IF changed THEN "next" ELSE "tree"
      /\ UNCHANGED <<g, root, seen, rpo, idom>>
  BY DEF PassEnds, traversal, results
<1>3. bb \in Blocks /\ root \in Blocks
  BY <1>1 DEF TypeOK
<1>4. \A b \in Blocks : rpo[b] <= rpo[bb]
  BY <1>1, <1>2, <1>3, LastBlock
<1>5. \A b \in Blocks : idom[b] # NULL
  BY <1>1, <1>4 DEF LoopInv, NumberInv
<1>6. /\ \A a, b : Dom(a, b)' <=> Dom(a, b)
      /\ \A a, b : SDom(a, b)' <=> SDom(a, b)
      /\ \A b : Settled(b)' <=> Settled(b)
  BY <1>2 DEF Dom, SDom, Above, Upward, Preds, Settled
<1>7. OrderInv' /\ TreeInv' /\ Rooted' /\ NumberInv'
  BY <1>1, <1>2, SameTree, SameRoot DEF NumberInv
<1>8. BelowInv' /\ MergeAbove'
  BY <1>1, <1>2, <1>6 DEF BelowInv, MergeAbove
<1>9. PassInv'
  <2>1. CASE changed
    <3>1. \A b \in Blocks : rpo[b] \in Nat /\ rpo[root] <= rpo[b]
      BY <1>1 DEF NumberInv, OrderInv
    <3>2. \A b \in Blocks : Passed(b)' => b = root
      BY <1>1, <1>2, <1>3, <3>1 DEF Passed, OrderInv, NumberInv
    <3> QED BY <1>2, <1>5, <2>1, <3>2 DEF PassInv
  <2>2. CASE ~changed
    <3>1. \A b \in Blocks : Passed(b)
      BY <1>1, <1>3, <1>4 DEF Passed, NumberInv
    <3>2. \A b \in Blocks \ {root} : Settled(b)
      BY <1>1, <2>2, <3>1 DEF PassInv
    <3> QED BY <1>2, <1>5, <1>6, <2>2, <3>2 DEF PassInv
  <2> QED BY <2>1, <2>2
<1>10. pc' # "traverse"
  BY <1>2
<1> QED BY <1>7, <1>8, <1>9, <1>10 DEF DomInv

LEMMA ResultDom == ASSUME IndInv, DomInv, BuildDom \/ BuildDf PROVE DomInv'
<1>1. /\ OrderInv /\ TreeInv /\ pc \in {"tree", "frontier"}
      /\ Rooted /\ NumberInv /\ BelowInv /\ PassInv
  BY DEF IndInv, DomInv, BuildDom, BuildDf
<1>2. /\ UNCHANGED <<g, root, seen, rpo, idom, changed, bb>>
      /\ pc' \in {"frontier", "done", "lost"}
  BY DEF BuildDom, BuildDf, traversal, loop
<1>3. BelowInv' /\ MergeAbove' /\ PassInv'
  BY <1>1, <1>2, SameAbove DEF BelowInv, MergeAbove, PassInv
<1> QED BY <1>1, <1>2, <1>3, SameTree, SameRoot DEF DomInv, NumberInv

\* On the graphs the parser builds, no candidate is ever above a dominator,
\* and the iteration stops only when every candidate is above all the
\* predecessors of its block.
THEOREM DominatorInvariance ==
    ASSUME Graphs \subseteq FlowGraphs PROVE Spec => []DomInv
<1>1. IndInv /\ DomInv /\ [Next]_vars => DomInv'
  <2> SUFFICES ASSUME IndInv, DomInv, [Next]_vars PROVE DomInv'
    OBVIOUS
  <2>1. CASE UNCHANGED vars
    <3>1. /\ UNCHANGED <<g, root, seen, rpo, idom, changed, bb, pc, stack, bb_cnt,
                         todo, pred, i, j>>
      BY <2>1 DEF vars, traversal, loop, results
    <3>2. Rooted' <=> Rooted
      BY <3>1 DEF Rooted, Preds
    <3>3. CoverInv' <=> CoverInv
      BY <3>1 DEF CoverInv, OnStack
    <3>4. NumberInv' <=> NumberInv
      BY <3>1 DEF NumberInv
    <3>5. BelowInv => BelowInv'
      BY <3>1, SameAbove DEF BelowInv
    <3>6. MergeAbove => MergeAbove'
      BY <3>1, SameAbove DEF MergeAbove
    <3>7. PassInv => PassInv'
      BY <3>1, SameAbove DEF PassInv, Passed
    <3>8. TreeInv /\ OrderInv => TreeInv' /\ OrderInv'
      BY <3>1, SameTree
    <3> QED BY <3>1, <3>2, <3>3, <3>4, <3>5, <3>6, <3>7, <3>8 DEF DomInv
  <2>2. CASE Done
    BY <2>1, <2>2 DEF Done
  <2> QED
    BY <2>1, <2>2, VisitDom, LeaveDom, ReverseDom, NextBlockDom, MergeDom,
       ClimbDom, MetDom, AssignDom, PassEndsDom, ResultDom DEF Next
<1>2. Init => DomInv
  BY InitDom
<1> QED
  BY <1>1, <1>2, Invariance, PTL DEF Spec

-----------------------------------------------------------------------------
(* What the iteration has computed when it stops.                          *)

\* The dominator tree.
DomTree ==
    /\ Rooted /\ NumberInv /\ OrderInv
    /\ \A b \in Blocks : idom[b] \in Blocks
    /\ \A b \in Blocks \ {root} :
         /\ rpo[idom[b]] < rpo[b] /\ Dom(idom[b], b)
         /\ \A d \in Blocks : SDom(d, b) => Dom(d, idom[b])

LEMMA AboveSplit ==
    ASSUME idom \in [Blocks -> Blocks \cup {NULL}], NEW b \in Blocks,
           idom[b] \in Blocks, NEW a \in Above(b), a # b
    PROVE  a \in Above(idom[b])
<1> DEFINE T == {b} \cup Above(idom[b])
<1>1. T \in SUBSET Blocks
  BY DEF Above
<1>2. Upward(T)
  <2> SUFFICES ASSUME NEW c \in T, idom[c] # NULL PROVE idom[c] \in T
    BY DEF Upward
  <2>1. CASE c = b
    BY <2>1, AboveSelf
  <2>2. CASE c # b
    <3>1. idom[c] \in Blocks
      BY <1>1
    <3> QED BY <2>2, <3>1, AboveStep
  <2> QED BY <2>1, <2>2
<1>3. b \in T
  OBVIOUS
<1>4. a \in T
  BY <1>1, <1>2, <1>3 DEF Above
<1> QED BY <1>4

\* Whatever is above b in the tree dominates b: the blocks that it is not
\* above of cannot be left by a path around it.
LEMMA AboveDominates ==
    ASSUME TypeOK, DomInv, pc \in {"tree", "frontier", "done", "lost"},
           NEW b \in Blocks, NEW a \in Above(b)
    PROVE  Dom(a, b)
<1>1. /\ IsGraph(g) /\ root \in Blocks /\ Preds(root) = {}
      /\ idom[root] = root /\ a \in Blocks
      /\ idom \in [Blocks -> Blocks \cup {NULL}]
      /\ \A c \in Blocks : idom[c] # NULL /\ (c # root => Settled(c))
  BY DEF DomInv, Rooted, TreeInv, PassInv, TypeOK, Above
<1> DEFINE T == {x \in Blocks : a \notin Above(x)}
<1>2. root # a => root \in T
  <2>1. {root} \in SUBSET Blocks /\ Upward({root})
    BY <1>1 DEF Upward
  <2>2. a \in Above(root) => a \in {root}
    BY <2>1 DEF Above
  <2> QED BY <1>1, <2>2
<1>3. \A x \in T \cap Blocks : \A y \in g[x] : x # a /\ y # a => y \in T
  <2> SUFFICES ASSUME NEW x \in T, NEW y \in g[x], y # a, a \in Above(y)
               PROVE  FALSE
    BY <1>1 DEF IsGraph
  <2>1. y \in Blocks /\ x \in Preds(y)
    BY <1>1 DEF IsGraph, Preds
  <2>2. idom[y] \in Above(x)
    BY <1>1, <2>1 DEF Settled
  <2>3. idom[y] \in Blocks
    BY <1>1, <2>1
  <2>4. a \in Above(idom[y])
    BY <1>1, <2>1, <2>3, AboveSplit
  <2> QED BY <2>2, <2>4, AboveTrans
<1>4. b \notin T
  OBVIOUS
<1> HIDE DEF T
<1> QED BY <1>1, <1>2, <1>3, <1>4, DominatesOutside DEF Dom

LEMMA TreeFound ==
    ASSUME TypeOK, DomInv, pc \in {"tree", "frontier", "done", "lost"}
    PROVE  DomTree
<1>1. /\ Rooted /\ NumberInv /\ OrderInv /\ TreeInv /\ BelowInv
      /\ \A b \in Blocks : idom[b] # NULL
      /\ idom \in [Blocks -> Blocks \cup {NULL}]
  BY DEF DomInv, PassInv, TypeOK
<1>2. ASSUME NEW b \in Blocks PROVE idom[b] \in Above(b)
  BY <1>1, AboveSelf, AboveStep
<1> QED BY <1>1, <1>2, AboveDominates DEF DomTree, BelowInv, TreeInv

\* The result of build_idom() is the dominator tree of every graph the parser
\* builds, for any number of blocks, in whichever order the traversal took the
\* successors and the loop the predecessors.
THEOREM Idom ==
    ASSUME Graphs \subseteq FlowGraphs PROVE Spec => []IdomCorrect
<1>1. IndInv /\ DomInv => IdomCorrect
  <2> SUFFICES ASSUME TypeOK, DomInv, pc \in {"tree", "frontier", "done"},
                      NEW b \in Blocks \ {root}
               PROVE  IsIdom(g, root, idom[b], b)
    BY DEF IndInv, IdomCorrect
  <2>1. DomTree
    BY TreeFound
  <2>2. idom[b] \in Blocks /\ idom[b] # b
    BY <2>1 DEF DomTree, NumberInv
  <2> QED BY <2>1, <2>2 DEF DomTree, IsIdom, StrictDoms, Dom, SDom
<1> QED BY <1>1, Invariance, DominatorInvariance, PTL

-----------------------------------------------------------------------------
(* The frontiers.                                                          *)

\* The dominator tree below stop, as a graph.
Up(stop) == [a \in Blocks |-> IF a = stop THEN {} ELSE {idom[a]}]

\* The walk of bb_build_df().
LEMMA WayReach ==
    ASSUME \A b \in Blocks : idom[b] \in Blocks,
           NEW b \in Blocks, NEW stop \in Blocks
    PROVE  /\ IsGraph(Up(stop))
           /\ Way(b, stop) = Reach(Up(stop), {b}, {}) \ {stop}
<1> DEFINE Def(R) == [k \in Nat |->
                        IF k = 0 THEN {b}
                        ELSE R[k - 1] \cup {idom[a] : a \in R[k - 1] \ {stop, NULL}}]
           C == CHOOSE R : R = Def(R)
<1>1. IsGraph(Up(stop))
  BY DEF IsGraph, Up
<1>2. {b} \in SUBSET Blocks
  OBVIOUS
<1>3. PICK G : IsChain(G, Up(stop), {b}, {})
  BY <1>1, <1>2, ReachChain, Zenon
<1>4. /\ G \in [Nat -> SUBSET Blocks]
      /\ G[0] = {b}
      /\ \A k \in Nat : G[k + 1] = Onward(Up(stop), {}, G[k])
      /\ Reach(Up(stop), {b}, {}) = G[N]
  BY <1>3 DEF IsChain
<1>5. ASSUME NEW B \in SUBSET Blocks
      PROVE  Onward(Up(stop), {}, B) = B \cup {idom[a] : a \in B \ {stop, NULL}}
  <2>1. NULL \notin Blocks
    BY DEF NULL, Blocks
  <2>2. \A a \in B : Up(stop)[a] = IF a = stop THEN {} ELSE {idom[a]}
    BY DEF Up
  <2>3. ASSUME NEW x, NEW a \in B
        PROVE  x \in Up(stop)[a] <=> a \notin {stop, NULL} /\ x = idom[a]
    BY <2>1, <2>2
  <2> HIDE DEF Up
  <2>4. \A x : x \in Onward(Up(stop), {}, B) <=>
                x \in B \/ \E a \in B : x \in Up(stop)[a]
    BY DEF Onward
  <2>5. \A x : x \in Onward(Up(stop), {}, B) <=>
                x \in B \cup {idom[a] : a \in B \ {stop, NULL}}
    BY <2>3, <2>4
  <2> QED BY <2>5
<1>6. G = Def(G)
  <2>1. ASSUME NEW k \in Nat PROVE G[k] = Def(G)[k]
    <3>1. CASE k = 0
      BY <1>4, <3>1
    <3>2. CASE k # 0
      <4>1. k - 1 \in Nat /\ (k - 1) + 1 = k
        BY <3>2
      <4>2. G[k] = Onward(Up(stop), {}, G[k - 1]) /\ G[k - 1] \in SUBSET Blocks
        BY <1>4, <4>1
      <4>3. G[k] = G[k - 1] \cup {idom[a] : a \in G[k - 1] \ {stop, NULL}}
        BY <1>5, <4>2
      <4> QED BY <3>2, <4>3
    <3> QED BY <3>1, <3>2
  <2> HIDE DEF Def
  <2>2. G = [k \in Nat |-> G[k]] /\ Def(G) = [k \in Nat |-> Def(G)[k]]
    BY <1>4 DEF Def
  <2> QED BY <2>1, <2>2
<1>7. C = Def(C)
  <2> HIDE DEF Def
  <2> QED BY <1>6
<1>8. Way(b, stop) = C[N] \ {stop}
  BY DEF Way
<1> HIDE DEF C
<1> DEFINE T == {k \in Nat : C[k] = G[k]}
<1>9. 0 \in T
  <2>1. C[0] = Def(C)[0]
    BY <1>7
  <2> QED BY <1>4, <2>1
<1>10. ASSUME NEW k \in Nat, k \in T PROVE k + 1 \in T
  <2>1. C[k + 1] = Def(C)[k + 1] /\ G[k + 1] = Def(G)[k + 1]
    BY <1>6, <1>7
  <2>2. k + 1 \in Nat /\ k + 1 # 0 /\ (k + 1) - 1 = k
    OBVIOUS
  <2>3. C[k] = G[k]
    BY <1>10
  <2> QED BY <2>1, <2>2, <2>3
<1> HIDE DEF T
<1>11. Nat \subseteq T
  BY <1>9, <1>10, SetInduction
<1>12. C[N] = G[N]
  BY <1>11, BlocksFinite DEF T
<1> QED BY <1>1, <1>4, <1>8, <1>12

\* A non-empty set of blocks has one with the smallest number.
LEMMA FirstBlock ==
    ASSUME NumberInv, NEW T \in SUBSET Blocks, T # {}
    PROVE  \E x \in T : \A y \in T : rpo[x] <= rpo[y]
<1>1. {rpo[x] : x \in T} \subseteq Nat /\ {rpo[x] : x \in T} # {}
  BY DEF NumberInv
<1>2. PICK n \in {rpo[x] : x \in T} : \A m \in {rpo[x] : x \in T} : n <= m
  BY <1>1, LeastNat
<1> QED BY <1>2

LEMMA DomFacts ==
    ASSUME DomTree
    PROVE  /\ \A a \in Blocks : Dom(a, a)
           /\ \A a, b, c \in Blocks : Dom(a, b) /\ Dom(b, c) => Dom(a, c)
           /\ \A a, b \in Blocks : SDom(a, b) => rpo[a] < rpo[b] /\ ~Dom(b, a)
           /\ \A a \in Blocks : ~SDom(a, root)
<1>1. Rooted /\ NumberInv /\ OrderInv /\ IsGraph(g) /\ root \in Blocks
      /\ \A a \in Blocks : rpo[a] \in Nat
  BY DEF DomTree, Rooted, NumberInv
<1>2. \A a \in Blocks : Dom(a, a)
  BY <1>1, Undominated DEF Dom
<1>3. \A a, b, c \in Blocks : Dom(a, b) /\ Dom(b, c) => Dom(a, c)
  BY <1>1, DominatesTrans DEF Dom
<1>4. \A a, b \in Blocks : SDom(a, b) => rpo[a] < rpo[b]
  BY <1>1, DominatorFirst DEF SDom
<1>5. \A a, b \in Blocks : SDom(a, b) => ~Dom(b, a)
  <2> SUFFICES ASSUME NEW a \in Blocks, NEW b \in Blocks, SDom(a, b), Dom(b, a)
               PROVE  FALSE
    OBVIOUS
  <2>1. SDom(b, a)
    BY DEF SDom
  <2> QED BY <1>1, <1>4, <2>1
<1>6. \A a \in Blocks : ~SDom(a, root)
  BY <1>1, Undominated DEF SDom, Dom
<1> QED BY <1>2, <1>3, <1>4, <1>5, <1>6

\* The dominators of a block are ordered by dominance.
LEMMA DomOrder ==
    ASSUME DomTree, NEW a \in Blocks, NEW c \in Blocks, NEW p \in Blocks,
           Dom(a, p), Dom(c, p)
    PROVE  Dom(a, c) \/ Dom(c, a)
<1> DEFINE T == {x \in Blocks : Dom(a, x) /\ Dom(c, x)}
<1>1. T \in SUBSET Blocks /\ T # {} /\ NumberInv
  BY DEF DomTree
<1> HIDE DEF T
<1>2. PICK x \in T : \A y \in T : rpo[x] <= rpo[y]
  BY <1>1, FirstBlock
<1>3. x \in Blocks /\ Dom(a, x) /\ Dom(c, x)
  BY <1>2 DEF T
<1>4. SUFFICES ASSUME a # x, c # x PROVE FALSE
  BY <1>3
<1>5. x # root
  BY <1>3, <1>4, DomFacts DEF SDom
<1>6. /\ idom[x] \in Blocks /\ rpo[idom[x]] < rpo[x] /\ rpo[x] \in Nat
      /\ rpo[idom[x]] \in Nat
      /\ Dom(a, idom[x]) /\ Dom(c, idom[x])
  BY <1>3, <1>4, <1>5 DEF DomTree, SDom, NumberInv
<1> QED BY <1>2, <1>6 DEF T

\* The walk from p to a dominator of p passes the blocks between them.
LEMMA WayBetween ==
    ASSUME DomTree, NEW p \in Blocks, NEW s \in Blocks, Dom(s, p)
    PROVE  /\ Way(p, s) = {a \in Blocks : Dom(a, p) /\ SDom(s, a)}
           /\ Meets(p, s)
<1>1. /\ \A b \in Blocks : idom[b] \in Blocks
      /\ \A b \in Blocks : rpo[b] \in Nat
      /\ NumberInv
      /\ \A b \in Blocks \ {root} :
           /\ rpo[idom[b]] < rpo[b] /\ Dom(idom[b], b)
           /\ \A d \in Blocks : SDom(d, b) => Dom(d, idom[b])
  BY DEF DomTree, NumberInv
<1> DEFINE W == Reach(Up(s), {p}, {})
           T == {a \in Blocks : Dom(a, p) /\ Dom(s, a)}
<1>2. IsGraph(Up(s)) /\ Way(p, s) = W \ {s} /\ {p} \in SUBSET Blocks
  BY <1>1, WayReach
<1>3. p \in W /\ W \subseteq Blocks /\ \A b \in W : b # s => idom[b] \in W
  <2>1. /\ {p} \ {} \subseteq Reach(Up(s), {p}, {})
        /\ Reach(Up(s), {p}, {}) \subseteq Blocks \ {}
        /\ \A b \in Reach(Up(s), {p}, {}) : Up(s)[b] \ {} \subseteq Reach(Up(s), {p}, {})
    BY <1>2, ReachClosed, Zenon
  <2> HIDE DEF W
  <2>2. p \in W /\ W \subseteq Blocks /\ \A b \in W : Up(s)[b] \subseteq W
    BY <2>1 DEF W
  <2> QED BY <2>2 DEF Up
\* The way from a block strictly below s goes on below s.
<1>4. ASSUME NEW x \in Blocks, Dom(s, x), x # s
      PROVE  x # root /\ Dom(s, idom[x]) /\ rpo[idom[x]] < rpo[x] /\ Dom(idom[x], x)
  BY <1>1, <1>4, DomFacts DEF SDom
<1>5. W \subseteq T
  <2>1. {p} \ {} \subseteq T
    BY DomFacts
  <2>2. \A b \in T \cap (Blocks \ {}) : Up(s)[b] \ {} \subseteq T
    <3> SUFFICES ASSUME NEW b \in T, b # s PROVE idom[b] \in T
      BY DEF Up
    <3>1. b \in Blocks /\ Dom(b, p) /\ Dom(s, b)
      OBVIOUS
    <3>2. Dom(s, idom[b]) /\ Dom(idom[b], b) /\ idom[b] \in Blocks
      BY <1>1, <1>4, <3>1
    <3>3. Dom(idom[b], p)
      BY <3>1, <3>2, DomFacts
    <3> QED BY <3>2, <3>3
  <2> HIDE DEF T
  <2> QED BY <1>2, <2>1, <2>2, ReachLeast, Zenon
<1>6. T \subseteq W
  <2> SUFFICES ASSUME NEW a \in T PROVE a \in W
    OBVIOUS
  <2>1. a \in Blocks /\ Dom(a, p) /\ Dom(s, a)
    OBVIOUS
  <2> DEFINE V == {x \in W : Dom(a, x)}
  <2>2. V \in SUBSET Blocks /\ V # {}
    BY <1>3, <2>1
  <2> HIDE DEF V, W
  <2>3. PICK x \in V : \A y \in V : rpo[x] <= rpo[y]
    BY <1>1, <2>2, FirstBlock
  <2>4. x \in W /\ Dom(a, x) /\ x \in Blocks
    BY <1>3, <2>3 DEF V
  <2>5. SUFFICES ASSUME a # x PROVE FALSE
    BY <2>4
  <2>6. SDom(a, x)
    BY <2>4, <2>5 DEF SDom
  <2>7. CASE x = s
    BY <2>1, <2>6, <2>7, DomFacts
  <2>8. CASE x # s
    <3>1. Dom(s, x)
      BY <1>5, <2>4
    <3>2. x # root /\ rpo[idom[x]] < rpo[x] /\ idom[x] \in W
      BY <1>3, <1>4, <2>4, <2>8, <3>1
    <3>3. Dom(a, idom[x])
      BY <1>1, <2>1, <2>4, <2>6, <3>2
    <3>4. idom[x] \in V /\ rpo[idom[x]] \in Nat /\ rpo[x] \in Nat
      BY <1>1, <2>4, <3>2, <3>3 DEF V
    <3> QED BY <2>3, <3>2, <3>4
  <2> QED BY <2>7, <2>8
<1>7. W = T
  BY <1>5, <1>6
<1>8. Way(p, s) = {a \in Blocks : Dom(a, p) /\ SDom(s, a)}
  BY <1>2, <1>7 DEF SDom
<1>9. Meets(p, s)
  <2> SUFFICES ASSUME p # s PROVE \E a \in Way(p, s) : idom[a] = s
    BY DEF Meets
  <2> DEFINE V == Way(p, s)
  <2>1. V \in SUBSET Blocks /\ V # {}
    BY <1>8, DomFacts DEF SDom
  <2> HIDE DEF V
  <2>2. PICK x \in V : \A y \in V : rpo[x] <= rpo[y]
    BY <1>1, <2>1, FirstBlock
  <2>3. x \in Blocks /\ x \in W /\ Dom(x, p) /\ Dom(s, x) /\ x # s
    BY <1>2, <1>8, <2>2 DEF V, SDom
  <2>4. rpo[idom[x]] < rpo[x] /\ idom[x] \in W /\ x # root
    BY <1>3, <1>4, <2>3
  <2>5. rpo[idom[x]] \in Nat /\ rpo[x] \in Nat
    BY <1>1, <2>3
  <2>6. idom[x] \notin V
    BY <2>2, <2>4, <2>5
  <2>7. idom[x] = s
    BY <1>2, <2>4, <2>6 DEF V
  <2> QED BY <2>2, <2>7 DEF V
<1> QED BY <1>8, <1>9

\* The walk from a predecessor of b to the dominator of b passes the
\* dominators of the predecessor that do not strictly dominate b.
LEMMA WayFrontier ==
    ASSUME DomTree, NEW b \in Blocks, NEW p \in Preds(b)
    PROVE  /\ Way(p, idom[b]) = {a \in Blocks : Dom(a, p) /\ ~SDom(a, b)}
           /\ Meets(p, idom[b])
<1>1. /\ p \in Blocks /\ b \in g[p] /\ IsGraph(g) /\ root \in Blocks
      /\ b # root /\ idom[b] \in Blocks /\ SDom(idom[b], b)
      /\ \A d \in Blocks : SDom(d, b) => Dom(d, idom[b])
  BY DEF DomTree, Preds, Rooted, SDom, NumberInv
<1>2. \A d \in Blocks : SDom(d, b) => Dom(d, p)
  BY <1>1, Undominated DEF SDom, Dom
<1>3. /\ Way(p, idom[b]) = {a \in Blocks : Dom(a, p) /\ SDom(idom[b], a)}
      /\ Meets(p, idom[b])
  BY <1>1, <1>2, WayBetween
<1>4. ASSUME NEW a \in Blocks, Dom(a, p), SDom(idom[b], a) PROVE ~SDom(a, b)
  BY <1>1, <1>4, DomFacts
<1>5. ASSUME NEW a \in Blocks, Dom(a, p), ~SDom(a, b) PROVE SDom(idom[b], a)
  <2>1. a # idom[b]
    BY <1>1, <1>5
  <2>2. ~Dom(a, idom[b])
    <3> SUFFICES ASSUME Dom(a, idom[b]) PROVE FALSE
      OBVIOUS
    <3>1. Dom(a, b)
      BY <1>1, DomFacts DEF SDom
    <3>2. a = b
      BY <1>5, <3>1 DEF SDom
    <3> QED BY <1>1, <3>2, DomFacts
  <2>3. Dom(idom[b], a)
    BY <1>1, <1>2, <1>5, <2>2, DomOrder
  <2> QED BY <2>1, <2>3 DEF SDom
<1> QED BY <1>3, <1>4, <1>5

\* build_df() finds the dominance frontier of every block, of every graph the
\* parser builds, and none of its walks misses its end.
THEOREM Frontiers ==
    ASSUME Graphs \subseteq FlowGraphs PROVE Spec => []FrontierCorrect
<1>1. Init => FrontierCorrect
  BY DEF Init, FrontierCorrect
<1>2. IndInv /\ DomInv /\ FrontierCorrect /\ [Next]_vars => FrontierCorrect'
  <2> SUFFICES ASSUME TypeOK, DomInv, FrontierCorrect, [Next]_vars
               PROVE  FrontierCorrect'
    BY DEF IndInv
  <2>1. CASE BuildDf
    <3>1. /\ pc = "frontier" /\ UNCHANGED <<g, root>>
          /\ \/ /\ \A b \in Blocks, p \in Blocks : p \in Preds(b) => Meets(p, idom[b])
                /\ DF' = [a \in Blocks |-> Entries(a)]
                /\ pc' = "done"
             \/ /\ \E b \in Blocks, p \in Blocks : p \in Preds(b) /\ ~Meets(p, idom[b])
                /\ pc' = "lost"
      BY <2>1 DEF BuildDf
    <3>2. DomTree
      BY <3>1, TreeFound
    <3>3. DF' = [a \in Blocks |-> Entries(a)] /\ pc' = "done"
      BY <3>1, <3>2, WayFrontier
    <3>4. ASSUME NEW a \in Blocks
          PROVE  {e[1] : e \in DF'[a]} = Frontier(g, root, a)
      <4>1. DF'[a] = Entries(a)
        BY <3>3
      <4>2. ASSUME NEW b \in {e[1] : e \in Entries(a)} PROVE b \in Frontier(g, root, a)
        <5>1. PICK e \in Entries(a) : b = e[1]
          BY <4>2
        <5>2. /\ b \in Blocks /\ e[2] \in Preds(b)
              /\ a \in Way(e[2], idom[b])
          BY <5>1 DEF Entries
        <5>3. Dom(a, e[2]) /\ ~SDom(a, b)
          BY <3>2, <5>2, WayFrontier
        <5> QED BY <5>2, <5>3 DEF Frontier, Transpose, StrictDoms, Dom, SDom, Preds
      <4>3. ASSUME NEW b \in Frontier(g, root, a) PROVE b \in {e[1] : e \in Entries(a)}
        <5>1. PICK p \in Preds(b) : Dom(a, p)
          BY DEF Frontier, Transpose, Preds, Dom
        <5>2. b \in Blocks /\ p \in Blocks /\ ~SDom(a, b)
          BY DEF Frontier, StrictDoms, Dom, SDom, Preds
        <5>3. a \in Way(p, idom[b])
          BY <3>2, <5>1, <5>2, WayFrontier
        <5>4. <<b, p>> \in Entries(a)
          BY <5>2, <5>3 DEF Entries
        <5>5. <<b, p>>[1] = b
          OBVIOUS
        <5> QED BY <5>4, <5>5
      <4> QED BY <4>1, <4>2, <4>3
    <3> QED BY <3>1, <3>3, <3>4 DEF FrontierCorrect
  <2>2. CASE ~BuildDf
    <3>1. /\ pc' = "done" => pc = "done" /\ UNCHANGED <<g, root, DF>>
          /\ pc' = "lost" => pc = "lost"
      BY <2>2 DEF Next, vars, Visit, Leave, Reverse, NextBlock, Merge, Climb, Met,
        Assign, PassEnds, BuildDom, Done, results, loop, traversal, TypeOK
    <3> QED BY <3>1 DEF FrontierCorrect
  <2> QED BY <2>1, <2>2
<1> QED BY <1>1, <1>2, Invariance, DominatorInvariance, PTL DEF Spec
=============================================================================
