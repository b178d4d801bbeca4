--------------------------- MODULE LivenessProofs ---------------------------
(***************************************************************************)
(* The liveness analysis is exact, and agrees with the elimination of dead *)
(* code before it, which leaves the order of the useful blocks as it was:  *)
(* for every number of blocks.                                             *)
(***************************************************************************)
EXTENDS Liveness, FlowGraphProofs, SequenceTheorems

-----------------------------------------------------------------------------
(* The orders of the blocks.                                               *)

Elems(s) == {s[n] : n \in 1..Len(s)}
Distinct(s) == \A m, n \in 1..Len(s) : s[m] = s[n] => m = n

LEMMA FrontOf ==
    ASSUME NEW S, NEW s \in Seq(S), s # << >>
    PROVE  /\ Len(s) \in Nat \ {0}
           /\ Last(s) \in Elems(s) /\ Last(s) \in S
           /\ Front(s) \in Seq(S) /\ Len(Front(s)) = Len(s) - 1
           /\ \A n \in 1..(Len(s) - 1) : Front(s)[n] = s[n]
           /\ Distinct(s) => /\ Distinct(Front(s))
                             /\ Elems(Front(s)) = Elems(s) \ {Last(s)}
<1>1. Len(s) \in Nat \ {0} /\ Last(s) = s[Len(s)] /\ s[Len(s)] \in S
      /\ Last(s) \in Elems(s)
  BY DEF Last, Elems
<1>2. Front(s) \in Seq(S) /\ Len(Front(s)) = Len(s) - 1
      /\ \A n \in 1..(Len(s) - 1) : Front(s)[n] = s[n]
  <2> DEFINE L == Len(s)
  <2>1. 1 \in Int /\ L - 1 \in Int /\ L \in Nat \ {0} /\ \A n \in 1..(L - 1) : s[n] \in S
    BY <1>1
  <2>2. Front(s) = SubSeq(s, 1, L - 1)
    BY DEF Front
  <2> HIDE DEF L
  <2>3. /\ SubSeq(s, 1, L - 1) \in Seq(S)
        /\ Len(SubSeq(s, 1, L - 1)) = IF 1 <= L - 1 THEN L - 1 - 1 + 1 ELSE 0
        /\ \A n \in 1..(L - 1 - 1 + 1) : SubSeq(s, 1, L - 1)[n] = s[1 + n - 1]
    BY <2>1, SubSeqProperties
  <2>4. /\ (IF 1 <= L - 1 THEN L - 1 - 1 + 1 ELSE 0) = L - 1
        /\ L - 1 - 1 + 1 = L - 1 /\ \A n \in 1..(L - 1) : 1 + n - 1 = n
    BY <2>1
  <2>5. /\ Front(s) \in Seq(S) /\ Len(Front(s)) = L - 1
        /\ \A n \in 1..(L - 1) : Front(s)[n] = s[n]
    BY <2>2, <2>3, <2>4
  <2> QED BY <2>5 DEF L
<1>3. ASSUME Distinct(s)
      PROVE  Distinct(Front(s)) /\ Elems(Front(s)) = Elems(s) \ {Last(s)}
  BY <1>1, <1>2, <1>3 DEF Distinct, Elems
<1> QED BY <1>1, <1>2, <1>3

LEMMA AppendOf ==
    ASSUME NEW S, NEW s \in Seq(S), NEW b \in S, b \notin Elems(s), Distinct(s)
    PROVE  /\ Append(s, b) \in Seq(S) /\ Append(s, b) # << >>
           /\ Distinct(Append(s, b)) /\ Elems(Append(s, b)) = Elems(s) \cup {b}
<1> DEFINE t == Append(s, b)
<1>1. /\ t \in Seq(S) /\ t # << >> /\ Len(t) = Len(s) + 1 /\ Len(s) \in Nat
      /\ \A n \in 1..Len(s) : t[n] = s[n]
      /\ t[Len(s) + 1] = b
  BY AppendProperties
<1> HIDE DEF t
<1>2. Elems(t) = Elems(s) \cup {b}
  BY <1>1 DEF Elems
<1>3. Distinct(t)
  <2> SUFFICES ASSUME NEW m \in 1..Len(t), NEW n \in 1..Len(t), t[m] = t[n]
               PROVE  m = n
    BY DEF Distinct
  <2>1. (m \in 1..Len(s) \/ m = Len(s) + 1) /\ (n \in 1..Len(s) \/ n = Len(s) + 1)
    BY <1>1
  <2> QED BY <1>1, <2>1 DEF Distinct, Elems
<1> QED BY <1>1, <1>2, <1>3 DEF t

LEMMA PrependOf ==
    ASSUME NEW S, NEW s \in Seq(S), NEW b \in S, b \notin Elems(s), Distinct(s)
    PROVE  /\ <<b>> \o s \in Seq(S) /\ Len(<<b>> \o s) = Len(s) + 1
           /\ Distinct(<<b>> \o s) /\ Elems(<<b>> \o s) = Elems(s) \cup {b}
<1> DEFINE t == <<b>> \o s
<1>1. t \in Seq(S) /\ Len(t) = Len(s) + 1 /\ Len(s) \in Nat
      /\ t[1] = b /\ \A n \in 2..Len(t) : t[n] = s[n - 1]
  OBVIOUS
<1> HIDE DEF t
<1>2. \A n \in 1..Len(s) : t[n + 1] = s[n]
  BY <1>1
<1>3. Distinct(t)
  <2> SUFFICES ASSUME NEW m \in 1..Len(t), NEW n \in 1..Len(t), t[m] = t[n]
               PROVE  m = n
    BY DEF Distinct
  <2>1. /\ m = 1 \/ (m - 1 \in 1..Len(s) /\ t[m] = s[m - 1])
        /\ n = 1 \/ (n - 1 \in 1..Len(s) /\ t[n] = s[n - 1])
    BY <1>1
  <2>2. CASE m = 1 \/ n = 1
    BY <1>1, <2>1, <2>2 DEF Elems
  <2>3. CASE m # 1 /\ n # 1
    <3>1. m - 1 = n - 1
      BY <2>1, <2>3 DEF Distinct
    <3> QED BY <1>1, <3>1
  <2> QED BY <2>2, <2>3
<1>4. Elems(t) = Elems(s) \cup {b}
  <2>1. Elems(t) \subseteq Elems(s) \cup {b}
    BY <1>1 DEF Elems
  <2>2. Elems(s) \cup {b} \subseteq Elems(t)
    BY <1>1, <1>2 DEF Elems
  <2> QED BY <2>1, <2>2
<1> QED BY <1>1, <1>3, <1>4 DEF t

LEMMA NearestIn ==
    ASSUME NEW S \in SUBSET Blocks, S # {}, NEW up \in BOOLEAN
    PROVE  Nearest(S, up) \in S
<1>0. N \in Nat /\ \A b \in S : b \in Nat /\ N - b \in Nat
  BY BlocksFinite DEF Blocks
<1>1. \E b \in S : \A c \in S : b <= c
  BY <1>0, LeastNat
<1>2. \E b \in S : \A c \in S : b >= c
  <2> DEFINE R == {N - b : b \in S}
  <2>1. R \subseteq Nat /\ R # {}
    BY <1>0
  <2>2. PICK n \in R : \A m \in R : n <= m
    BY <2>1, LeastNat
  <2>3. PICK b \in S : n = N - b
    BY <2>2
  <2>4. ASSUME NEW c \in S PROVE b >= c
    <3>1. N - c \in R
      BY <2>4
    <3>2. N - b <= N - c
      BY <2>2, <2>3, <3>1
    <3> QED BY ONLY <1>0, <2>3, <2>4, <3>2
  <2> QED BY <2>4
<1> QED BY <1>1, <1>2 DEF Nearest

\* The traversal of ReversePostOrder, and one step of it.
Traversals == [stack : Seq(Blocks), seen : SUBSET Blocks, left : Seq(Blocks)]
Forth(g, up, t) ==
    LET top == Last(t.stack)
        new == g[top] \ t.seen
    IN  IF t.stack = << >> THEN t
        ELSE IF new = {}
        THEN [t EXCEPT !.stack = Front(t.stack), !.left = <<top>> \o t.left]
        ELSE [t EXCEPT !.stack = Append(t.stack, Nearest(new, up)),
                       !.seen = @ \cup {Nearest(new, up)}]

\* After k steps every block seen is on the stack or was left, once, and the
\* successors of those that were left have been seen.
Traversed(g, r, t, k) ==
    /\ t \in Traversals
    /\ r \in t.seen /\ t.seen = Elems(t.stack) \cup Elems(t.left)
    /\ Elems(t.stack) \cap Elems(t.left) = {}
    /\ Distinct(t.stack) /\ Distinct(t.left)
    /\ Len(t.left) = Cardinality(Elems(t.left))
    /\ \A b \in Elems(t.left) : g[b] \subseteq t.seen
    /\ t.stack # << >> => k + 1 = Cardinality(t.seen) + Len(t.left)

LEMMA ForthTraversed ==
    ASSUME NEW g, IsGraph(g), NEW r, NEW up \in BOOLEAN, NEW k \in Nat,
           NEW t, Traversed(g, r, t, k)
    PROVE  Traversed(g, r, Forth(g, up, t), k + 1)
<1> DEFINE top == Last(t.stack)
           new == g[top] \ t.seen
           u == Forth(g, up, t)
<1>1. /\ t.stack \in Seq(Blocks) /\ t.left \in Seq(Blocks)
      /\ t.seen \in SUBSET Blocks
      /\ t = [stack |-> t.stack, seen |-> t.seen, left |-> t.left]
      /\ r \in t.seen /\ t.seen = Elems(t.stack) \cup Elems(t.left)
      /\ Elems(t.stack) \cap Elems(t.left) = {}
      /\ Distinct(t.stack) /\ Distinct(t.left)
      /\ Len(t.left) = Cardinality(Elems(t.left))
      /\ \A b \in Elems(t.left) : g[b] \subseteq t.seen
  BY DEF Traversed, Traversals
<1>2. IsFiniteSet(t.seen) /\ IsFiniteSet(Elems(t.left))
      /\ Cardinality(t.seen) \in Nat /\ Cardinality(Elems(t.left)) \in Nat
  <2>1. Elems(t.left) \in SUBSET Blocks
    BY <1>1
  <2> QED BY <1>1, <2>1, BlocksFinite, FS_Subset, FS_CardinalityType
<1>3. CASE t.stack = << >>
  BY <1>3 DEF Forth, Traversed
<1>4. CASE t.stack # << >> /\ new = {}
  <2>1. u = [stack |-> Front(t.stack), seen |-> t.seen, left |-> <<top>> \o t.left]
    BY <1>1, <1>4 DEF Forth
  <2>2. /\ top \in Elems(t.stack) /\ top \in Blocks
        /\ Front(t.stack) \in Seq(Blocks) /\ Distinct(Front(t.stack))
        /\ Elems(Front(t.stack)) = Elems(t.stack) \ {top}
    BY <1>1, <1>4, FrontOf
  <2>3. top \notin Elems(t.left)
    BY <1>1, <2>2
  <2> HIDE DEF top
  <2>4. /\ <<top>> \o t.left \in Seq(Blocks) /\ Len(<<top>> \o t.left) = Len(t.left) + 1
        /\ Distinct(<<top>> \o t.left)
        /\ Elems(<<top>> \o t.left) = Elems(t.left) \cup {top}
    BY <1>1, <2>2, <2>3, PrependOf
  <2>5. Cardinality(Elems(t.left) \cup {top}) = Cardinality(Elems(t.left)) + 1
    BY <1>2, <2>3, FS_AddElement
  <2>6. g[top] \subseteq t.seen
    BY <1>4
  <2>7. k + 1 = Cardinality(t.seen) + Len(t.left)
    BY <1>4 DEF Traversed
  <2>8. (k + 1) + 1 = Cardinality(t.seen) + (Len(t.left) + 1)
    BY <1>1, <1>2, <2>7
  <2>9. u \in Traversals
    BY <1>1, <2>1, <2>2, <2>4 DEF Traversals
  <2>10. /\ u.stack = Front(t.stack) /\ u.seen = t.seen /\ u.left = <<top>> \o t.left
    BY <2>1
  <2> HIDE DEF u
  <2>11. /\ r \in u.seen /\ u.seen = Elems(u.stack) \cup Elems(u.left)
         /\ Elems(u.stack) \cap Elems(u.left) = {}
         /\ Distinct(u.stack) /\ Distinct(u.left)
         /\ \A b \in Elems(u.left) : g[b] \subseteq u.seen
    BY <1>1, <2>2, <2>4, <2>6, <2>10
  <2>12. /\ Len(u.left) = Cardinality(Elems(u.left))
         /\ (k + 1) + 1 = Cardinality(u.seen) + Len(u.left)
    BY <1>1, <2>4, <2>5, <2>8, <2>10
  <2>13. Traversed(g, r, u, k + 1)
    BY <2>9, <2>11, <2>12 DEF Traversed
  <2> QED BY <2>13 DEF u
<1>5. CASE t.stack # << >> /\ new # {}
  <2>1. top \in Blocks
    BY <1>1, <1>5, FrontOf
  <2>2. new \in SUBSET Blocks
    BY <2>1 DEF IsGraph
  <2> DEFINE b == Nearest(new, up)
  <2>3. b \in new /\ b \in Blocks /\ b \notin t.seen
    BY <1>5, <2>2, NearestIn
  <2>4. u = [stack |-> Append(t.stack, b), seen |-> t.seen \cup {b}, left |-> t.left]
    BY <1>1, <1>5 DEF Forth
  <2> HIDE DEF b
  <2>5. /\ Append(t.stack, b) \in Seq(Blocks)
        /\ Distinct(Append(t.stack, b))
        /\ Elems(Append(t.stack, b)) = Elems(t.stack) \cup {b}
    BY <1>1, <2>3, AppendOf
  <2>6. Cardinality(t.seen \cup {b}) = Cardinality(t.seen) + 1
    BY <1>2, <2>3, FS_AddElement
  <2>7. k + 1 = Cardinality(t.seen) + Len(t.left)
    BY <1>5 DEF Traversed
  <2>8. (k + 1) + 1 = (Cardinality(t.seen) + 1) + Len(t.left)
    BY <1>1, <1>2, <2>7
  <2>9. u \in Traversals
    BY <1>1, <2>3, <2>4, <2>5 DEF Traversals
  <2> QED BY <1>1, <2>3, <2>4, <2>5, <2>6, <2>8, <2>9 DEF Traversed
<1> QED BY <1>3, <1>4, <1>5

LEMMA ForthType ==
    ASSUME NEW g, IsGraph(g), NEW up \in BOOLEAN, NEW t \in Traversals
    PROVE  Forth(g, up, t) \in Traversals
<1> DEFINE top == Last(t.stack)
           new == g[top] \ t.seen
<1>1. /\ t.stack \in Seq(Blocks) /\ t.left \in Seq(Blocks)
      /\ t.seen \in SUBSET Blocks
      /\ t = [stack |-> t.stack, seen |-> t.seen, left |-> t.left]
  BY DEF Traversals
<1>2. CASE t.stack = << >>
  BY <1>2 DEF Forth
<1>3. CASE t.stack # << >> /\ new = {}
  <2>1. Forth(g, up, t)
          = [stack |-> Front(t.stack), seen |-> t.seen, left |-> <<top>> \o t.left]
    BY <1>1, <1>3 DEF Forth
  <2>2. top \in Blocks /\ Front(t.stack) \in Seq(Blocks)
    BY <1>1, <1>3, FrontOf
  <2>3. <<top>> \in Seq(Blocks)
    BY <2>2
  <2>4. <<top>> \o t.left \in Seq(Blocks)
    BY <1>1, <2>3, ConcatProperties
  <2> QED BY <1>1, <2>1, <2>2, <2>4 DEF Traversals
<1>4. CASE t.stack # << >> /\ new # {}
  <2>1. top \in Blocks
    BY <1>1, <1>4, FrontOf
  <2>2. new \in SUBSET Blocks
    BY <2>1 DEF IsGraph
  <2> DEFINE b == Nearest(new, up)
  <2>3. b \in Blocks
    BY <1>4, <2>2, NearestIn
  <2>4. Forth(g, up, t)
          = [stack |-> Append(t.stack, b), seen |-> t.seen \cup {b}, left |-> t.left]
    BY <1>1, <1>4 DEF Forth
  <2> HIDE DEF b
  <2>5. Append(t.stack, b) \in Seq(Blocks)
    BY <1>1, <2>3
  <2> QED BY <1>1, <2>3, <2>4, <2>5 DEF Traversals
<1> QED BY <1>2, <1>3, <1>4

\* The recursive function behind ReversePostOrder.
IsTraversal(G, g, r, up) ==
    /\ G \in [Nat -> Traversals]
    /\ G[0] = [stack |-> <<r>>, seen |-> {r}, left |-> << >>]
    /\ \A k \in Nat : G[k + 1] = Forth(g, up, G[k])
    /\ ReversePostOrder(g, r, up) = G[2 * N].left
LEMMA TraversalOf ==
    ASSUME NEW g, IsGraph(g), NEW r \in Blocks, NEW up \in BOOLEAN
    PROVE  \E G : IsTraversal(G, g, r, up)
<1> DEFINE F == [t \in Traversals |-> Forth(g, up, t)]
           a == [stack |-> <<r>>, seen |-> {r}, left |-> << >>]
           Def(T) == [k \in 0..(2 * N) |-> IF k = 0 THEN a ELSE Forth(g, up, T[k - 1])]
           C == CHOOSE T : T = Def(T)
<1>1. F \in [Traversals -> Traversals]
  BY ForthType
<1>2. a \in Traversals
  BY DEF Traversals
<1>3. ReversePostOrder(g, r, up) = C[2 * N].left
  BY DEF ReversePostOrder, Forth
<1> HIDE DEF F, a, C
<1>4. PICK G : Repeats(G, Traversals, a, F)
  BY <1>1, <1>2, Iteration, Zenon
<1>5. /\ G \in [Nat -> Traversals]
      /\ G[0] = a /\ \A k \in Nat : G[k + 1] = Forth(g, up, G[k])
  BY <1>4 DEF Repeats, F
<1>6. 2 * N \in Nat
  BY BlocksFinite
<1> DEFINE H == [k \in 0..(2 * N) |-> G[k]]
<1>7. H = Def(H)
  <2>1. ASSUME NEW k \in 0..(2 * N) PROVE H[k] = Def(H)[k]
    <3>1. CASE k = 0
      BY <1>5, <3>1
    <3>2. CASE k # 0
      <4>1. k - 1 \in Nat /\ (k - 1) + 1 = k /\ k - 1 \in 0..(2 * N)
        BY <1>6, <3>2
      <4> QED BY <1>5, <3>2, <4>1
    <3> QED BY <3>1, <3>2
  <2> QED BY <2>1
<1>8. C = Def(C)
  <2> HIDE DEF Def, H
  <2> QED BY <1>7 DEF C
<1> DEFINE U == {k \in Nat : k <= 2 * N => C[k] = G[k]}
<1>9. 0 \in U
  <2>1. 0 \in 0..(2 * N) /\ C[0] = Def(C)[0]
    BY <1>6, <1>8
  <2> QED BY <1>5, <2>1
<1>10. ASSUME NEW k \in Nat, k \in U PROVE k + 1 \in U
  <2> SUFFICES ASSUME k + 1 <= 2 * N PROVE C[k + 1] = G[k + 1]
    OBVIOUS
  <2>1. C[k + 1] = Def(C)[k + 1] /\ k + 1 \in 0..(2 * N) /\ k + 1 # 0 /\ (k + 1) - 1 = k
    BY <1>6, <1>8
  <2>2. C[k] = G[k]
    BY <1>6, <1>10
  <2> QED BY <1>5, <2>1, <2>2
<1> HIDE DEF U
<1>11. Nat \subseteq U
  BY <1>9, <1>10, SetInduction
<1>12. C[2 * N] = G[2 * N]
  BY <1>6, <1>11 DEF U
<1> QED BY <1>3, <1>5, <1>12 DEF IsTraversal, a

\* Every block is left once.
IsOrder(s) ==
    s \in Seq(Blocks) /\ Len(s) = N /\ Distinct(s) /\ Elems(s) = Blocks
LEMMA OrderOfAll ==
    ASSUME NEW g, NEW r, Connected(g, r), NEW up \in BOOLEAN
    PROVE  IsOrder(ReversePostOrder(g, r, up))
<1>0. IsGraph(g) /\ r \in Blocks
  BY DEF Connected
<1>1. PICK G : IsTraversal(G, g, r, up)
  BY <1>0, TraversalOf
<1>2. /\ G[0] = [stack |-> <<r>>, seen |-> {r}, left |-> << >>]
      /\ \A k \in Nat : G[k + 1] = Forth(g, up, G[k])
      /\ ReversePostOrder(g, r, up) = G[2 * N].left
  BY <1>1 DEF IsTraversal
<1> DEFINE U == {k \in Nat : Traversed(g, r, G[k], k)}
<1>3. 0 \in U
  <2> DEFINE a == [stack |-> <<r>>, seen |-> {r}, left |-> << >>]
  <2>1. a \in Traversals /\ a.stack = <<r>> /\ a.seen = {r} /\ a.left = << >>
    BY <1>0 DEF Traversals
  <2> HIDE DEF a
  <2>2. Elems(<<r>>) = {r} /\ Elems(<< >>) = {} /\ Distinct(<<r>>) /\ Distinct(<< >>)
    BY DEF Elems, Distinct
  <2>3. Cardinality({r}) = 1 /\ Cardinality({}) = 0 /\ Len(<< >>) = 0
    BY FS_Singleton, FS_EmptySet
  <2>4. Traversed(g, r, a, 0)
    BY <2>1, <2>2, <2>3, SMTT(40) DEF Traversed
  <2> QED BY <1>2, <2>4 DEF a
<1>4. ASSUME NEW k \in Nat, k \in U PROVE k + 1 \in U
  BY <1>0, <1>2, <1>4, ForthTraversed
<1> HIDE DEF U
<1>5. Nat \subseteq U
  BY <1>3, <1>4, SetInduction
<1>6. 2 * N \in Nat /\ N \in Nat /\ N > 1
  BY BlocksFinite
<1> DEFINE t == G[2 * N]
<1>7. Traversed(g, r, t, 2 * N)
  BY <1>5, <1>6 DEF U
<1> HIDE DEF t
<1>8. /\ t.stack \in Seq(Blocks) /\ t.left \in Seq(Blocks) /\ t.seen \in SUBSET Blocks
      /\ r \in t.seen /\ t.seen = Elems(t.stack) \cup Elems(t.left)
      /\ Elems(t.stack) \cap Elems(t.left) = {}
      /\ Distinct(t.left) /\ Len(t.left) = Cardinality(Elems(t.left))
      /\ \A b \in Elems(t.left) : g[b] \subseteq t.seen
      /\ t.stack # << >> => 2 * N + 1 = Cardinality(t.seen) + Len(t.left)
  BY <1>7 DEF Traversed, Traversals
<1>9. t.stack = << >>
  <2> SUFFICES ASSUME t.stack # << >> PROVE FALSE
    OBVIOUS
  <2>1. Elems(t.left) \in SUBSET Blocks /\ t.seen \in SUBSET Blocks
    BY <1>8
  <2>2. /\ Cardinality(t.seen) <= N /\ Cardinality(Elems(t.left)) <= N
        /\ Cardinality(t.seen) \in Nat /\ Cardinality(Elems(t.left)) \in Nat
    BY <2>1, BlocksFinite, FS_Subset, FS_CardinalityType
  <2> QED BY <1>6, <1>8, <2>2
<1>10. t.seen = Elems(t.left)
  <2>1. Elems(<< >>) = {}
    BY DEF Elems
  <2> QED BY <1>8, <1>9, <2>1
<1>11. Blocks \subseteq t.seen
  BY <1>8, <1>10, ClosedIsAll
<1>12. Elems(t.left) = Blocks /\ Len(t.left) = N
  BY <1>8, <1>10, <1>11, BlocksFinite
<1> QED BY <1>2, <1>8, <1>12 DEF IsOrder, t

-----------------------------------------------------------------------------
(* Sequences.                                                              *)

LEMMA ConcatOf ==
    ASSUME NEW S, NEW s \in Seq(S), NEW t \in Seq(S)
    PROVE  s \o t \in Seq(S) /\ Elems(s \o t) = Elems(s) \cup Elems(t)
<1> DEFINE u == s \o t
<1>1. /\ u \in Seq(S) /\ Len(u) = Len(s) + Len(t)
      /\ Len(s) \in Nat /\ Len(t) \in Nat
      /\ \A n \in 1..(Len(s) + Len(t)) :
           u[n] = IF n <= Len(s) THEN s[n] ELSE t[n - Len(s)]
  BY ConcatProperties
<1> HIDE DEF u
<1>2. Elems(u) \subseteq Elems(s) \cup Elems(t)
  <2> SUFFICES ASSUME NEW n \in 1..Len(u) PROVE u[n] \in Elems(s) \cup Elems(t)
    BY DEF Elems
  <2>1. CASE n <= Len(s)
    BY <1>1, <2>1 DEF Elems
  <2>2. CASE ~(n <= Len(s))
    <3>1. n - Len(s) \in 1..Len(t) /\ u[n] = t[n - Len(s)]
      BY <1>1, <2>2
    <3> QED BY <3>1 DEF Elems
  <2> QED BY <2>1, <2>2
<1>3. ASSUME NEW n \in 1..Len(s) PROVE s[n] \in Elems(u)
  <2>1. n \in 1..Len(u) /\ u[n] = s[n]
    BY <1>1
  <2> QED BY <2>1 DEF Elems
<1>4. ASSUME NEW n \in 1..Len(t) PROVE t[n] \in Elems(u)
  <2>1. /\ n + Len(s) \in 1..(Len(s) + Len(t)) /\ ~(n + Len(s) <= Len(s))
        /\ (n + Len(s)) - Len(s) = n
    BY <1>1
  <2>2. n + Len(s) \in 1..Len(u) /\ u[n + Len(s)] = t[n]
    BY <1>1, <2>1
  <2> QED BY <2>2 DEF Elems
<1>5. Elems(s) \cup Elems(t) \subseteq Elems(u)
  BY <1>3, <1>4 DEF Elems
<1> QED BY <1>1, <1>2, <1>5 DEF u

LEMMA SetToSeqOf ==
    ASSUME NEW S, IsFiniteSet(S)
    PROVE  SetToSeq(S) \in Seq(S) /\ Elems(SetToSeq(S)) = S
<1> DEFINE n == Cardinality(S)
           f == SetToSeq(S)
           U == {f[k] : k \in 1..n}
<1>1. n \in Nat /\ ExistsBijection(1..n, S)
  BY FS_CardinalityType
<1>2. \E h \in [1..n -> S] : IsInjective(h)
  BY <1>1 DEF ExistsBijection, Bijection, Injection
<1>3. f \in [1..n -> S] /\ IsInjective(f)
  BY <1>2 DEF SetToSeq
<1> HIDE DEF f, n
<1>4. f \in [1..n -> U] /\ U \in SUBSET S
  BY <1>3
<1>5. f \in Bijection(1..n, U)
  BY <1>3, <1>4 DEF Bijection, Injection, Surjection
<1>6. Cardinality(U) = n
  BY <1>1, <1>5, FS_CountingElements DEF ExistsBijection
<1>7. U = S
  BY <1>4, <1>6, FS_Subset DEF n
<1>8. f \in Seq(S) /\ Len(f) = n
  BY <1>1, <1>3
<1> QED BY <1>7, <1>8 DEF Elems, f

\* What is left of a sequence keeps its order; the first one stays the first.
IsLeft(q, s, K, n) ==
    /\ Len(q) <= n
    /\ \A m \in 1..Len(q) : \E k \in K : k \in m..n /\ q[m] = s[k]
    /\ 1 \in K /\ n >= 1 => Len(q) >= 1 /\ q[1] = s[1]
LEMMA KeptOf ==
    ASSUME NEW S, NEW s \in Seq(S), NEW K
    PROVE  Kept(s, K) \in Seq(S) /\ IsLeft(Kept(s, K), s, K, Len(s))
<1> DEFINE L == Len(s)
           F == [p \in Nat \X Seq(S) |->
                   IF p[1] + 1 \in K \cap (1..L) THEN Append(p[2], s[p[1] + 1]) ELSE p[2]]
           Def(T) == [k \in 0..L |-> IF k = 0 THEN << >>
                                     ELSE IF k \in K THEN Append(T[k - 1], s[k])
                                     ELSE T[k - 1]]
           C == CHOOSE T : T = Def(T)
<1>0. L \in Nat /\ \A k \in 1..L : s[k] \in S
  OBVIOUS
<1>1. F \in [Nat \X Seq(S) -> Seq(S)]
  <2> SUFFICES ASSUME NEW p \in Nat \X Seq(S), p[1] + 1 \in K \cap (1..L)
               PROVE  Append(p[2], s[p[1] + 1]) \in Seq(S)
    OBVIOUS
  <2> QED BY <1>0
<1>2. << >> \in Seq(S)
  OBVIOUS
<1>3. Kept(s, K) = C[L]
  BY DEF Kept
<1> HIDE DEF F, C, L
<1>4. PICK G : Recurs(G, Seq(S), << >>, F)
  BY <1>1, <1>2, Recursion, Zenon
<1>5. /\ G \in [Nat -> Seq(S)] /\ G[0] = << >>
      /\ \A k \in Nat : G[k + 1] = F[<<k, G[k]>>]
  BY <1>4 DEF Recurs
<1>6. ASSUME NEW k \in Nat, k < L
      PROVE  G[k + 1] = IF k + 1 \in K THEN Append(G[k], s[k + 1]) ELSE G[k]
  <2>1. k + 1 \in 1..L
    BY <1>0, <1>6
  <2>2. G[k] \in Seq(S)
    BY <1>5
  <2>3. <<k, G[k]>> \in Nat \X Seq(S)
    BY <2>2
  <2>4. G[k + 1] = F[<<k, G[k]>>]
    BY <1>5
  <2> QED BY <2>1, <2>3, <2>4 DEF F
<1> DEFINE H == [k \in 0..L |-> G[k]]
<1>7. H = Def(H)
  <2>1. ASSUME NEW k \in 0..L PROVE H[k] = Def(H)[k]
    <3>1. CASE k = 0
      BY <1>5, <3>1
    <3>2. CASE k # 0
      <4>1. k - 1 \in Nat /\ k - 1 < L /\ (k - 1) + 1 = k /\ k - 1 \in 0..L
        BY <1>0, <3>2
      <4>2. G[k] = IF k \in K THEN Append(G[k - 1], s[k]) ELSE G[k - 1]
        BY <1>6, <4>1
      <4> QED BY <3>2, <4>1, <4>2
    <3> QED BY <3>1, <3>2
  <2> QED BY <2>1
<1>8. C = Def(C)
  <2> HIDE DEF Def, H
  <2> QED BY <1>7 DEF C
<1> DEFINE U == {k \in Nat : k <= L => C[k] = G[k] /\ IsLeft(G[k], s, K, k)}
<1>9. 0 \in U
  <2>1. 0 \in 0..L /\ C[0] = Def(C)[0]
    BY <1>0, <1>8
  <2> QED BY <1>5, <2>1 DEF IsLeft
<1>10. ASSUME NEW k \in Nat, k \in U PROVE k + 1 \in U
  <2> SUFFICES ASSUME k + 1 <= L
               PROVE  C[k + 1] = G[k + 1] /\ IsLeft(G[k + 1], s, K, k + 1)
    OBVIOUS
  <2>1. k + 1 \in 0..L /\ k + 1 # 0 /\ (k + 1) - 1 = k /\ k < L /\ k <= L
    BY <1>0
  <2>2. C[k] = G[k] /\ IsLeft(G[k], s, K, k)
    BY <1>10, <2>1
  <2>3. G[k + 1] = IF k + 1 \in K THEN Append(G[k], s[k + 1]) ELSE G[k]
    BY <1>6, <2>1
  <2>4. C[k + 1] = G[k + 1]
    <3>1. C[k + 1] = Def(C)[k + 1]
      BY <1>8
    <3> QED BY <2>1, <2>2, <2>3, <3>1
  <2> DEFINE q == G[k]
             r == G[k + 1]
  <2>5. q \in Seq(S) /\ r \in Seq(S) /\ Len(q) \in Nat
    BY <1>5
  <2>6. CASE k + 1 \notin K
    BY <2>2, <2>3, <2>4, <2>5, <2>6 DEF IsLeft
  <2>7. CASE k + 1 \in K
    <3>1. /\ Len(r) = Len(q) + 1 /\ \A m \in 1..Len(q) : r[m] = q[m]
          /\ r[Len(q) + 1] = s[k + 1]
      <4>1. s[k + 1] \in S /\ r = Append(q, s[k + 1])
        BY <1>0, <2>1, <2>3, <2>7
      <4> QED BY <2>5, <4>1, AppendProperties
    <3> HIDE DEF q, r
    <3>2. Len(r) <= k + 1
      BY <2>2, <2>5, <3>1 DEF IsLeft, q
    <3>3. ASSUME NEW m \in 1..Len(r)
          PROVE  \E l \in K : l \in m..(k + 1) /\ r[m] = s[l]
      <4>1. CASE m \in 1..Len(q)
        <5>1. PICK l \in K : l \in m..k /\ q[m] = s[l]
          BY <2>2, <4>1 DEF IsLeft, q
        <5> QED BY <3>1, <4>1, <5>1
      <4>2. CASE m = Len(q) + 1
        <5>1. k + 1 \in m..(k + 1)
          BY <2>2, <2>5, <4>2 DEF IsLeft, q
        <5> QED BY <2>7, <3>1, <4>2, <5>1
      <4> QED BY <2>5, <3>1, <4>1, <4>2
    <3>4. ASSUME 1 \in K PROVE Len(r) >= 1 /\ r[1] = s[1]
      <4>1. CASE k >= 1
        <5>1. Len(q) >= 1 /\ q[1] = s[1]
          BY <2>2, <3>4, <4>1 DEF IsLeft, q
        <5> QED BY <2>5, <3>1, <5>1
      <4>2. CASE k = 0
        <5>1. q = << >> /\ Len(q) = 0
          BY <1>5, <4>2 DEF q
        <5> QED BY <3>1, <4>2, <5>1
      <4> QED BY <4>1, <4>2
    <3>5. IsLeft(r, s, K, k + 1)
      BY <3>2, <3>3, <3>4 DEF IsLeft
    <3> QED BY <2>4, <3>5 DEF r
  <2> QED BY <2>6, <2>7
<1> HIDE DEF U
<1>11. Nat \subseteq U
  BY <1>9, <1>10, SetInduction
<1>12. C[L] = G[L] /\ IsLeft(G[L], s, K, L) /\ G[L] \in Seq(S)
  BY <1>0, <1>5, <1>11 DEF U
<1> QED BY <1>3, <1>12 DEF L

-----------------------------------------------------------------------------
(* The graph and what is computed from it first.                           *)

Dom(a, b) == Dominates(graph, entry, a, b)
PostDom(a, b) == Dominates(Transpose(graph), exit, a, b)

GraphInv ==
    /\ Connected(graph, entry) /\ Connected(Transpose(graph), exit)
    /\ graph[exit] = {}
    /\ IsOrder(rpo) /\ IsOrder(rpo_r)
    /\ rdf \in [Blocks -> SUBSET Blocks]
    /\ r_idom \in [Blocks \ {exit} -> Blocks]
    /\ \A b \in Blocks \ {exit} : IsIdom(Transpose(graph), exit, r_idom[b], b)

LEMMA GraphsConnected ==
    ASSUME NEW g \in Graphs
    PROVE  /\ Connected(g, entry) /\ Connected(Transpose(g), exit)
           /\ g[exit] = {}
<1>1. PICK f \in [Blocks \ {exit} -> Inner] :
          g = [b \in Blocks |-> IF b = exit THEN {} ELSE f[b]]
  BY DEF Graphs
<1>2. entry \in Blocks /\ exit \in Blocks
  BY BlocksFinite
<1>3. \A S \in Inner : S \in SUBSET Blocks
  BY DEF Inner, Shapes
<1>4. IsGraph(g) /\ g[exit] = {}
  BY <1>1, <1>2, <1>3 DEF IsGraph
<1>5. IsGraph(Transpose(g))
  BY DEF IsGraph, Transpose
<1>6. Reach(g, {entry}, {}) = Blocks /\ Reach(Transpose(g), {exit}, {}) = Blocks
  BY DEF Graphs
<1> QED BY <1>2, <1>4, <1>5, <1>6 DEF Connected

LEMMA GraphInit == Init => GraphInv
<1> SUFFICES ASSUME Init PROVE GraphInv
  OBVIOUS
<1>1. /\ Connected(graph, entry) /\ Connected(Transpose(graph), exit)
      /\ graph[exit] = {}
  BY GraphsConnected DEF Init
<1>2. IsOrder(rpo) /\ IsOrder(rpo_r)
  <2>1. PICK up \in BOOLEAN : rpo = ReversePostOrder(graph, entry, up)
    BY DEF Init
  <2>2. rpo_r = ReversePostOrder(Transpose(graph), exit, TRUE)
    BY DEF Init
  <2>3. TRUE \in BOOLEAN
    OBVIOUS
  <2>4. IsOrder(ReversePostOrder(graph, entry, up))
    BY <1>1, OrderOfAll
  <2>5. IsOrder(ReversePostOrder(Transpose(graph), exit, TRUE))
    BY <1>1, <2>3, OrderOfAll, Zenon
  <2> QED BY <2>1, <2>2, <2>4, <2>5
<1>3. rdf \in [Blocks -> SUBSET Blocks]
  BY DEF Init, Frontier
<1>4. \A b \in Blocks \ {exit} :
        r_idom[b] \in Blocks /\ IsIdom(Transpose(graph), exit, r_idom[b], b)
  <2> TAKE b \in Blocks \ {exit}
  <2>1. \E a \in Blocks : IsIdom(Transpose(graph), exit, a, b)
    BY <1>1, IdomExists
  <2>2. r_idom[b] = CHOOSE a \in Blocks : IsIdom(Transpose(graph), exit, a, b)
    BY DEF Init
  <2> QED BY <2>1, <2>2
<1>5. r_idom \in [Blocks \ {exit} -> Blocks]
  BY <1>4 DEF Init
<1> QED BY <1>1, <1>2, <1>3, <1>4, <1>5 DEF GraphInv

\* A dead branch is led to where every path from it arrives before anything
\* useful; a useful block that dominates that place dominates the branch.
IsClimb(J, b) ==
    /\ J \in [Nat -> Blocks] /\ J[0] = r_idom[b]
    /\ \A k \in Nat : J[k + 1] = IF J[k] \in live_blocks \cup {exit} THEN J[k]
                                 ELSE r_idom[J[k]]
    /\ Targets(b) = {J[N]} \ {exit}
LEMMA Climb ==
    ASSUME GraphInv, NEW b \in Blocks \ {exit}
    PROVE  \E J : IsClimb(J, b)
<1> DEFINE F == [c \in Blocks |-> IF c \in live_blocks \cup {exit} THEN c ELSE r_idom[c]]
           Def(J) == [k \in Nat |-> IF k = 0 THEN r_idom[b]
                        ELSE IF J[k - 1] \in live_blocks \cup {exit} THEN J[k - 1]
                        ELSE r_idom[J[k - 1]]]
           C == CHOOSE J : J = Def(J)
<1>1. F \in [Blocks -> Blocks]
  BY DEF GraphInv
<1>2. r_idom[b] \in Blocks
  BY DEF GraphInv
<1>3. Targets(b) = {C[N]} \ {exit}
  BY DEF Targets
<1> HIDE DEF F
<1>4. PICK G : Repeats(G, Blocks, r_idom[b], F)
  BY <1>1, <1>2, Iteration, Zenon
<1>5. /\ G \in [Nat -> Blocks] /\ G[0] = r_idom[b]
      /\ \A k \in Nat : G[k + 1] = F[G[k]]
  BY <1>4 DEF Repeats
<1>6. \A k \in Nat : G[k + 1] = IF G[k] \in live_blocks \cup {exit} THEN G[k]
                                ELSE r_idom[G[k]]
  BY <1>5 DEF F
<1>7. G = Def(G)
  <2>1. ASSUME NEW k \in Nat PROVE G[k] = Def(G)[k]
    <3>1. CASE k = 0
      BY <1>5, <3>1
    <3>2. CASE k # 0
      <4>1. k - 1 \in Nat /\ (k - 1) + 1 = k
        BY <3>2
      <4> QED BY <1>6, <3>2, <4>1
    <3> QED BY <3>1, <3>2
  <2> HIDE DEF Def
  <2>2. G = [k \in Nat |-> G[k]] /\ Def(G) = [k \in Nat |-> Def(G)[k]]
    BY <1>5 DEF Def
  <2> QED BY <2>1, <2>2
<1>8. C = Def(C)
  <2> HIDE DEF Def
  <2> QED BY <1>7
<1> HIDE DEF C
<1> DEFINE U == {k \in Nat : C[k] = G[k]}
<1>9. 0 \in U
  <2>1. C[0] = Def(C)[0]
    BY <1>8
  <2> QED BY <1>5, <2>1
<1>10. ASSUME NEW k \in Nat, k \in U PROVE k + 1 \in U
  <2>1. C[k + 1] = Def(C)[k + 1]
    BY <1>8
  <2>2. k + 1 \in Nat /\ k + 1 # 0 /\ (k + 1) - 1 = k
    OBVIOUS
  <2> QED BY <1>6, <1>10, <2>1, <2>2
<1> HIDE DEF U
<1>11. Nat \subseteq U
  BY <1>9, <1>10, SetInduction
<1>12. C[N] = G[N]
  BY <1>11, BlocksFinite DEF U
<1>13. IsClimb(G, b)
  BY <1>3, <1>5, <1>6, <1>12 DEF IsClimb
<1> QED BY <1>13

LEMMA TargetsType ==
    ASSUME GraphInv, NEW b \in Blocks \ {exit}
    PROVE  Targets(b) \in SUBSET Blocks
<1>1. PICK J : IsClimb(J, b)
  BY Climb
<1> QED BY <1>1, BlocksFinite DEF IsClimb

LEMMA Redirect ==
    ASSUME GraphInv, NEW b \in Blocks \ {exit}, NEW t \in Targets(b),
           NEW d \in Blocks, d \in live_blocks, d # t, Dom(d, t)
    PROVE  Dom(d, b)
<1> SUFFICES ASSUME ~Dom(d, b) PROVE FALSE
  OBVIOUS
<1> DEFINE R == Transpose(graph)
<1>1. PICK J : IsClimb(J, b)
  BY Climb
<1>2. /\ J \in [Nat -> Blocks] /\ J[0] = r_idom[b]
      /\ \A k \in Nat : J[k + 1] = IF J[k] \in live_blocks \cup {exit} THEN J[k]
                                   ELSE r_idom[J[k]]
      /\ t = J[N] /\ t # exit /\ t \in Blocks
  BY <1>1, BlocksFinite DEF IsClimb
<1>3. /\ IsGraph(graph) /\ IsGraph(R) /\ entry \in Blocks /\ exit \in Blocks
      /\ Connected(R, exit)
      /\ \A x \in Blocks : \A y \in R[x] : y \in Blocks /\ x \in graph[y]
      /\ \A y \in Blocks : \A x \in graph[y] : x \in Blocks /\ y \in R[x]
  BY DEF GraphInv, Connected, IsGraph, Transpose
<1>4. \A c \in Blocks \ {exit} :
        /\ r_idom[c] \in Blocks /\ PostDom(r_idom[c], c)
        /\ \A a \in Blocks : a # c /\ PostDom(a, c) => PostDom(a, r_idom[c])
  BY DEF GraphInv, IsIdom, StrictDoms, PostDom
<1> HIDE DEF R
<1>5. /\ PostDom(exit, exit)
      /\ \A a \in Blocks : a # exit => ~PostDom(a, exit)
      /\ \A a, x \in Blocks : \A y \in R[x] :
            ~PostDom(a, x) /\ y # a => ~PostDom(a, y)
      /\ \A a \in Blocks : PostDom(a, a)
  BY <1>3, Undominated DEF PostDom, R
<1>6. /\ \A x \in Blocks : \A y \in graph[x] : ~Dom(d, x) /\ y # d => ~Dom(d, y)
      /\ Dom(d, d)
  BY <1>3, Undominated DEF Dom
<1>7. \A k \in Nat : PostDom(J[k], b)
  <2> DEFINE T == {k \in Nat : PostDom(J[k], b)}
  <2>1. 0 \in T
    BY <1>2, <1>4
  <2>2. ASSUME NEW k \in Nat, k \in T PROVE k + 1 \in T
    <3>1. CASE J[k] \in live_blocks \cup {exit}
      BY <1>2, <2>2, <3>1
    <3>2. CASE J[k] \notin live_blocks \cup {exit}
      <4>1. J[k + 1] = r_idom[J[k]] /\ J[k] \in Blocks \ {exit} /\ J[k + 1] \in Blocks
        BY <1>2, <3>2
      <4>2. PostDom(J[k + 1], J[k]) /\ PostDom(J[k], b)
        BY <1>4, <2>2, <4>1
      <4>3. PostDom(J[k + 1], b)
        BY <1>3, <4>1, <4>2, DominatesTrans DEF PostDom, R
      <4> QED BY <4>3
    <3> QED BY <3>1, <3>2
  <2> HIDE DEF T
  <2>3. Nat \subseteq T
    BY <2>1, <2>2, SetInduction
  <2> QED BY <2>3 DEF T
<1>8. PostDom(t, b)
  BY <1>2, <1>7, BlocksFinite
\* Every path from b to the exit comes to t, and before that to d.
<1>9. PostDom(d, b)
  <2> DEFINE T == {x \in Blocks : Dom(d, x) \/ ~PostDom(t, x)}
  <2>1. exit \in T
    BY <1>2, <1>3, <1>5
  <2>2. ASSUME NEW x \in T \cap Blocks, NEW y \in R[x], x # d, y # d PROVE y \in T
    <3>1. y \in Blocks /\ x \in graph[y]
      BY <1>3
    <3>2. CASE Dom(d, x)
      BY <1>6, <2>2, <3>1, <3>2
    <3>3. CASE ~PostDom(t, x)
      <4>1. CASE y = t
        BY <3>1, <4>1
      <4>2. CASE y # t
        BY <1>2, <1>5, <3>1, <3>3, <4>2
      <4> QED BY <4>1, <4>2
    <3> QED BY <3>2, <3>3
  <2>3. b \notin T
    BY <1>8
  <2> HIDE DEF T
  <2>4. /\ exit # d => exit \in T
        /\ \A x \in T \cap Blocks : \A y \in R[x] : x # d /\ y # d => y \in T
    BY <2>1, <2>2
  <2>5. Dominates(R, exit, d, b)
    BY <1>3, <2>3, <2>4, DominatesOutside
  <2> QED BY <2>5 DEF PostDom, R
\* Every path from d to the exit comes to t, as b reaches d without it.
<1>10. PostDom(t, d)
  <2> SUFFICES ASSUME ~PostDom(t, d) PROVE FALSE
    OBVIOUS
  <2> DEFINE T == {x \in Blocks : Dom(d, x) \/ ~PostDom(t, x)}
  <2>1. exit \in T
    BY <1>2, <1>3, <1>5
  <2>2. ASSUME NEW x \in T \cap Blocks, NEW y \in R[x] PROVE y \in T
    <3>1. y \in Blocks /\ x \in graph[y]
      BY <1>3
    <3>2. CASE ~PostDom(t, x)
      <4>1. CASE y = t
        BY <3>1, <4>1
      <4>2. CASE y # t
        BY <1>2, <1>5, <3>1, <3>2, <4>2
      <4> QED BY <4>1, <4>2
    <3>3. CASE Dom(d, x) /\ x # d
      BY <1>6, <3>1, <3>3
    <3>4. CASE x = d
      BY <3>2, <3>4
    <3> QED BY <3>2, <3>3, <3>4
  <2>3. b \notin T
    BY <1>8
  <2> HIDE DEF T
  <2>4. Blocks \subseteq T
    BY <1>3, <2>1, <2>2, ClosedIsAll
  <2> QED BY <2>3, <2>4
<1>11. \A k \in Nat : PostDom(d, J[k])
  <2> DEFINE T == {k \in Nat : PostDom(d, J[k])}
  <2>1. 0 \in T
    <3>1. d # b
      BY <1>6
    <3> QED BY <1>2, <1>4, <1>9, <3>1
  <2>2. ASSUME NEW k \in Nat, k \in T PROVE k + 1 \in T
    <3>1. CASE J[k] \in live_blocks \cup {exit}
      BY <1>2, <2>2, <3>1
    <3>2. CASE J[k] \notin live_blocks \cup {exit}
      <4>1. /\ J[k + 1] = r_idom[J[k]] /\ J[k] \in Blocks \ {exit}
            /\ d # J[k]
        BY <1>2, <3>2
      <4> QED BY <1>4, <2>2, <4>1
    <3> QED BY <3>1, <3>2
  <2> HIDE DEF T
  <2>3. Nat \subseteq T
    BY <2>1, <2>2, SetInduction
  <2> QED BY <2>3 DEF T
<1>12. PostDom(d, t)
  BY <1>2, <1>11, BlocksFinite
<1>13. d = t
  BY <1>2, <1>3, <1>10, <1>12, DominatesAntisym DEF PostDom, R
<1> QED BY <1>13

-----------------------------------------------------------------------------
(* The code.                                                               *)

Ops == {"alu", "push", "call", "unwound_phi", "branch", "return"}
Code(V) == [op : Ops, rd : {NULL, "x", "y"}, rs : {NULL, "p", V}]
HasCode(V) == code \in [Blocks -> Seq(Code(V))]

Assignment == Insn("alu", "x", "p")
\* Instructions that may follow it, and its place.
Later(b, d) == {i \in Code("x") : i.rd # "x" /\ (i.rs = "x" => Dom(d, b))}
Headed(s, b, d) ==
    /\ s \in Seq(Code("x"))
    /\ \A k \in 1..Len(s) : s[k] \in Later(b, d) \/ (k = 1 /\ b = d)
    /\ b = d => Len(s) >= 1 /\ s[1] = Assignment

LEMMA HeadedConcat ==
    ASSUME NEW b, NEW d, NEW s, Headed(s, b, d), NEW t \in Seq(Later(b, d))
    PROVE  Headed(s \o t, b, d)
<1> DEFINE u == s \o t
<1>0. Later(b, d) \subseteq Code("x")
  BY DEF Later
<1>1. t \in Seq(Code("x")) /\ s \in Seq(Code("x"))
      /\ \A k \in 1..Len(t) : t[k] \in Later(b, d)
  BY <1>0 DEF Headed
<1>2. /\ u \in Seq(Code("x")) /\ Len(u) = Len(s) + Len(t)
      /\ Len(s) \in Nat /\ Len(t) \in Nat
      /\ \A n \in 1..(Len(s) + Len(t)) :
           u[n] = IF n <= Len(s) THEN s[n] ELSE t[n - Len(s)]
  BY <1>1, ConcatProperties
<1> HIDE DEF u
<1>3. ASSUME NEW k \in 1..Len(u) PROVE u[k] \in Later(b, d) \/ (k = 1 /\ b = d)
  <2>1. CASE k <= Len(s)
    <3>1. k \in 1..Len(s) /\ u[k] = s[k]
      BY <1>2, <2>1
    <3> QED BY <3>1 DEF Headed
  <2>2. CASE ~(k <= Len(s))
    <3>1. k - Len(s) \in 1..Len(t) /\ u[k] = t[k - Len(s)]
      BY <1>2, <2>2
    <3> QED BY <1>1, <3>1
  <2> QED BY <2>1, <2>2
<1>4. ASSUME b = d PROVE Len(u) >= 1 /\ u[1] = Assignment
  <2>1. Len(s) >= 1 /\ s[1] = Assignment
    BY <1>4 DEF Headed
  <2> QED BY <1>2, <2>1
<1> QED BY <1>2, <1>3, <1>4 DEF Headed, u

LEMMA BodyCode ==
    ASSUME NEW g, NEW var \in Variables(g), NEW caller, NEW own \in BOOLEAN,
           NEW returns \in BOOLEAN, NEW b \in Blocks
    PROVE  Body(g, var, caller, own, returns, b) \in Seq(Code(var.name))
<1> DEFINE V == var.name
           C == Code(V)
           o == Operand(var, b, own)
           s1 == IF b \in var.at /\ var.name = "x" THEN <<Insn("alu", "x", "p")>> ELSE << >>
           s2 == IF b = caller THEN Call(o) ELSE << >>
           s3 == IF b \in var.at /\ var.name = "y" THEN <<Insn("unwound_phi", "y", "p")>>
                 ELSE << >>
           s4 == IF b \in Branching(g) THEN <<Branch(o)>> ELSE << >>
           s5 == IF returns /\ g[b] = {exit} THEN <<Return(o)>> ELSE << >>
<1>1. V \in {"x", "y"}
  BY DEF Variables
<1>2. o \in {"p", V}
  BY DEF Operand
<1> HIDE DEF o, V
<1>3. /\ Insn("alu", "x", "p") \in C /\ Insn("push", NULL, o) \in C
      /\ Insn("call", NULL, NULL) \in C /\ Insn("unwound_phi", "y", "p") \in C
      /\ Branch(o) \in C /\ Return(o) \in C
  BY <1>2 DEF Insn, Code, Ops, Branch, Return, NULL
<1> HIDE DEF C
<1>4. s1 \in Seq(C) /\ s2 \in Seq(C) /\ s3 \in Seq(C) /\ s4 \in Seq(C) /\ s5 \in Seq(C)
  BY <1>3 DEF Call
<1>5. Body(g, var, caller, own, returns, b) = (((s1 \o s2) \o s3) \o s4) \o s5
  BY DEF Body, o
<1> HIDE DEF s1, s2, s3, s4, s5
<1>6. (((s1 \o s2) \o s3) \o s4) \o s5 \in Seq(C)
  BY <1>4, ConcatProperties
<1> QED BY <1>5, <1>6 DEF C, V

LEMMA BodyHeaded ==
    ASSUME NEW d \in Blocks \ {exit}, NEW var, var.name = "x", var.at = {d},
           var.from = {b \in Blocks : Dom(d, b)}, NEW caller, NEW own \in BOOLEAN,
           NEW returns \in BOOLEAN, NEW b \in Blocks
    PROVE  Headed(Body(graph, var, caller, own, returns, b), b, d)
<1> DEFINE L == Later(b, d)
           o == Operand(var, b, own)
           s1 == IF b \in var.at /\ var.name = "x" THEN <<Insn("alu", "x", "p")>> ELSE << >>
           s2 == IF b = caller THEN Call(o) ELSE << >>
           s3 == IF b \in var.at /\ var.name = "y" THEN <<Insn("unwound_phi", "y", "p")>>
                 ELSE << >>
           s4 == IF b \in Branching(graph) THEN <<Branch(o)>> ELSE << >>
           s5 == IF returns /\ graph[b] = {exit} THEN <<Return(o)>> ELSE << >>
<1>2. o \in {"p", "x"} /\ (o = "x" => Dom(d, b))
  BY DEF Operand
<1>5. Body(graph, var, caller, own, returns, b) = (((s1 \o s2) \o s3) \o s4) \o s5
  BY DEF Body
<1> HIDE DEF o
<1>3. /\ Insn("push", NULL, o) \in L /\ Insn("call", NULL, NULL) \in L
      /\ Branch(o) \in L /\ Return(o) \in L
  BY <1>2 DEF Insn, Later, Code, Ops, Branch, Return, NULL
<1>6. Headed(s1, b, d)
  <2>1. Assignment \in Code("x")
    BY DEF Assignment, Insn, Code, Ops, NULL
  <2>2. CASE b = d
    <3>1. s1 = <<Assignment>>
      BY <2>2 DEF Assignment
    <3> HIDE DEF s1
    <3>2. s1 \in Seq(Code("x")) /\ Len(s1) = 1 /\ s1[1] = Assignment
      BY <2>1, <3>1
    <3> QED BY <2>2, <3>2 DEF Headed
  <2>3. CASE b # d
    <3>1. s1 = << >>
      BY <2>3
    <3> HIDE DEF s1
    <3> QED BY <2>3, <3>1 DEF Headed
  <2> QED BY <2>2, <2>3
<1> HIDE DEF L
<1>4. s2 \in Seq(L) /\ s3 \in Seq(L) /\ s4 \in Seq(L) /\ s5 \in Seq(L)
  BY <1>3 DEF Call
<1> HIDE DEF s1, s2, s3, s4, s5
<1>7. Headed((((s1 \o s2) \o s3) \o s4) \o s5, b, d)
  BY <1>4, <1>6, HeadedConcat DEF L
<1> QED BY <1>5, <1>7

\* Where x is used: only behind its assignment, and while the code is as it
\* was, what is marked has marked that.
Swepts == IF phase = "mark" THEN {} ELSE {rpo[n] : n \in 1..(bb - 1)}
XInv(d) ==
    /\ HasCode("x")
    /\ \A b \in Blocks \ Swepts : Headed(code[b], b, d)
    /\ \A b \in Swepts : \A k \in 1..Len(code[b]) :
         code[b][k].rs = "x" => /\ Dom(d, b) /\ (b = d => k # 1)
                                /\ <<d, 1>> \in useful
    /\ phase # "mark" =>
         \A b \in Blocks \ Swepts : \A k \in 1..Len(code[b]) :
           code[b][k].rs = "x" /\ <<b, k>> \in useful => <<d, 1>> \in useful
    /\ <<d, 1>> \in useful => /\ d \in live_blocks
                             /\ Len(code[d]) >= 1 /\ code[d][1] = Assignment

\* Marking: what is not yet traced is in work_list.
MarkInv(d) ==
    phase = "mark" =>
      /\ work_list \in Seq(Blocks \X Nat)
      /\ \A i \in useful : \/ i \in Elems(work_list)
                           \/ At(i).rs = "x" => <<d, 1>> \in useful
      /\ \A i \in useful : i[1] \in live_blocks

XHeld == \E d \in Blocks \ {exit} : XInv(d) /\ MarkInv(d)

LEMMA CodeInit ==
    ASSUME Init PROVE HasCode("y") \/ XHeld
<1>1. PICK var \in Variables(graph), caller \in Blocks, own \in BOOLEAN, returns \in BOOLEAN :
         code = [b \in Blocks |-> IF b = exit THEN << >> ELSE
                   Body(graph, var, caller, own, returns, b)]
  BY DEF Init
<1>2. HasCode(var.name)
  <2> SUFFICES ASSUME NEW b \in Blocks PROVE code[b] \in Seq(Code(var.name))
    BY <1>1 DEF HasCode
  <2>1. CASE b = exit
    BY <1>1, <2>1
  <2>2. CASE b # exit
    BY <1>1, <2>2, BodyCode
  <2> QED BY <2>1, <2>2
<1>3. CASE var.name = "y"
  BY <1>2, <1>3
<1>4. CASE var.name # "y"
  <2>1. PICK d \in Blocks \ {exit} : var = [name |-> "x", at |-> {d},
                from |-> {b \in Blocks : Dominates(graph, entry, d, b)}]
    BY <1>4 DEF Variables
  <2>2. var.name = "x" /\ var.at = {d} /\ var.from = {b \in Blocks : Dom(d, b)}
    BY <2>1 DEF Dom
  <2>3. ASSUME NEW b \in Blocks PROVE Headed(code[b], b, d)
    <3>1. CASE b = exit
      <4>1. code[b] = << >> /\ b # d
        BY <1>1, <3>1
      <4> QED BY <4>1 DEF Headed
    <3>2. CASE b # exit
      <4>1. code[b] = Body(graph, var, caller, own, returns, b)
        BY <1>1, <3>2
      <4> QED BY <2>2, <4>1, BodyHeaded
    <3> QED BY <3>1, <3>2
  <2>4. phase = "mark" /\ useful = {} /\ work_list = << >>
    BY DEF Init
  <2>5. XInv(d)
    BY <1>2, <2>2, <2>3, <2>4 DEF XInv, Swepts
  <2>6. MarkInv(d)
    BY <2>4 DEF MarkInv
  <2> QED BY <2>5, <2>6 DEF XHeld
<1> QED BY <1>3, <1>4

-----------------------------------------------------------------------------
(* Marking.                                                                *)

AllInsns == UNION {Insns(b) : b \in Blocks}

LEMMA InsnsFinite ==
    ASSUME NEW V, HasCode(V)
    PROVE  /\ IsFiniteSet(AllInsns)
           /\ AllInsns \subseteq Blocks \X Nat
           /\ \A b \in Blocks : DOMAIN code[b] = 1..Len(code[b]) /\ Len(code[b]) \in Nat
<1>1. \A b \in Blocks : DOMAIN code[b] = 1..Len(code[b]) /\ Len(code[b]) \in Nat
  BY DEF HasCode
<1>2. ASSUME NEW b \in Blocks
      PROVE  IsFiniteSet(Insns(b)) /\ Insns(b) \subseteq Blocks \X Nat
  <2>1. IsFiniteSet({b}) /\ IsFiniteSet(1..Len(code[b]))
    <3>1. 1 \in Int /\ Len(code[b]) \in Int
      BY <1>1
    <3> QED BY <3>1, FS_Singleton, FS_Interval
  <2>2. IsFiniteSet({b} \X (1..Len(code[b])))
    BY <2>1, FS_Product
  <2>3. Insns(b) = {b} \X (1..Len(code[b]))
    BY <1>1 DEF Insns
  <2> QED BY <1>1, <2>2, <2>3
<1> DEFINE T == {Insns(b) : b \in Blocks}
           f == [b \in Blocks |-> Insns(b)]
<1>3. IsFiniteSet(T)
  <2>1. f \in Surjection(Blocks, T)
    BY DEF Surjection
  <2> HIDE DEF f, T
  <2> QED BY <2>1, BlocksFinite, FS_Surjection
<1>4. \A S \in T : IsFiniteSet(S)
  BY <1>2
<1>5. IsFiniteSet(UNION T)
  <2> HIDE DEF T
  <2> QED BY <1>3, <1>4, FS_UNION
<1> QED BY <1>1, <1>2, <1>5 DEF AllInsns

LEMMA FrontElems ==
    ASSUME NEW S, NEW s \in Seq(S), s # << >>
    PROVE  Elems(s) \subseteq Elems(Front(s)) \cup {Last(s)}
<1>1. /\ Len(s) \in Nat \ {0} /\ Len(Front(s)) = Len(s) - 1
      /\ \A n \in 1..(Len(s) - 1) : Front(s)[n] = s[n]
  BY FrontOf
<1> SUFFICES ASSUME NEW n \in 1..Len(s) PROVE s[n] \in Elems(Front(s)) \cup {Last(s)}
  BY DEF Elems
<1>2. CASE n = Len(s)
  BY <1>2 DEF Last
<1>3. CASE n # Len(s)
  <2>1. n \in 1..(Len(s) - 1)
    BY <1>1, <1>3
  <2>2. s[n] \in Elems(Front(s))
    BY <1>1, <2>1 DEF Elems
  <2> QED BY <2>2
<1> QED BY <1>2, <1>3

\* While the code is as it was, x has one assignment.
LEMMA LastAssign ==
    ASSUME GraphInv, NEW d \in Blocks, HasCode("x"),
           \A b \in Blocks : Headed(code[b], b, d)
    PROVE  last_assign("x") = {<<d, 1>>}
<1>1. Assigns("x") = {<<d, 1>>}
  <2>1. ASSUME NEW i \in Assigns("x") PROVE i = <<d, 1>>
    <3>1. PICK b \in Blocks : i \in Insns(b) /\ At(i).rd = "x"
      BY DEF Assigns
    <3>2. PICK k \in 1..Len(code[b]) : i = <<b, k>> /\ code[b][k].rd = "x"
      BY <3>1, InsnsFinite DEF Insns, At
    <3>3. code[b][k] \notin Later(b, d)
      BY <3>2 DEF Later
    <3> QED BY <3>2, <3>3 DEF Headed
  <2>2. <<d, 1>> \in Assigns("x")
    <3>1. Len(code[d]) >= 1 /\ code[d][1] = Assignment
      BY DEF Headed
    <3>2. 1 \in DOMAIN code[d]
      BY <3>1, InsnsFinite
    <3>3. <<d, 1>> \in Insns(d) /\ At(<<d, 1>>).rd = "x"
      BY <3>1, <3>2 DEF Insns, At, Assignment, Insn
    <3> QED BY <3>3 DEF Assigns
  <2> QED BY <2>1, <2>2
<1>2. Place(d) \in 1..N
  <2>1. \E n \in 1..N : rpo[n] = d
    BY DEF GraphInv, IsOrder, Elems
  <2> QED BY <2>1 DEF Place
<1>3. N \in Nat
  BY BlocksFinite
<1> QED BY <1>1, <1>2, <1>3 DEF last_assign, NULL

\* A useful block that dominates where an edge leads dominates where it
\* comes from, the edges of dead branches included.
EdgesDominated ==
    \A b, d \in Blocks : \A c \in out[b] :
        d \in live_blocks /\ d # c /\ Dom(d, c) => Dom(d, b)

LEMMA EdgeDominated ==
    ASSUME GraphInv, NEW b \in Blocks, NEW d \in Blocks, NEW c \in graph[b],
           d # c, Dom(d, c)
    PROVE  Dom(d, b)
<1>1. IsGraph(graph) /\ entry \in Blocks
  BY DEF GraphInv, Connected
<1> QED BY <1>1, Undominated DEF Dom

Inv ==
    /\ GraphInv
    /\ phase \in {"mark", "sweep", "live", "done"} /\ bb \in Nat \ {0}
    /\ out \in [Blocks -> SUBSET Blocks]
    /\ phase = "mark" => out = graph
    /\ phase # "mark" => EdgesDominated
    /\ phase \in {"mark", "sweep"} => HasCode("y") \/ XHeld

\* What marking leaves as it is.
LEMMA MarkStep ==
    ASSUME Inv, phase = "mark", UNCHANGED <<analysis, out, code>>,
           phase' = "mark" \/ (phase' = "sweep" /\ bb' = 1 /\ work_list = << >>
                               /\ UNCHANGED <<work_list, useful, live_blocks>>),
           bb' \in Nat \ {0},
           phase' = "mark" => \A d \in Blocks \ {exit} : XInv(d) /\ MarkInv(d) => MarkInv(d)'
    PROVE  Inv'
<1>1. GraphInv'
  BY DEF Inv, GraphInv, analysis
<1>2. out' = graph' /\ out' \in [Blocks -> SUBSET Blocks]
  BY DEF Inv, analysis
<1>3. HasCode("y") => HasCode("y")'
  BY DEF HasCode
<1>4. ASSUME NEW d \in Blocks \ {exit}, XInv(d), MarkInv(d) PROVE XInv(d)' /\ MarkInv(d)'
  <2>1. HasCode("x") /\ \A b \in Blocks : Headed(code[b], b, d)
    BY <1>4 DEF XInv, Swepts
  <2>2. graph' = graph /\ code' = code
    BY DEF analysis
  <2>3. HasCode("x")' /\ \A b \in Blocks : Headed(code[b], b, d)'
    BY <2>1, <2>2 DEF HasCode, Headed, Later, Dom
  <2>4. Swepts' = {}
    <3>1. CASE phase' = "mark"
      BY <3>1 DEF Swepts
    <3>2. CASE phase' = "sweep" /\ bb' = 1
      <4>1. 1..bb' - 1 = {}
        BY ONLY <3>2
      <4> QED BY ONLY <3>2, <4>1 DEF Swepts
    <3> QED BY <3>1, <3>2
  <2>5. MarkInv(d)'
    BY <1>4 DEF MarkInv
  <2>6. (<<d, 1>> \in useful)' => (d \in live_blocks)'
    <3>1. CASE phase' = "mark"
      BY <2>5, <3>1 DEF MarkInv
    <3>2. CASE phase' # "mark"
      BY <1>4, <3>2 DEF XInv
    <3> QED BY <3>1, <3>2
  <2>7. (Len(code[d]) >= 1 /\ code[d][1] = Assignment)'
    BY <2>3 DEF Headed
  <2>8. phase' # "mark" =>
          \A b \in Blocks : \A k \in 1..Len(code[b]) :
            code[b][k].rs = "x" /\ <<b, k>> \in useful => <<d, 1>> \in useful
    <3> SUFFICES ASSUME phase' # "mark", NEW b \in Blocks, NEW k \in 1..Len(code[b]),
                        code[b][k].rs = "x", <<b, k>> \in useful
                 PROVE  <<d, 1>> \in useful
      OBVIOUS
    <3>1. Elems(work_list) = {}
      BY DEF Elems
    <3>2. At(<<b, k>>).rs = "x"
      BY DEF At
    <3> QED BY <1>4, <3>1, <3>2 DEF MarkInv
  <2>9. phase' # "mark" =>
          \A b \in Blocks : \A k \in 1..Len(code'[b]) :
            code'[b][k].rs = "x" /\ <<b, k>> \in useful' => <<d, 1>> \in useful'
    BY <2>2, <2>8
  <2> QED BY <2>3, <2>4, <2>5, <2>6, <2>7, <2>9 DEF XInv
<1>5. (HasCode("y") \/ XHeld)'
  BY <1>3, <1>4 DEF Inv, XHeld
<1>6. (phase \in {"mark", "sweep", "live", "done"})'
  OBVIOUS
<1>7. EdgesDominated'
  <2>1. out' = graph /\ \A a, b : Dom(a, b)' = Dom(a, b)
    BY DEF Inv, Dom, analysis
  <2>2. GraphInv
    BY DEF Inv
  <2> QED BY <2>1, <2>2, EdgeDominated DEF EdgesDominated
<1> QED BY <1>1, <1>2, <1>5, <1>6, <1>7 DEF Inv

LEMMA InitMarkInv == Inv /\ InitMark => Inv'
<1> SUFFICES ASSUME Inv, InitMark PROVE Inv'
  OBVIOUS
<1> DEFINE b == rpo[bb]
           new == Starts(b)
<1>1. /\ phase = "mark" /\ phase' = phase /\ UNCHANGED <<analysis, out, code>>
      /\ bb' = bb + 1 /\ bb \in Nat \ {0} /\ bb <= N /\ work_list = << >>
      /\ useful' = useful \cup new /\ live_blocks' = live_blocks \cup {b}
      /\ work_list' = SetToSeq(new)
  BY DEF InitMark, Inv
<1>2. b \in Blocks
  <2>1. bb \in 1..N /\ Len(rpo) = N /\ rpo \in Seq(Blocks)
    BY <1>1, BlocksFinite DEF Inv, GraphInv, IsOrder
  <2> QED BY <2>1
<1> HIDE DEF b
<1>3. ASSUME NEW d \in Blocks \ {exit}, XInv(d), MarkInv(d) PROVE MarkInv(d)'
  <2>1. HasCode("x")
    BY <1>3 DEF XInv
  <2>2. new \subseteq Insns(b)
    <3>1. DOMAIN code[b] = 1..Len(code[b]) /\ Len(code[b]) \in Nat
      BY <1>2, <2>1, InsnsFinite
    <3>2. ASSUME NEW k \in DOMAIN code[b] PROVE Pushes(b, k) \subseteq Insns(b)
      <4> SUFFICES ASSUME NEW j \in 1..(k - 1) PROVE <<b, j>> \in Insns(b)
        BY DEF Pushes
      <4>1. j \in DOMAIN code[b]
        BY <3>1
      <4> QED BY <4>1 DEF Insns
    <3>3. \A k \in DOMAIN code[b] : <<b, k>> \in Insns(b)
      BY DEF Insns
    <3> QED BY <3>2, <3>3 DEF Starts
  <2>3. Insns(b) \subseteq AllInsns /\ IsFiniteSet(AllInsns)
        /\ AllInsns \subseteq Blocks \X Nat
    BY <1>2, <2>1, InsnsFinite DEF AllInsns
  <2>4. \A i \in Insns(b) : i[1] = b
    BY DEF Insns
  <2> HIDE DEF new
  <2>5. IsFiniteSet(new)
    BY <2>2, <2>3, FS_Subset
  <2>6. SetToSeq(new) \in Seq(new) /\ Elems(SetToSeq(new)) = new
    BY <2>5, SetToSeqOf
  <2>7. work_list' \in Seq(Blocks \X Nat)
    BY <1>1, <2>2, <2>3, <2>6
  <2>8. Elems(work_list) = {} /\ Elems(work_list)' = new
    BY <1>1, <2>6 DEF Elems
  <2>9. /\ \A i \in useful : (At(i).rs = "x" => <<d, 1>> \in useful) /\ i[1] \in live_blocks
    BY <1>1, <1>3, <2>8 DEF MarkInv
  <2>10. \A i : At(i)' = At(i)
    BY <1>1 DEF At
  <2>11. ASSUME NEW i \in useful'
         PROVE  /\ i \in Elems(work_list)' \/ (At(i)'.rs = "x" => <<d, 1>> \in useful')
                /\ i[1] \in live_blocks'
    BY <1>1, <2>2, <2>4, <2>8, <2>9, <2>10
  <2> QED BY <2>7, <2>11 DEF MarkInv
<1> QED BY <1>1, <1>3, MarkStep

LEMMA NothingToMarkInv == Inv /\ NothingToMark => Inv'
<1> SUFFICES ASSUME Inv, NothingToMark PROVE Inv'
  OBVIOUS
<1>1. /\ phase = "mark" /\ UNCHANGED <<analysis, out, code, work_list, useful, live_blocks>>
      /\ work_list = << >> /\ bb' \in Nat \ {0}
      /\ phase' = "mark" \/ (phase' = "sweep" /\ bb' = 1)
  BY DEF NothingToMark, Inv
<1>2. ASSUME NEW d \in Blocks \ {exit}, XInv(d), MarkInv(d) PROVE MarkInv(d)'
  BY <1>1, <1>2 DEF MarkInv, At, Elems
<1> QED BY <1>1, <1>2, MarkStep

LEMMA PopInv == Inv /\ Pop => Inv'
<1> SUFFICES ASSUME Inv, Pop PROVE Inv'
  OBVIOUS
<1> DEFINE curr == Last(work_list)
           new == (last_assign(At(curr).rs) \cup Controls(curr[1])) \ useful
<1>1. /\ phase = "mark" /\ phase' = phase /\ bb' = bb /\ UNCHANGED <<analysis, out, code>>
      /\ work_list # << >> /\ bb \in Nat \ {0}
      /\ useful' = useful \cup new /\ live_blocks' = live_blocks \cup {i[1] : i \in new}
      /\ work_list' = Front(work_list) \o SetToSeq(new)
  BY DEF Pop, Inv
<1> HIDE DEF curr
<1>2. ASSUME NEW d \in Blocks \ {exit}, XInv(d), MarkInv(d) PROVE MarkInv(d)'
  <2>1. HasCode("x") /\ \A b \in Blocks : Headed(code[b], b, d)
    BY <1>1, <1>2 DEF XInv, Swepts
  <2>2. work_list \in Seq(Blocks \X Nat) /\ work_list # << >>
    BY <1>1, <1>2 DEF MarkInv
  <2>3. /\ curr \in Blocks \X Nat /\ Front(work_list) \in Seq(Blocks \X Nat)
        /\ Elems(work_list) \subseteq Elems(Front(work_list)) \cup {curr}
    BY <2>2, FrontOf, FrontElems DEF curr
  <2>4. /\ IsFiniteSet(AllInsns) /\ AllInsns \subseteq Blocks \X Nat
        /\ \A b \in Blocks : DOMAIN code[b] = 1..Len(code[b]) /\ Len(code[b]) \in Nat
        /\ \A b \in Blocks : code[b] # << >> => Len(code[b]) # 0
    BY <2>1, InsnsFinite DEF HasCode
  <2>5. last_assign(At(curr).rs) \subseteq AllInsns
    BY DEF last_assign, Assigns, AllInsns
  <2>6. Controls(curr[1]) \subseteq AllInsns
    <3>1. rdf[curr[1]] \in SUBSET Blocks
      BY <2>3 DEF Inv, GraphInv
    <3> SUFFICES ASSUME NEW c \in rdf[curr[1]], code[c] # << >>
                 PROVE  <<c, Len(code[c])>> \in AllInsns
      BY DEF Controls
    <3>2. c \in Blocks /\ Len(code[c]) \in DOMAIN code[c]
      BY <2>4, <3>1
    <3> QED BY <3>2 DEF AllInsns, Insns
  <2>7. new \subseteq AllInsns /\ IsFiniteSet(new)
    BY <2>4, <2>5, <2>6, FS_Subset
  <2>8. At(curr).rs = "x" => last_assign(At(curr).rs) = {<<d, 1>>}
    BY <2>1, LastAssign DEF Inv
  <2>9. At(curr).rs = "x" => <<d, 1>> \in useful'
    BY <1>1, <2>8
  <2> HIDE DEF new
  <2>10. SetToSeq(new) \in Seq(new) /\ Elems(SetToSeq(new)) = new
    BY <2>7, SetToSeqOf
  <2>11. SetToSeq(new) \in Seq(Blocks \X Nat)
    BY <2>4, <2>7, <2>10
  <2>12. /\ work_list' \in Seq(Blocks \X Nat)
         /\ Elems(work_list)' = Elems(Front(work_list)) \cup new
    <3>1. /\ Front(work_list) \o SetToSeq(new) \in Seq(Blocks \X Nat)
          /\ Elems(Front(work_list) \o SetToSeq(new))
               = Elems(Front(work_list)) \cup Elems(SetToSeq(new))
      BY <2>3, <2>11, ConcatOf
    <3>2. Elems(work_list)' = Elems(Front(work_list) \o SetToSeq(new))
      BY <1>1 DEF Elems
    <3> QED BY <1>1, <2>10, <3>1, <3>2
  <2>13. \A i : At(i)' = At(i)
    BY <1>1 DEF At
  <2>14. ASSUME NEW i \in useful'
         PROVE  /\ i \in Elems(work_list)' \/ (At(i)'.rs = "x" => <<d, 1>> \in useful')
                /\ i[1] \in live_blocks'
    <3>1. CASE i \in new
      BY <1>1, <2>12, <3>1
    <3>2. CASE i \notin new
      <4>1. /\ i \in useful /\ i[1] \in live_blocks
            /\ i \in Elems(work_list) \/ (At(i).rs = "x" => <<d, 1>> \in useful)
        BY <1>1, <1>2, <3>2 DEF MarkInv
      <4> QED BY <1>1, <2>3, <2>9, <2>12, <2>13, <4>1
    <3> QED BY <3>1, <3>2
  <2> QED BY <2>12, <2>14 DEF MarkInv
<1> QED BY <1>1, <1>2, MarkStep

-----------------------------------------------------------------------------
(* Sweeping.                                                               *)

\* What keeps XInv where the code of one block is swept.
LEMMA SweptBlock ==
    ASSUME NEW d \in Blocks, NEW b \in Blocks, HasCode("x"), Headed(code[b], b, d),
           \A k \in 1..Len(code[b]) :
             code[b][k].rs = "x" /\ <<b, k>> \in useful => <<d, 1>> \in useful,
           NEW q, q = Kept(code[b], {k \in DOMAIN code[b] : <<b, k>> \in useful})
    PROVE  /\ \A m \in 1..Len(q) :
                q[m].rs = "x" => /\ Dom(d, b) /\ (b = d => m # 1)
                                 /\ <<d, 1>> \in useful
           /\ b = d /\ <<d, 1>> \in useful => Len(q) >= 1 /\ q[1] = Assignment
<1> DEFINE s == code[b]
           K == {k \in DOMAIN s : <<b, k>> \in useful}
<1>1. /\ s \in Seq(Code("x")) /\ DOMAIN s = 1..Len(s) /\ Len(s) \in Nat
  BY DEF HasCode
<1>2. q = Kept(s, K)
  OBVIOUS
<1> HIDE DEF K
<1>3. q \in Seq(Code("x")) /\ IsLeft(q, s, K, Len(s))
  BY <1>1, <1>2, KeptOf
<1>4. b = d => Len(s) >= 1 /\ s[1] = Assignment
  BY DEF Headed
<1>5. b = d /\ <<d, 1>> \in useful => Len(q) >= 1 /\ q[1] = Assignment
  <2> SUFFICES ASSUME b = d, <<d, 1>> \in useful
               PROVE  Len(q) >= 1 /\ q[1] = Assignment
    OBVIOUS
  <2>1. 1 \in K /\ Len(s) >= 1
    BY <1>1, <1>4 DEF K
  <2> QED BY <1>3, <1>4, <2>1 DEF IsLeft
<1>6. ASSUME NEW m \in 1..Len(q), q[m].rs = "x"
      PROVE  Dom(d, b) /\ (b = d => m # 1) /\ <<d, 1>> \in useful
  <2>1. PICK k \in K : k \in m..Len(s) /\ q[m] = s[k]
    BY <1>3 DEF IsLeft
  <2>2. k \in 1..Len(s) /\ <<b, k>> \in useful
    BY <1>1 DEF K
  <2>3. Assignment.rs # "x"
    BY DEF Assignment, Insn
  <2>4. <<d, 1>> \in useful
    BY <1>6, <2>1, <2>2
  <2>5. ~(b = d /\ k = 1)
    BY <1>4, <1>6, <2>1, <2>3
  <2>6. s[k] \in Later(b, d)
    BY <2>2, <2>5 DEF Headed
  <2>7. Dom(d, b)
    BY <1>6, <2>1, <2>6 DEF Later
  <2>8. b = d => m # 1
    BY <1>5, <1>6, <2>3, <2>4
  <2> QED BY <2>4, <2>7, <2>8
<1> QED BY <1>5, <1>6

\* The block that is swept next.
LEMMA NextSwept ==
    ASSUME GraphInv, phase = "sweep", phase' = "sweep", bb \in Nat \ {0}, bb <= N,
           bb' = bb + 1, rpo' = rpo
    PROVE  /\ rpo[bb] \in Blocks /\ rpo[bb] \notin Swepts
           /\ Swepts' = Swepts \cup {rpo[bb]} /\ Swepts \subseteq Blocks
<1>1. /\ bb \in 1..N /\ Len(rpo) = N /\ rpo \in Seq(Blocks) /\ N \in Nat
      /\ Distinct(rpo)
  BY BlocksFinite DEF GraphInv, IsOrder
<1>2. Swepts = {rpo[n] : n \in 1..(bb - 1)}
  BY DEF Swepts
<1>3. Swepts' = {rpo[n] : n \in 1..bb}
  <2>1. (bb + 1) - 1 = bb
    OBVIOUS
  <2> QED BY <2>1 DEF Swepts
<1>4. 1..bb = (1..(bb - 1)) \cup {bb}
  OBVIOUS
<1>5. rpo[bb] \in Blocks
  BY <1>1
<1>6. rpo[bb] \notin Swepts
  <2> SUFFICES ASSUME NEW n \in 1..(bb - 1), rpo[n] = rpo[bb] PROVE FALSE
    BY <1>2
  <2>1. n \in 1..Len(rpo) /\ bb \in 1..Len(rpo) /\ n # bb
    BY <1>1
  <2> QED BY <1>1, <2>1 DEF Distinct
<1>7. Swepts \subseteq Blocks
  <2>1. \A n \in 1..(bb - 1) : n \in 1..Len(rpo)
    BY <1>1
  <2> QED BY <1>1, <1>2, <2>1
<1> QED BY <1>2, <1>3, <1>4, <1>5, <1>6, <1>7

LEMMA SweepInv == Inv /\ Sweep => Inv'
<1> SUFFICES ASSUME Inv, Sweep PROVE Inv'
  OBVIOUS
<1> DEFINE b == rpo[bb]
           q == Kept(code[b], {k \in DOMAIN code[b] : <<b, k>> \in useful})
<1>1. /\ phase = "sweep" /\ phase' = phase /\ bb <= N /\ bb' = bb + 1
      /\ bb \in Nat \ {0} /\ graph' = graph
      /\ UNCHANGED <<analysis, phase, work_list, useful, live_blocks>>
      /\ code' = [code EXCEPT ![b] = q]
      /\ out' = out \/ (b \in Branching(graph) /\ out' = [out EXCEPT ![b] = Targets(b)])
      /\ GraphInv /\ out \in [Blocks -> SUBSET Blocks] /\ EdgesDominated
  BY DEF Sweep, Inv, analysis
<1>2. /\ b \in Blocks /\ b \notin Swepts /\ Swepts' = Swepts \cup {b}
      /\ Swepts \subseteq Blocks
  <2>1. rpo' = rpo
    BY <1>1 DEF analysis
  <2> QED BY <1>1, <2>1, NextSwept
<1> HIDE DEF b
<1>3. GraphInv'
  BY <1>1 DEF GraphInv, analysis
<1>4. \A V : HasCode(V) => HasCode(V)'
  <2> SUFFICES ASSUME NEW V, HasCode(V) PROVE HasCode(V)'
    OBVIOUS
  <2>1. code[b] \in Seq(Code(V))
    BY <1>2 DEF HasCode
  <2>2. q \in Seq(Code(V))
    BY <2>1, KeptOf
  <2> HIDE DEF q
  <2> QED BY <1>1, <1>2, <2>2 DEF HasCode
<1>5. out' \in [Blocks -> SUBSET Blocks] /\ EdgesDominated'
  <2>0. \A x, y : Dom(x, y)' = Dom(x, y)
    BY <1>1 DEF Dom
  <2>1. CASE out' = out
    BY <1>1, <2>0, <2>1 DEF EdgesDominated
  <2>2. CASE b \in Branching(graph) /\ out' = [out EXCEPT ![b] = Targets(b)]
    <3>1. b \in Blocks \ {exit}
      <4>1. Cardinality({}) = 0
        BY FS_EmptySet
      <4>2. Cardinality(graph[b]) = 2
        BY <2>2 DEF Branching
      <4>3. graph[exit] = {}
        BY <1>1 DEF GraphInv
      <4>4. b # exit
        BY <4>1, <4>2, <4>3
      <4> QED BY <1>2, <4>4
    <3>2. Targets(b) \in SUBSET Blocks
      BY <1>1, <3>1, TargetsType
    <3>3. \A t \in Targets(b) : \A d \in Blocks :
            d \in live_blocks /\ d # t /\ Dom(d, t) => Dom(d, b)
      BY <1>1, <3>1, Redirect
    <3>4. out'[b] = Targets(b) /\ \A c \in Blocks \ {b} : out'[c] = out[c]
      BY <1>1, <2>2, <3>1
    <3>5. EdgesDominated'
      <4> SUFFICES ASSUME NEW a \in Blocks, NEW d \in Blocks, NEW c \in out'[a],
                          d \in live_blocks, d # c, Dom(d, c)
                   PROVE  Dom(d, a)
        BY <1>1, <2>0 DEF EdgesDominated
      <4> QED BY <1>1, <3>3, <3>4 DEF EdgesDominated
    <3>6. out' \in [Blocks -> SUBSET Blocks]
      BY <1>1, <2>2, <3>2
    <3> QED BY <3>5, <3>6
  <2> QED BY <1>1, <2>1, <2>2
<1>6. ASSUME NEW d \in Blocks \ {exit}, XInv(d) PROVE XInv(d)'
  <2>1. /\ HasCode("x") /\ HasCode("x")' /\ Headed(code[b], b, d)
        /\ \A k \in 1..Len(code[b]) :
             code[b][k].rs = "x" /\ <<b, k>> \in useful => <<d, 1>> \in useful
    BY <1>1, <1>2, <1>4, <1>6 DEF XInv
  <2>2. /\ \A m \in 1..Len(q) :
             q[m].rs = "x" => /\ Dom(d, b) /\ (b = d => m # 1)
                              /\ <<d, 1>> \in useful
        /\ b = d /\ <<d, 1>> \in useful => Len(q) >= 1 /\ q[1] = Assignment
    BY <1>2, <2>1, SweptBlock
  <2> HIDE DEF q
  <2>3. code'[b] = q /\ \A c \in Blocks \ {b} : code'[c] = code[c]
    BY <1>1, <1>2, <2>1 DEF HasCode
  <2>4. \A x, y : Dom(x, y)' = Dom(x, y)
    BY <1>1 DEF Dom
  <2>5. \A c \in (Blocks \ Swepts)' : Headed(code[c], c, d)'
    <3> SUFFICES ASSUME NEW c \in Blocks \ Swepts' PROVE Headed(code[c], c, d)'
      OBVIOUS
    <3>1. c # b /\ c \in Blocks \ Swepts
      BY <1>2
    <3>2. Headed(code[c], c, d)
      BY <1>6, <3>1 DEF XInv
    <3> QED BY <2>3, <2>4, <3>1, <3>2 DEF Headed, Later
  <2>6. \A c \in Swepts' : \A k \in 1..Len(code'[c]) :
          code'[c][k].rs = "x" => /\ Dom(d, c) /\ (c = d => k # 1)
                                  /\ <<d, 1>> \in useful
    <3> SUFFICES ASSUME NEW c \in Swepts', NEW k \in 1..Len(code'[c]),
                        code'[c][k].rs = "x"
                 PROVE  Dom(d, c) /\ (c = d => k # 1) /\ <<d, 1>> \in useful
      OBVIOUS
    <3>1. CASE c = b
      BY <2>2, <2>3, <3>1
    <3>2. CASE c # b
      <4>1. c \in Swepts /\ c \in Blocks
        BY <1>2, <3>2
      <4> QED BY <1>6, <2>3, <3>2, <4>1 DEF XInv
    <3> QED BY <3>1, <3>2
  <2>7. \A c \in (Blocks \ Swepts)' : \A k \in 1..Len(code'[c]) :
          code'[c][k].rs = "x" /\ <<c, k>> \in useful => <<d, 1>> \in useful
    <3> SUFFICES ASSUME NEW c \in Blocks \ Swepts', NEW k \in 1..Len(code'[c]),
                        code'[c][k].rs = "x", <<c, k>> \in useful
                 PROVE  <<d, 1>> \in useful
      OBVIOUS
    <3>1. c # b /\ c \in Blocks \ Swepts
      BY <1>2
    <3> QED BY <1>1, <1>6, <2>3, <3>1 DEF XInv
  <2>8. <<d, 1>> \in useful => /\ d \in live_blocks
                              /\ Len(code'[d]) >= 1 /\ code'[d][1] = Assignment
    <3>1. CASE b = d
      BY <1>6, <2>2, <2>3, <3>1 DEF XInv
    <3>2. CASE b # d
      BY <1>6, <2>3, <3>2 DEF XInv
    <3> QED BY <3>1, <3>2
  <2>9. useful' = useful /\ live_blocks' = live_blocks
    BY <1>1
  <2> QED BY <2>1, <2>4, <2>5, <2>6, <2>7, <2>8, <2>9 DEF XInv
<1>7. (HasCode("y") \/ XHeld)'
  <2>1. \A d : MarkInv(d)'
    BY <1>1 DEF MarkInv
  <2> QED BY <1>1, <1>4, <1>6, <2>1 DEF Inv, XHeld
<1>8. (phase \in {"mark", "sweep", "live", "done"} /\ bb \in Nat \ {0})' /\ phase' # "mark"
  BY <1>1
<1> QED BY <1>3, <1>5, <1>7, <1>8 DEF Inv

-----------------------------------------------------------------------------
(* The analysis: where x is live.                                          *)

XLive(d) ==
    \A b \in Blocks :
      /\ "x" \in live_gen[b] => b # d
      /\ "x" \in live_gen[b] \cup live_out[b] =>
           Dom(d, b) /\ d \in live_blocks /\ "x" \in live_kill[d]

LiveInv ==
    /\ Inv
    /\ phase \in {"mark", "sweep"} => live_out = Nothing /\ ~changed
    /\ phase \in {"live", "done"} =>
         /\ \E V \in {"x", "y"} : /\ live_gen \in [Blocks -> SUBSET {"p", V}]
                                  /\ live_out \in [Blocks -> SUBSET {"p", V}]
         /\ \E d \in Blocks : XLive(d)

LEMMA LiveStart == LiveInit => LiveInv
<1> SUFFICES ASSUME LiveInit PROVE LiveInv
  OBVIOUS
<1>1. GraphInv /\ (HasCode("y") \/ XHeld)
  BY GraphInit, CodeInit DEF LiveInit
<1>2. out \in [Blocks -> SUBSET Blocks]
  BY <1>1 DEF LiveInit, Init, GraphInv, Connected, IsGraph
<1>3. phase = "mark" /\ bb = 1
  BY DEF LiveInit, Init
<1>4. Inv
  <2>1. phase \in {"mark", "sweep", "live", "done"} /\ bb \in Nat \ {0}
        /\ ~(phase # "mark") /\ out = graph
    BY <1>3 DEF LiveInit, Init
  <2> QED BY <1>1, <1>2, <2>1 DEF Inv
<1>5. live_out = Nothing /\ ~changed
  BY DEF LiveInit
<1> QED BY <1>3, <1>4, <1>5 DEF LiveInv

LEMMA SolveLocalsInv == LiveInv /\ SolveLocals => LiveInv'
<1> SUFFICES ASSUME LiveInv, SolveLocals PROVE LiveInv'
  OBVIOUS
<1>1. /\ phase = "sweep" /\ bb > N /\ phase' = "live" /\ bb' = 1
      /\ live_gen' = [b \in Blocks |-> Needed(b)]
      /\ live_kill' = [b \in Blocks |-> Killed(b, Len(code[b]))
                                        \cup (IF b = entry THEN {"p"} ELSE {})]
      /\ UNCHANGED <<analysis, out, code, work_list, useful, live_blocks,
                     live_in, live_out, changed>>
  BY DEF SolveLocals, Swept
<1>2. /\ Inv /\ live_out = Nothing /\ (HasCode("y") \/ XHeld)
      /\ bb \in Nat \ {0} /\ GraphInv
  BY <1>1 DEF LiveInv, Inv
<1>3. Inv'
  <2>1. GraphInv'
    BY <1>1, <1>2 DEF GraphInv, analysis
  <2>2. EdgesDominated'
    BY <1>1, <1>2 DEF EdgesDominated, Inv, Dom, analysis
  <2> QED BY <1>1, <1>2, <2>1, <2>2 DEF Inv
<1>4. ASSUME NEW V, HasCode(V) PROVE live_gen' \in [Blocks -> SUBSET {"p", V}]
  <2> SUFFICES ASSUME NEW b \in Blocks PROVE Needed(b) \subseteq {"p", V}
    BY <1>1
  <2>1. \A k \in DOMAIN code[b] : code[b][k] \in Code(V)
    BY <1>4 DEF HasCode
  <2> QED BY <2>1 DEF Needed, Code, NULL
<1>5. live_out' = [b \in Blocks |-> {}]
  BY <1>1, <1>2 DEF Nothing
<1>6. CASE HasCode("y")
  <2>1. live_gen' \in [Blocks -> SUBSET {"p", "y"}]
    BY <1>4, <1>6
  <2>2. entry \in Blocks /\ XLive(entry)'
    BY <1>5, <2>1, BlocksFinite DEF XLive
  <2>3. live_out' \in [Blocks -> SUBSET {"p", "y"}]
    BY <1>5
  <2> QED BY <1>1, <1>3, <2>1, <2>2, <2>3 DEF LiveInv
<1>7. CASE XHeld
  <2>1. PICK d \in Blocks \ {exit} : XInv(d)
    BY <1>7 DEF XHeld
  <2>2. live_gen' \in [Blocks -> SUBSET {"p", "x"}]
    BY <1>4, <2>1 DEF XInv
  <2>3. live_out' \in [Blocks -> SUBSET {"p", "x"}]
    BY <1>5
  <2>4. Blocks \subseteq Swepts
    <3>1. Elems(rpo) = Blocks /\ Len(rpo) = N /\ N \in Nat
      BY <1>2, BlocksFinite DEF GraphInv, IsOrder
    <3>2. \A n \in 1..N : n \in 1..(bb - 1)
      BY <1>1, <1>2, <3>1
    <3> QED BY <1>1, <3>1, <3>2 DEF Swepts, Elems
  <2>5. \A b \in Blocks : DOMAIN code[b] = 1..Len(code[b]) /\ Len(code[b]) \in Nat
    BY <2>1, InsnsFinite DEF XInv
  <2>6. Assignment.rd = "x" /\ Assignment.op # "unwound_phi" /\ "x" # NULL
    BY DEF Assignment, Insn, NULL
  <2>7. ASSUME NEW b \in Blocks, "x" \in Needed(b)
        PROVE  b # d /\ Dom(d, b) /\ d \in live_blocks /\ "x" \in live_kill'[d]
    <3>1. PICK k \in 1..Len(code[b]) : code[b][k].rs = "x" /\ "x" \notin Killed(b, k - 1)
      BY <2>5, <2>7 DEF Needed
    <3>2. Dom(d, b) /\ (b = d => k # 1) /\ <<d, 1>> \in useful
      BY <2>1, <2>4, <3>1 DEF XInv
    <3>3. d \in live_blocks /\ Len(code[d]) >= 1 /\ code[d][1] = Assignment
      BY <2>1, <3>2 DEF XInv
    <3>4. ASSUME NEW n \in Nat, n >= 1 PROVE "x" \in Killed(d, n)
      <4>1. 1 \in {j \in 1..n : code[d][j].op # "unwound_phi"}
        BY <2>6, <3>3, <3>4
      <4> QED BY <2>6, <3>3, <4>1 DEF Killed
    <3>5. b # d
      <4> SUFFICES ASSUME b = d PROVE FALSE
        OBVIOUS
      <4>1. k - 1 \in Nat /\ k - 1 >= 1
        BY <2>5, <3>2
      <4> QED BY <3>1, <3>4, <4>1
    <3>6. "x" \in live_kill'[d]
      BY <1>1, <2>5, <3>3, <3>4
    <3> QED BY <3>2, <3>3, <3>5, <3>6
  <2>8. \A x, y : Dom(x, y)' = Dom(x, y)
    BY <1>1 DEF Dom, analysis
  <2>9. live_blocks' = live_blocks
    BY <1>1
  <2>10. XLive(d)'
    <3> SUFFICES ASSUME NEW b \in Blocks, "x" \in live_gen'[b] \cup live_out'[b]
                 PROVE  /\ b # d /\ Dom(d, b) /\ d \in live_blocks
                        /\ "x" \in live_kill'[d]
      BY <2>8, <2>9 DEF XLive
    <3>1. "x" \in Needed(b)
      BY <1>1, <1>5
    <3> QED BY <2>7, <3>1
  <2> QED BY <1>1, <1>3, <2>2, <2>3, <2>10 DEF LiveInv
<1> QED BY <1>2, <1>6, <1>7

LEMMA LiveInSub ==
    ASSUME NEW S, live_gen \in [Blocks -> SUBSET S], live_out \in [Blocks -> SUBSET S],
           NEW B \in SUBSET Blocks
    PROVE  UNION {LiveIn(c) : c \in B} \in SUBSET S
BY DEF LiveIn

LEMMA RecomputeInv == LiveInv /\ Recompute => LiveInv'
<1> SUFFICES ASSUME LiveInv, Recompute PROVE LiveInv'
  OBVIOUS
<1> DEFINE b == rpo_r[bb]
           U == UNION {LiveIn(c) : c \in out[b]}
<1>1. /\ phase = "live" /\ phase' = "live" /\ bb <= N /\ bb' = bb + 1
      /\ UNCHANGED <<analysis, out, code, work_list, useful, live_blocks,
                     live_gen, live_kill>>
  BY DEF Recompute
<1>2. PICK S \in Fitting(U) : live_out' = [live_out EXCEPT ![b] = S]
  BY DEF Recompute
<1>3. S \subseteq U
  BY DEF Fitting
<1>4. Inv /\ GraphInv /\ bb \in Nat \ {0} /\ EdgesDominated
      /\ out \in [Blocks -> SUBSET Blocks]
  BY <1>1 DEF LiveInv, Inv
<1>5. b \in Blocks
  <2>1. bb \in 1..N /\ Len(rpo_r) = N /\ rpo_r \in Seq(Blocks)
    BY <1>1, <1>4, BlocksFinite DEF GraphInv, IsOrder
  <2> QED BY <2>1
<1> HIDE DEF b
<1>6. Inv'
  <2>1. GraphInv'
    BY <1>1, <1>4 DEF GraphInv, analysis
  <2>2. EdgesDominated'
    BY <1>1, <1>4 DEF EdgesDominated, Dom, analysis
  <2> QED BY <1>1, <1>4, <2>1, <2>2 DEF Inv
<1>7. PICK V \in {"x", "y"} : /\ live_gen \in [Blocks -> SUBSET {"p", V}]
                              /\ live_out \in [Blocks -> SUBSET {"p", V}]
  BY <1>1 DEF LiveInv
<1>8. U \in SUBSET {"p", V}
  <2>1. out[b] \in SUBSET Blocks
    BY <1>4, <1>5
  <2> QED BY <1>7, <2>1, LiveInSub
<1>9. PICK d \in Blocks : XLive(d)
  BY <1>1 DEF LiveInv
<1>10. "x" \in U => Dom(d, b) /\ d \in live_blocks /\ "x" \in live_kill[d]
  <2> SUFFICES ASSUME NEW c \in out[b], "x" \in LiveIn(c)
               PROVE  Dom(d, b) /\ d \in live_blocks /\ "x" \in live_kill[d]
    OBVIOUS
  <2>1. c \in Blocks
    BY <1>4, <1>5
  <2>2. Dom(d, c) /\ d \in live_blocks /\ "x" \in live_kill[d] /\ c # d
    BY <1>9, <2>1 DEF XLive, LiveIn
  <2> QED BY <1>4, <1>5, <2>2 DEF EdgesDominated
<1> HIDE DEF U
<1>11. live_out' \in [Blocks -> SUBSET {"p", V}] /\ live_gen' \in [Blocks -> SUBSET {"p", V}]
  BY <1>1, <1>2, <1>3, <1>7, <1>8
<1>12. \A x, y : Dom(x, y)' = Dom(x, y)
  BY <1>1 DEF Dom, analysis
<1>13. XLive(d)'
  <2>1. \A c \in Blocks : live_out'[c] \subseteq live_out[c] \cup (IF c = b THEN U ELSE {})
    BY <1>2, <1>3, <1>7
  <2>2. live_gen' = live_gen /\ live_kill' = live_kill /\ live_blocks' = live_blocks
    BY <1>1
  <2> SUFFICES ASSUME NEW c \in Blocks
               PROVE  /\ "x" \in live_gen'[c] => c # d
                      /\ "x" \in live_gen'[c] \cup live_out'[c] =>
                           Dom(d, c) /\ d \in live_blocks' /\ "x" \in live_kill'[d]
    BY <1>12 DEF XLive
  <2>3. /\ "x" \in live_gen[c] => c # d
        /\ "x" \in live_gen[c] \cup live_out[c] =>
             Dom(d, c) /\ d \in live_blocks /\ "x" \in live_kill[d]
    BY <1>9 DEF XLive
  <2> QED BY <1>10, <2>1, <2>2, <2>3
<1> QED BY <1>1, <1>6, <1>11, <1>13 DEF LiveInv

LEMMA LiveStep == LiveInv /\ [LiveNext]_vars => LiveInv'
<1> SUFFICES ASSUME LiveInv, [LiveNext]_vars PROVE LiveInv'
  OBVIOUS
<1>0. Inv
  BY DEF LiveInv
<1>1. ASSUME InitMark \/ NothingToMark \/ Pop \/ Sweep, UNCHANGED live PROVE LiveInv'
  <2>1. Inv'
    BY <1>0, <1>1, InitMarkInv, NothingToMarkInv, PopInv, SweepInv
  <2>2. phase \in {"mark", "sweep"} /\ phase' \in {"mark", "sweep"}
    BY <1>1 DEF InitMark, NothingToMark, Pop, Sweep
  <2>3. live_out' = Nothing /\ ~changed'
    BY <1>1, <2>2 DEF LiveInv, live
  <2> QED BY <2>1, <2>2, <2>3 DEF LiveInv
<1>2. CASE PassEnds
  <2>1. /\ phase = "live" /\ phase' \in {"live", "done"} /\ bb' \in {1, bb}
        /\ UNCHANGED <<analysis, out, code, work_list, useful, live_blocks,
                       live_gen, live_kill, live_out>>
    BY <1>2 DEF PassEnds
  <2>2. Inv'
    <3>1. GraphInv'
      BY <1>0, <2>1 DEF Inv, GraphInv, analysis
    <3>2. EdgesDominated'
      BY <1>0, <2>1 DEF Inv, EdgesDominated, Dom, analysis
    <3>3. bb' \in Nat \ {0} /\ out' \in [Blocks -> SUBSET Blocks]
      BY <1>0, <2>1 DEF Inv
    <3>4. ~(phase' = "mark") /\ ~(phase' \in {"mark", "sweep"})
          /\ phase' \in {"mark", "sweep", "live", "done"}
      BY <2>1
    <3> QED BY <3>1, <3>2, <3>3, <3>4 DEF Inv
  <2>3. \E d \in Blocks : XLive(d)'
    BY <2>1 DEF LiveInv, XLive, Dom, analysis
  <2>4. \E V \in {"x", "y"} : /\ live_gen' \in [Blocks -> SUBSET {"p", V}]
                              /\ live_out' \in [Blocks -> SUBSET {"p", V}]
    BY <2>1 DEF LiveInv
  <2> QED BY <2>1, <2>2, <2>3, <2>4 DEF LiveInv
<1>3. CASE UNCHANGED vars
  <2>1. UNCHANGED <<analysis, out, code, phase, bb, work_list, useful, live_blocks,
                    live_gen, live_kill, live_out, changed>>
    BY <1>3 DEF vars, dce
  <2>2. GraphInv'
    BY <1>0, <2>1 DEF Inv, GraphInv, analysis
  <2>3. (HasCode("y") \/ XHeld) <=> (HasCode("y") \/ XHeld)'
    BY <2>1 DEF HasCode, XHeld, XInv, MarkInv, Swepts, Headed, Later, Dom, At, Elems,
                analysis
  <2>4. (phase # "mark" => EdgesDominated)'
    BY <1>0, <2>1 DEF Inv, EdgesDominated, Dom, analysis
  <2>5. Inv'
    BY <1>0, <2>1, <2>2, <2>3, <2>4 DEF Inv, analysis
  <2>6. \A d : XLive(d)' = XLive(d)
    BY <2>1 DEF XLive, Dom, analysis
  <2> QED BY <2>1, <2>5, <2>6 DEF LiveInv, Nothing
<1>4. CASE SolveLocals
  BY <1>4, SolveLocalsInv
<1>5. CASE Recompute
  BY <1>5, RecomputeInv
<1> QED BY <1>1, <1>2, <1>3, <1>4, <1>5 DEF LiveNext, Stop

\* No variable that an instruction assigns is live where the function begins:
\* an elimination that dropped the assignment of one that is still used, or
\* led a dead branch past it, would make a load of a place that was never
\* stored to (dce_sweep() against bb_reset_and_solve_locals()).
THEOREM Assigned == Spec => []AssignedBefore
<1>1. LiveInv => AssignedBefore
  <2> SUFFICES ASSUME LiveInv, phase = "done" PROVE LiveIn(entry) \subseteq {"p", "y"}
    BY DEF AssignedBefore
  <2>1. PICK V \in {"x", "y"} : /\ live_gen \in [Blocks -> SUBSET {"p", V}]
                                /\ live_out \in [Blocks -> SUBSET {"p", V}]
    BY DEF LiveInv
  <2>2. PICK d \in Blocks : XLive(d)
    BY DEF LiveInv
  <2>3. entry \in Blocks /\ GraphInv /\ IsGraph(graph)
    BY BlocksFinite DEF LiveInv, Inv, GraphInv, Connected
  <2>4. d # entry => ~Dom(d, entry)
    BY <2>3, Undominated DEF Dom
  <2>5. "x" \notin LiveIn(entry)
    BY <2>2, <2>3, <2>4 DEF LiveIn, XLive
  <2>6. LiveIn(entry) \subseteq {"p", "x", "y"}
    BY <2>1, <2>3 DEF LiveIn
  <2> QED BY <2>5, <2>6
<1> QED BY <1>1, LiveStart, LiveStep, PTL DEF Spec

-----------------------------------------------------------------------------
(* The analysis: its fixed point.                                          *)

\* NeededLater and the equation of live_out, of any graph and sets.
NeededIn(o, gen, kill, v, b) ==
    LET needing == {c \in Blocks : v \in gen[c]}
        passing == {c \in Blocks \ needing : v \notin kill[c]}
    IN  \E c \in o[b] :
            \/ c \in needing
            \/ \E d \in Reach(o, {c} \cap passing, Blocks \ passing) :
                   o[d] \cap needing # {}
Entering(gen, kill, res, c) == (res[c] \ kill[c]) \cup gen[c]
Leaving(o, gen, kill, res, b) == UNION {Entering(gen, kill, res, c) : c \in o[b]}

\* What is live on entry to a successor is needed later.
LEMMA NeededBefore ==
    ASSUME NEW o, IsGraph(o), NEW gen, NEW kill, NEW v,
           NEW b \in Blocks, NEW c \in o[b],
           v \in gen[c] \/ (v \notin kill[c] /\ NeededIn(o, gen, kill, v, c))
    PROVE  NeededIn(o, gen, kill, v, b)
<1> DEFINE needing == {x \in Blocks : v \in gen[x]}
           passing == {x \in Blocks \ needing : v \notin kill[x]}
           X == Blocks \ passing
<1>0. c \in Blocks /\ \A x \in Blocks : o[x] \subseteq Blocks
  BY DEF IsGraph
<1>1. CASE c \in needing
  BY <1>1 DEF NeededIn
<1>2. CASE c \notin needing
  <2>1. c \in passing /\ NeededIn(o, gen, kill, v, c)
    BY <1>0, <1>2
  <2>2. PICK e \in o[c] :
            \/ e \in needing
            \/ \E d \in Reach(o, {e} \cap passing, X) : o[d] \cap needing # {}
    BY <2>1 DEF NeededIn
  <2> HIDE DEF passing, needing
  <2>3. /\ {c} \cap passing \in SUBSET Blocks /\ {e} \cap passing \in SUBSET Blocks
        /\ ({c} \cap passing) \ X = {c}
    BY <1>0, <2>1
  <2> DEFINE S == {c} \cap passing
             Q == {e} \cap passing
             R == Reach(o, S, X)
  <2>4. /\ c \in R /\ R \subseteq Blocks \ X
        /\ \A x \in R : o[x] \ X \subseteq R
    <3>1. S \in SUBSET Blocks /\ c \in S \ X
      BY <2>3
    <3> HIDE DEF S, X
    <3> QED BY <3>1, ReachClosed
  <2>5. \E d \in R : o[d] \cap needing # {}
    <3>1. CASE e \in needing
      BY <2>2, <2>4, <3>1
    <3>2. CASE e \notin needing
      <4>1. PICK d \in Reach(o, {e} \cap passing, X) : o[d] \cap needing # {}
        BY <2>2, <3>2
      <4>2. ({e} \cap passing) \ X \subseteq R
        BY <2>2, <2>4
      <4>3. \A x \in R \cap (Blocks \ X) : o[x] \ X \subseteq R
        BY <2>4
      <4>4. Q \in SUBSET Blocks /\ Q \ X \subseteq R
        BY <2>3, <4>2
      <4>5. Reach(o, Q, X) \subseteq R
        <5> HIDE DEF R, X, Q
        <5> QED BY <4>3, <4>4, ReachLeast
      <4> QED BY <4>1, <4>5
    <3> QED BY <3>1, <3>2
  <2> QED BY <2>5 DEF NeededIn, needing, passing
<1> QED BY <1>1, <1>2

\* Where the equations hold, what is needed later is in the sets.
LEMMA FixedHasNeeded ==
    ASSUME NEW o, IsGraph(o), NEW gen, NEW kill, NEW res,
           \A x \in Blocks : res[x] = Leaving(o, gen, kill, res, x),
           NEW v, NEW b \in Blocks, NeededIn(o, gen, kill, v, b)
    PROVE  v \in res[b]
<1> DEFINE needing == {x \in Blocks : v \in gen[x]}
           passing == {x \in Blocks \ needing : v \notin kill[x]}
           X == Blocks \ passing
           T == {x \in Blocks : v \notin Entering(gen, kill, res, x)}
<1>1. \A x \in Blocks : o[x] \subseteq Blocks
  BY DEF IsGraph
<1>2. \A x \in Blocks : v \notin res[x] => \A y \in o[x] : y \in T
  BY <1>1 DEF Leaving
<1>3. \A x \in T : x \notin needing /\ (x \in passing => v \notin res[x])
  BY DEF Entering
<1> SUFFICES ASSUME v \notin res[b] PROVE FALSE
  OBVIOUS
<1>4. PICK c \in o[b] :
          \/ c \in needing
          \/ \E d \in Reach(o, {c} \cap passing, X) : o[d] \cap needing # {}
  BY DEF NeededIn
<1>5. c \in T /\ c \notin needing
  BY <1>2, <1>3
<1>6. PICK d \in Reach(o, {c} \cap passing, X) : o[d] \cap needing # {}
  BY <1>4, <1>5
<1> HIDE DEF T, needing, passing
<1>7. {c} \cap passing \in SUBSET Blocks
  BY <1>1
<1>8. ({c} \cap passing) \ X \subseteq T
  BY <1>5
<1>9. \A x \in T \cap (Blocks \ X) : o[x] \ X \subseteq T
  BY <1>2, <1>3
<1> DEFINE S == {c} \cap passing
<1> HIDE DEF X, S
<1>10. Reach(o, S, X) \subseteq T /\ Reach(o, S, X) \subseteq Blocks \ X
  <2>1. S \in SUBSET Blocks /\ S \ X \subseteq T
    BY <1>7, <1>8 DEF S
  <2> QED BY <1>9, <2>1, ReachLeast, ReachClosed
<1>12. d \in T /\ d \in Blocks /\ d \in passing
  BY <1>6, <1>10 DEF X, S
<1> QED BY <1>2, <1>3, <1>6, <1>12

\* With a place for each variable nothing is left out.
LEMMA FittingAll ==
    ASSUME MaxLive >= 2, NEW V, NEW U \in SUBSET {"p", V}, NEW S \in Fitting(U)
    PROVE  S = U
<1>1. IsFiniteSet({"p", V}) /\ Cardinality({"p", V}) <= 2
  <2>1. IsFiniteSet({"p"}) /\ Cardinality({"p"}) = 1
    BY FS_Singleton
  <2>2. /\ IsFiniteSet({"p"} \cup {V})
        /\ Cardinality({"p"} \cup {V}) = 1 \/ Cardinality({"p"} \cup {V}) = 2
    BY <2>1, FS_AddElement
  <2>3. {"p", V} = {"p"} \cup {V}
    OBVIOUS
  <2> QED BY <2>2, <2>3
<1>2. IsFiniteSet(U) /\ Cardinality(U) \in Nat /\ Cardinality(U) <= 2
  <2>1. IsFiniteSet(U) /\ Cardinality(U) <= Cardinality({"p", V})
    BY <1>1, FS_Subset
  <2>2. Cardinality(U) \in Nat /\ Cardinality({"p", V}) \in Nat
    BY <1>1, <2>1, FS_CardinalityType
  <2> QED BY <1>1, <2>1, <2>2
<1> DEFINE c == Cardinality(U)
<1>3. Min({MaxLive, c}) = c
  <2> HIDE DEF c
  <2>1. c \in {MaxLive, c} /\ (\A y \in {MaxLive, c} : c <= y)
        /\ MaxLive \in Nat /\ c \in Nat
    BY <1>2, MaxLiveAssumption DEF c
  <2> QED BY <2>1 DEF Min
<1>4. S \in SUBSET U /\ Cardinality(S) = Cardinality(U)
  BY <1>3 DEF Fitting
<1> QED BY <1>2, <1>4, FS_Subset

ExactInv ==
    phase \in {"live", "done"} =>
      /\ \A b \in Blocks : \A v \in live_out[b] :
           NeededIn(out, live_gen, live_kill, v, b)
      /\ \A n \in 1..N : (phase = "live" /\ ~changed /\ n < bb) \/ phase = "done" =>
           live_out[rpo_r[n]] = Leaving(out, live_gen, live_kill, live_out, rpo_r[n])

LEMMA ExactStep ==
    ASSUME MaxLive >= 2
    PROVE  LiveInv /\ ExactInv /\ [LiveNext]_vars => ExactInv'
<1> SUFFICES ASSUME LiveInv, ExactInv, [LiveNext]_vars PROVE ExactInv'
  OBVIOUS
<1>1. CASE (InitMark \/ NothingToMark \/ Pop \/ Sweep) /\ UNCHANGED live
  <2>1. phase' \in {"mark", "sweep"}
    BY <1>1 DEF InitMark, NothingToMark, Pop, Sweep
  <2> QED BY <2>1 DEF ExactInv
<1>2. CASE SolveLocals
  <2>1. phase = "sweep" /\ phase' = "live" /\ bb' = 1 /\ live_out' = live_out
    BY <1>2 DEF SolveLocals, Swept
  <2>2. live_out' = Nothing
    BY <2>1 DEF LiveInv
  <2>3. \A n \in 1..N : ~(n < 1)
    OBVIOUS
  <2> QED BY <2>1, <2>2, <2>3 DEF ExactInv, Nothing
<1>3. CASE Recompute
  <2> DEFINE b == rpo_r[bb]
             U == UNION {LiveIn(c) : c \in out[b]}
  <2>1. /\ phase = "live" /\ phase' = "live" /\ bb <= N /\ bb' = bb + 1
        /\ out' = out /\ live_gen' = live_gen /\ live_kill' = live_kill /\ rpo_r' = rpo_r
    BY <1>3 DEF Recompute, analysis
  <2>2. PICK S \in Fitting(U) : /\ live_out' = [live_out EXCEPT ![b] = S]
                                /\ changed' = (changed \/ S # live_out[b])
    BY <1>3 DEF Recompute
  <2>3. U = Leaving(out, live_gen, live_kill, live_out, b)
    BY DEF Leaving, Entering, LiveIn
  <2>4. /\ bb \in Nat \ {0} /\ out \in [Blocks -> SUBSET Blocks] /\ IsGraph(out)
        /\ GraphInv
    BY <2>1 DEF LiveInv, Inv, IsGraph
  <2>5. b \in Blocks
    <3>1. bb \in 1..N /\ Len(rpo_r) = N /\ rpo_r \in Seq(Blocks)
      BY <2>1, <2>4, BlocksFinite DEF GraphInv, IsOrder
    <3> QED BY <3>1
  <2>6. PICK V \in {"x", "y"} : /\ live_gen \in [Blocks -> SUBSET {"p", V}]
                                /\ live_out \in [Blocks -> SUBSET {"p", V}]
    BY <2>1 DEF LiveInv
  <2>7. out[b] \in SUBSET Blocks
    BY <2>4, <2>5
  <2>8. U \in SUBSET {"p", V}
    BY <2>6, <2>7, LiveInSub
  <2>9. S = U
    BY <2>8, FittingAll
  <2>10. \A c \in Blocks : \A v \in live_out[c] : NeededIn(out, live_gen, live_kill, v, c)
    BY <2>1 DEF ExactInv
  <2>11. ASSUME NEW v \in U PROVE NeededIn(out, live_gen, live_kill, v, b)
    <3>1. PICK c \in out[b] : v \in LiveIn(c)
      OBVIOUS
    <3>2. v \in live_gen[c]
          \/ (v \notin live_kill[c] /\ NeededIn(out, live_gen, live_kill, v, c))
      BY <2>7, <2>10, <3>1 DEF LiveIn
    <3> HIDE DEF b
    <3> QED BY <2>4, <2>5, <3>2, NeededBefore
  <2> HIDE DEF b, U
  <2>12. ASSUME NEW c \in Blocks, NEW v \in live_out'[c]
         PROVE  NeededIn(out, live_gen, live_kill, v, c)
    <3>1. CASE c = b
      <4>1. live_out'[c] = U
        BY <2>2, <2>5, <2>6, <2>9, <3>1
      <4> QED BY <2>11, <3>1, <4>1
    <3>2. CASE c # b
      <4>1. live_out'[c] = live_out[c]
        BY <2>2, <2>6, <3>2
      <4> QED BY <2>10, <4>1
    <3> QED BY <3>1, <3>2
  <2>13. ASSUME ~changed', NEW n \in 1..N, n < bb'
         PROVE  live_out'[rpo_r[n]]
                  = Leaving(out, live_gen, live_kill, live_out', rpo_r[n])
    <3>1. ~changed /\ S = live_out[b]
      BY <2>2, <2>13
    <3>2. live_out' = live_out
      BY <2>2, <2>5, <2>6, <3>1
    <3>3. CASE n < bb
      <4>1. live_out[rpo_r[n]] = Leaving(out, live_gen, live_kill, live_out, rpo_r[n])
        BY <2>1, <3>1, <3>3 DEF ExactInv
      <4> QED BY <3>2, <4>1
    <3>4. CASE ~(n < bb)
      <4>1. n = bb
        BY <2>1, <2>4, <2>13, <3>4
      <4>2. live_out[b] = Leaving(out, live_gen, live_kill, live_out, b)
        BY <2>3, <2>9, <3>1
      <4> QED BY <3>2, <4>1, <4>2 DEF b
    <3> QED BY <3>3, <3>4
  <2> QED BY <2>1, <2>12, <2>13 DEF ExactInv
<1>4. CASE PassEnds
  <2>1. /\ phase = "live" /\ bb > N /\ out' = out /\ rpo_r' = rpo_r
        /\ live_gen' = live_gen /\ live_kill' = live_kill /\ live_out' = live_out
        /\ \/ phase' = "live" /\ bb' = 1
           \/ phase' = "done" /\ ~changed
    BY <1>4 DEF PassEnds, analysis
  <2>2. \A n \in 1..N : ~(n < 1) /\ n < bb
    BY <2>1, BlocksFinite DEF LiveInv, Inv
  <2> QED BY <2>1, <2>2 DEF ExactInv
<1>5. CASE UNCHANGED vars
  BY <1>5 DEF ExactInv, vars, dce, analysis
<1> QED BY <1>1, <1>2, <1>3, <1>4, <1>5 DEF LiveNext, Stop

\* liveness_analysis() ends with exactly the variables whose values are used
\* later on some path, over whatever order the blocks were taken in and
\* however the graph was changed before.
THEOREM Exact ==
    ASSUME MaxLive >= 2
    PROVE  Spec => []LiveExact
<1>1. LiveInit => ExactInv
  BY DEF LiveInit, Init, ExactInv
<1>2. LiveInv /\ ExactInv => LiveExact
  <2> SUFFICES ASSUME LiveInv, ExactInv, phase = "done", NEW b \in Blocks
               PROVE  live_out[b] = {v \in Names : NeededLater(v, b)}
    BY DEF LiveExact
  <2>1. \A v, c : NeededLater(v, c) <=> NeededIn(out, live_gen, live_kill, v, c)
    BY DEF NeededLater, NeededIn
  <2>2. \A v \in live_out[b] : v \in Names /\ NeededIn(out, live_gen, live_kill, v, b)
    BY DEF LiveInv, ExactInv, Names
  <2>3. /\ GraphInv /\ IsGraph(out)
    BY DEF LiveInv, Inv, IsGraph
  <2>4. ASSUME NEW x \in Blocks
        PROVE  live_out[x] = Leaving(out, live_gen, live_kill, live_out, x)
    <3>1. PICK n \in 1..N : rpo_r[n] = x
      BY <2>3 DEF GraphInv, IsOrder, Elems
    <3> QED BY <3>1 DEF ExactInv
  <2>5. ASSUME NEW v, NeededIn(out, live_gen, live_kill, v, b) PROVE v \in live_out[b]
    BY <2>3, <2>4, <2>5, FixedHasNeeded
  <2> QED BY <2>1, <2>2, <2>5
<1>3. LiveInv /\ ExactInv /\ [LiveNext]_vars => ExactInv'
  BY ExactStep
<1> QED BY <1>1, <1>2, <1>3, LiveStart, LiveStep, PTL DEF Spec

-----------------------------------------------------------------------------
(* The order of the useful blocks: what a run comes to.                    *)

Dead == Blocks \ (live_blocks \cup {exit})

\* Reach looks at the edges of blocks only.
LEMMA ReachOn ==
    ASSUME NEW f, NEW h, IsGraph(h), \A b \in Blocks : f[b] = h[b],
           NEW S \in SUBSET Blocks, NEW X
    PROVE  Reach(f, S, X) = Reach(h, S, X)
<1> DEFINE Def(R) == [k \in Nat |-> IF k = 0 THEN S \ X
                                   ELSE R[k - 1] \cup ((UNION {f[b] : b \in R[k - 1]}) \ X)]
           C == CHOOSE R : R = Def(R)
<1>1. PICK G : IsChain(G, h, S, X)
  BY ReachChain
<1>2. /\ G \in [Nat -> SUBSET Blocks]
      /\ G[0] = S \ X
      /\ \A k \in Nat : G[k + 1] = Onward(h, X, G[k])
      /\ Reach(h, S, X) = G[N]
  BY <1>1 DEF IsChain
<1>3. \A k \in Nat : G[k + 1] = G[k] \cup ((UNION {f[b] : b \in G[k]}) \ X)
  <2> TAKE k \in Nat
  <2>1. G[k] \in SUBSET Blocks
    BY <1>2
  <2>2. UNION {f[b] : b \in G[k]} = UNION {h[b] : b \in G[k]}
    BY <2>1
  <2> QED BY <1>2, <2>2 DEF Onward
<1>4. G = Def(G)
  <2>1. ASSUME NEW k \in Nat PROVE G[k] = Def(G)[k]
    <3>1. CASE k = 0
      BY <1>2, <3>1
    <3>2. CASE k # 0
      <4>1. k - 1 \in Nat /\ (k - 1) + 1 = k
        BY <3>2
      <4> QED BY <1>3, <3>2, <4>1
    <3> QED BY <3>1, <3>2
  <2> HIDE DEF Def
  <2>2. G = [k \in Nat |-> G[k]] /\ Def(G) = [k \in Nat |-> Def(G)[k]]
    BY <1>2 DEF Def
  <2> QED BY <2>1, <2>2
<1>5. C = Def(C)
  <2> HIDE DEF Def
  <2> QED BY <1>4
<1>6. Reach(f, S, X) = C[N]
  BY DEF Reach
<1> HIDE DEF C
<1> DEFINE U == {k \in Nat : C[k] = G[k]}
<1>7. 0 \in U
  <2>1. C[0] = Def(C)[0]
    BY <1>5
  <2> QED BY <1>2, <2>1
<1>8. ASSUME NEW k \in Nat, k \in U PROVE k + 1 \in U
  <2>1. C[k + 1] = Def(C)[k + 1]
    BY <1>5
  <2>2. k + 1 \in Nat /\ k + 1 # 0 /\ (k + 1) - 1 = k
    OBVIOUS
  <2> QED BY <1>3, <1>8, <2>1, <2>2
<1> HIDE DEF U
<1>9. Nat \subseteq U
  BY <1>7, <1>8, SetInduction
<1> QED BY <1>2, <1>6, <1>9, BlocksFinite DEF U

\* What a run comes to after b: what b leads to, and what the dead blocks do
\* that it leads to.
LEMMA MeetsStep ==
    ASSUME NEW g, IsGraph(g), NEW b \in Blocks
    PROVE  /\ g[b] \ Dead \subseteq Meets(g, b)
           /\ \A d \in g[b] \cap Dead : Meets(g, d) \subseteq Meets(g, b)
<1> DEFINE X == Blocks \ Dead
           R(a) == Reach(g, g[a] \cap Dead, X)
<1>0. \A a \in Blocks : g[a] \in SUBSET Blocks
  BY DEF IsGraph
<1>1. \A a \in Blocks : Meets(g, a) = (g[a] \cup UNION {g[d] : d \in R(a)}) \ Dead
  BY DEF Meets, Dead
<1>2. ASSUME NEW a \in Blocks
      PROVE  /\ (g[a] \cap Dead) \ X \subseteq R(a)
             /\ R(a) \subseteq Blocks \ X
             /\ \A d \in R(a) : g[d] \ X \subseteq R(a)
  <2> DEFINE S == g[a] \cap Dead
  <2>1. S \in SUBSET Blocks
    BY <1>0
  <2> HIDE DEF S, X
  <2>2. /\ S \ X \subseteq Reach(g, S, X)
        /\ Reach(g, S, X) \subseteq Blocks \ X
        /\ \A d \in Reach(g, S, X) : g[d] \ X \subseteq Reach(g, S, X)
    BY <2>1, ReachClosed
  <2> QED BY <2>2 DEF S
<1>3. ASSUME NEW d \in g[b] \cap Dead PROVE Meets(g, d) \subseteq Meets(g, b)
  <2>1. d \in Blocks /\ g[d] \cap Dead \in SUBSET Blocks
    BY <1>0
  <2>2. d \in R(b)
    <3>1. d \notin X
      OBVIOUS
    <3> HIDE DEF R, X
    <3> QED BY <1>2, <3>1
  <2>3. R(d) \subseteq R(b)
    <3>1. (g[d] \cap Dead) \ X \subseteq R(b)
      <4> HIDE DEF R, X
      <4> QED BY <1>2, <2>2
    <3>2. \A c \in R(b) \cap (Blocks \ X) : g[c] \ X \subseteq R(b)
      <4> HIDE DEF R, X
      <4> QED BY <1>2
    <3> DEFINE T == R(b)
    <3>3. (g[d] \cap Dead) \ X \subseteq T /\ \A c \in T \cap (Blocks \ X) : g[c] \ X \subseteq T
      BY <3>1, <3>2
    <3> HIDE DEF T, X
    <3>4. Reach(g, g[d] \cap Dead, X) \subseteq T
      BY <2>1, <3>3, ReachLeast
    <3> QED BY <3>4 DEF T
  <2> HIDE DEF R, X
  <2> QED BY <1>1, <2>1, <2>2, <2>3
<1> HIDE DEF R, X
<1> QED BY <1>1, <1>3

\* The dead blocks on the way, in a set that is closed under their edges.
LEMMA MeetsWithin ==
    ASSUME NEW g, IsGraph(g), NEW b \in Blocks, NEW T,
           g[b] \cap Dead \subseteq T,
           \A d \in T \cap Dead : g[d] \cap Dead \subseteq T,
           NEW u \in Meets(g, b)
    PROVE  /\ u \in Blocks \ Dead
           /\ u \in g[b] \/ \E d \in T \cap Dead : u \in g[d]
<1> DEFINE X == Blocks \ Dead
           S == g[b] \cap Dead
<1>0. \A a \in Blocks : g[a] \in SUBSET Blocks
  BY DEF IsGraph
<1>1. Meets(g, b) = (g[b] \cup UNION {g[d] : d \in Reach(g, S, X)}) \ Dead
  BY DEF Meets, Dead
<1>2. S \in SUBSET Blocks /\ Dead \subseteq Blocks
  BY <1>0 DEF Dead
<1>3. S \ X \subseteq T /\ \A d \in T \cap (Blocks \ X) : g[d] \ X \subseteq T
  BY <1>0, <1>2
<1> HIDE DEF S
<1>4. Reach(g, S, X) \subseteq T /\ Reach(g, S, X) \subseteq Blocks \ X
  <2> HIDE DEF X
  <2> QED BY <1>2, <1>3, ReachLeast, ReachClosed
<1> QED BY <1>0, <1>1, <1>2, <1>4

-----------------------------------------------------------------------------
(* Branches that lead to nothing useful.                                   *)

\* What dominates in the graph turned round.
LEMMA PostFacts ==
    ASSUME GraphInv
    PROVE  /\ \A z, y \in Blocks : \A x \in graph[y] :
                PostDom(z, y) /\ y # z => PostDom(z, x)
           /\ \A z \in Blocks : PostDom(z, z)
           /\ \A z \in Blocks : PostDom(z, exit) => z = exit
           /\ \A z, y \in Blocks : PostDom(z, y) /\ PostDom(y, z) => y = z
           /\ \A z, y, x \in Blocks : PostDom(z, y) /\ PostDom(y, x) => PostDom(z, x)
           /\ \A u, p, x \in Blocks :
                p # exit /\ graph[p] = {x} /\ PostDom(u, x) => PostDom(u, p)
<1> DEFINE R == Transpose(graph)
<1>1. /\ IsGraph(graph) /\ IsGraph(R) /\ exit \in Blocks /\ Connected(R, exit)
      /\ \A x \in Blocks : \A y \in R[x] : y \in Blocks /\ x \in graph[y]
      /\ \A y \in Blocks : \A x \in graph[y] : x \in Blocks /\ y \in R[x]
  BY DEF GraphInv, Connected, IsGraph, Transpose
<1> HIDE DEF R
<1>2. /\ \A a \in Blocks : a # exit => ~PostDom(a, exit)
      /\ \A a, x \in Blocks : \A y \in R[x] :
            ~PostDom(a, x) /\ y # a => ~PostDom(a, y)
      /\ \A a \in Blocks : PostDom(a, a)
  BY <1>1, Undominated DEF PostDom, R
<1>3. \A z, y \in Blocks : \A x \in graph[y] :
        PostDom(z, y) /\ y # z => PostDom(z, x)
  BY <1>1, <1>2
<1>4. \A z, y \in Blocks : PostDom(z, y) /\ PostDom(y, z) => y = z
  BY <1>1, DominatesAntisym DEF PostDom, R
<1>5. \A z, y, x \in Blocks : PostDom(z, y) /\ PostDom(y, x) => PostDom(z, x)
  BY <1>1, DominatesTrans DEF PostDom, R
<1>6. ASSUME NEW u \in Blocks, NEW p \in Blocks, NEW x \in Blocks,
             p # exit, graph[p] = {x}, PostDom(u, x)
      PROVE  PostDom(u, p)
  <2> DEFINE T == {y \in Blocks : ~PostDom(u, y)} \ {p}
  <2>1. exit # u => exit \in T
    BY <1>1, <1>2, <1>6
  <2>2. \A y \in T \cap Blocks : \A q \in R[y] : y # u /\ q # u => q \in T
    BY <1>1, <1>2, <1>6
  <2>3. p \notin T
    OBVIOUS
  <2> HIDE DEF T
  <2>4. Dominates(R, exit, u, p)
    BY <1>1, <2>1, <2>2, <2>3, DominatesOutside
  <2> QED BY <2>4 DEF PostDom, R
<1> QED BY <1>2, <1>3, <1>4, <1>5, <1>6

\* A branch none of whose targets decides whether something useful runs.
Unsteering(b) == \A u \in live_blocks : b \notin rdf[u]
IsRdf == rdf = [b \in Blocks |-> Frontier(Transpose(graph), exit, b)]

\* Where neither way decides, both come to what is useful.
LEMMA Steered ==
    ASSUME GraphInv, IsRdf, NEW p \in Blocks, Unsteering(p),
           NEW u \in Blocks, u \in live_blocks, NEW x \in graph[p], PostDom(u, x)
    PROVE  PostDom(u, p) /\ p # u
<1>1. x \in Blocks
  BY DEF GraphInv, Connected, IsGraph
<1>2. Transpose(Transpose(graph))[p] = graph[p]
  BY DEF GraphInv, Connected, IsGraph, Transpose
<1>3. p \notin Frontier(Transpose(graph), exit, u)
  BY DEF Unsteering, IsRdf
<1>4. u \in StrictDoms(Transpose(graph), exit, p)
  BY <1>2, <1>3 DEF Frontier, PostDom
<1> QED BY <1>4 DEF StrictDoms, PostDom

\* Dead blocks that do not branch decide nothing.
LEMMA StraightUnsteering ==
    ASSUME GraphInv, IsRdf, NEW p \in Blocks \ {exit}, NEW x, graph[p] = {x},
           p \notin live_blocks, live_blocks \subseteq Blocks
    PROVE  Unsteering(p)
<1> SUFFICES ASSUME NEW u \in live_blocks, p \in rdf[u] PROVE FALSE
  BY DEF Unsteering
<1>1. x \in Blocks /\ u \in Blocks
  BY DEF GraphInv, Connected, IsGraph
<1>2. Transpose(Transpose(graph))[p] = graph[p]
  BY DEF GraphInv, Connected, IsGraph, Transpose
<1>3. /\ \E y \in graph[p] : PostDom(u, y)
      /\ u \notin StrictDoms(Transpose(graph), exit, p)
  BY <1>1, <1>2 DEF IsRdf, Frontier, PostDom
<1>4. PostDom(u, p)
  BY <1>1, <1>3, PostFacts
<1> QED BY <1>1, <1>3, <1>4 DEF StrictDoms, PostDom

\* The climb ends at a useful block, or at the exit, that every path from b
\* comes to before the useful blocks that every path comes to.
LEMMA ClimbEnds ==
    ASSUME GraphInv, NEW b \in Blocks \ {exit}
    PROVE  \E z \in Blocks :
             /\ Targets(b) = {z} \ {exit}
             /\ z \in live_blocks \cup {exit} /\ z # b /\ PostDom(z, b)
             /\ \A a \in Blocks : a \in live_blocks \cup {exit} /\ a # b /\ PostDom(a, b)
                                    => PostDom(a, z)
<1>1. PICK J : IsClimb(J, b)
  BY Climb
<1>2. /\ J \in [Nat -> Blocks] /\ J[0] = r_idom[b]
      /\ \A k \in Nat : J[k + 1] = IF J[k] \in live_blocks \cup {exit} THEN J[k]
                                   ELSE r_idom[J[k]]
      /\ Targets(b) = {J[N]} \ {exit}
  BY <1>1 DEF IsClimb
<1>3. \A c \in Blocks \ {exit} :
        /\ r_idom[c] \in Blocks /\ PostDom(r_idom[c], c) /\ r_idom[c] # c
        /\ \A a \in Blocks : a # c /\ PostDom(a, c) => PostDom(a, r_idom[c])
  BY DEF GraphInv, IsIdom, StrictDoms, PostDom
<1>4. N \in Nat /\ exit \in Blocks
  BY BlocksFinite
<1>5. \A k \in Nat : J[k] \in Blocks /\ PostDom(J[k], J[0]) /\ PostDom(J[k + 1], J[k])
  <2>1. \A k \in Nat : PostDom(J[k + 1], J[k])
    <3> TAKE k \in Nat
    <3>1. CASE J[k] \in live_blocks \cup {exit}
      BY <1>2, <3>1, PostFacts
    <3>2. CASE J[k] \notin live_blocks \cup {exit}
      BY <1>2, <1>3, <3>2
    <3> QED BY <3>1, <3>2
  <2> DEFINE T == {k \in Nat : PostDom(J[k], J[0])}
  <2>2. 0 \in T
    BY <1>2, PostFacts
  <2>3. ASSUME NEW k \in Nat, k \in T PROVE k + 1 \in T
    <3>1. J[k] \in Blocks /\ J[k + 1] \in Blocks /\ J[0] \in Blocks
      BY <1>2
    <3> QED BY <2>1, <2>3, <3>1, PostFacts
  <2> HIDE DEF T
  <2>4. Nat \subseteq T
    BY <2>2, <2>3, SetInduction
  <2> QED BY <1>2, <2>1, <2>4 DEF T
<1>6. \A k \in Nat : PostDom(J[k], b) /\ J[k] # b
  <2> TAKE k \in Nat
  <2>1. J[0] \in Blocks /\ PostDom(J[0], b) /\ J[0] # b /\ J[k] \in Blocks
    BY <1>2, <1>3
  <2>2. PostDom(J[k], b)
    BY <1>5, <2>1, PostFacts
  <2>3. J[k] # b
    BY <1>5, <2>1, PostFacts
  <2> QED BY <2>2, <2>3
<1>7. ASSUME NEW a \in Blocks, a \in live_blocks \cup {exit}, a # b, PostDom(a, b)
      PROVE  \A k \in Nat : PostDom(a, J[k])
  <2> DEFINE T == {k \in Nat : PostDom(a, J[k])}
  <2>1. 0 \in T
    BY <1>2, <1>3, <1>7
  <2>2. ASSUME NEW k \in Nat, k \in T PROVE k + 1 \in T
    <3>1. CASE J[k] \in live_blocks \cup {exit}
      BY <1>2, <2>2, <3>1
    <3>2. CASE J[k] \notin live_blocks \cup {exit}
      <4>1. /\ J[k + 1] = r_idom[J[k]] /\ J[k] \in Blocks \ {exit}
            /\ a # J[k]
        BY <1>2, <1>7, <3>2
      <4> QED BY <1>3, <2>2, <4>1
    <3> QED BY <3>1, <3>2
  <2> HIDE DEF T
  <2>3. Nat \subseteq T
    BY <2>1, <2>2, SetInduction
  <2> QED BY <2>3 DEF T
\* While it climbs, fewer blocks are above.
<1>8. J[N] \in live_blocks \cup {exit}
  <2> DEFINE R == [k \in Nat |-> {c \in Blocks : ~PostDom(c, J[k])}]
  <2>1. R \in [Nat -> SUBSET Blocks]
    OBVIOUS
  <2>2. \A k \in Nat : R[k] \subseteq R[k + 1]
    <3> TAKE k \in Nat
    <3>1. J[k] \in Blocks /\ J[k + 1] \in Blocks
      BY <1>2
    <3>2. \A c \in Blocks : PostDom(c, J[k + 1]) => PostDom(c, J[k])
      BY <1>5, <3>1, PostFacts
    <3> QED BY <3>2
  <2>3. \A k \in Nat : R[k + 1] = R[k] => J[k + 1] = J[k]
    <3> SUFFICES ASSUME NEW k \in Nat, R[k + 1] = R[k] PROVE J[k + 1] = J[k]
      OBVIOUS
    <3>1. J[k] \in Blocks /\ J[k + 1] \in Blocks /\ PostDom(J[k], J[k])
      BY <1>2, PostFacts
    <3>2. k + 1 \in Nat /\ R[k + 1] = {c \in Blocks : ~PostDom(c, J[k + 1])}
          /\ R[k] = {c \in Blocks : ~PostDom(c, J[k])}
      OBVIOUS
    <3>3. PostDom(J[k], J[k + 1])
      BY <3>1, <3>2
    <3> QED BY <1>5, <3>1, <3>3, PostFacts
  <2>4. \A k \in Nat : J[k + 1] = J[k] => J[k] \in live_blocks \cup {exit}
    BY <1>2, <1>3
  <2>5. \A k \in Nat : R[k + 1] = R[k] => R[k + 2] = R[k + 1]
    <3> SUFFICES ASSUME NEW k \in Nat, R[k + 1] = R[k] PROVE R[k + 2] = R[k + 1]
      OBVIOUS
    <3>1. (k + 1) + 1 = k + 2 /\ k + 1 \in Nat /\ k + 2 \in Nat
      OBVIOUS
    <3>2. J[k + 1] = J[k] /\ J[k] \in live_blocks \cup {exit}
      BY <2>3, <2>4
    <3>3. J[k + 2] = J[k + 1]
      BY <1>2, <3>1, <3>2
    <3> QED BY <3>1, <3>3
  <2> HIDE DEF R
  <2>6. R[N + 1] = R[N]
    BY <2>1, <2>2, <2>5, Exhausted
  <2> QED BY <1>4, <2>3, <2>4, <2>6
<1>9. J[N] \in Blocks
  BY <1>2, <1>4
<1> QED BY <1>2, <1>4, <1>6, <1>7, <1>8, <1>9

\* No block that does not branch leaves the way open, and only blocks of
\* their own lead to the exit.
GraphShape ==
    /\ \A b \in Blocks \ {exit} :
         /\ graph[b] # {}
         /\ b \in Branching(graph) \/ \E x \in Blocks : graph[b] = {x}
    /\ \A b \in Branching(graph) : b \in Blocks \ {exit} /\ exit \notin graph[b]
    /\ \A b \in Blocks : exit \in graph[b] => graph[b] = {exit}
LEMMA ShapeOf == ASSUME graph \in Graphs PROVE GraphShape
<1>1. PICK f \in [Blocks \ {exit} -> Inner] :
          graph = [b \in Blocks |-> IF b = exit THEN {} ELSE f[b]]
  BY DEF Graphs
<1>2. exit \in Blocks /\ Cardinality({}) = 0 /\ Cardinality({exit}) = 1 /\ graph[exit] = {}
  BY <1>1, BlocksFinite, FS_EmptySet, FS_Singleton
<1>3. \A S \in Inner : /\ S \in SUBSET Blocks /\ Cardinality(S) \in {1, 2} /\ S # {}
                       /\ exit \in S => S = {exit}
  BY <1>2 DEF Inner, Shapes
<1>4. ASSUME NEW b \in Blocks \ {exit}, b \notin Branching(graph)
      PROVE  \E x \in Blocks : graph[b] = {x}
  <2>1. graph[b] \in SUBSET Blocks /\ Cardinality(graph[b]) = 1
    BY <1>1, <1>3, <1>4 DEF Branching
  <2>2. IsFiniteSet(graph[b])
    BY <2>1, BlocksFinite, FS_Subset
  <2>3. \E x : graph[b] = {x}
    BY <2>1, <2>2, FS_Singleton
  <2> QED BY <2>1, <2>3
<1>5. ASSUME NEW b \in Branching(graph) PROVE b \in Blocks \ {exit} /\ exit \notin graph[b]
  <2>1. b \in Blocks /\ Cardinality(graph[b]) = 2
    BY DEF Branching
  <2>2. b # exit
    BY <1>2, <2>1
  <2>3. exit \in graph[b] => graph[b] = {exit}
    BY <1>1, <1>3, <2>1, <2>2
  <2> QED BY <1>2, <2>1, <2>2, <2>3
<1>6. \A b \in Blocks \ {exit} : graph[b] # {} /\ (exit \in graph[b] => graph[b] = {exit})
  BY <1>1, <1>3
<1> QED BY <1>2, <1>4, <1>5, <1>6 DEF GraphShape

\* How the sweep leaves a block.
Straight(b) == out[b] = graph[b] /\ (b \in Branching(graph) => b \in live_blocks)
Redirected(b) ==
    /\ b \in Branching(graph) /\ Unsteering(b)
    /\ \E z \in Blocks :
         /\ out[b] = {z} \ {exit}
         /\ z \in live_blocks \cup {exit} /\ z # b /\ PostDom(z, b)
         /\ \A a \in Blocks : a \in live_blocks \cup {exit} /\ a # b /\ PostDom(a, b)
                                => PostDom(a, z)

\* The functions that are eliminated right: a branch falls through to one of
\* its targets, or the paths end in blocks that return.
Descending ==
    /\ Acyclic(graph)
    /\ \A n \in 1..N : rpo[n] \in Branching(graph) =>
                         n < N /\ rpo[n + 1] \in graph[rpo[n]]
Ended == \A b \in Blocks : graph[b] = {exit} => b \in live_blocks

\* What the sweep has established.
Tidy ==
    /\ GraphInv /\ IsRdf /\ GraphShape /\ live_blocks \subseteq Blocks
    /\ \A b \in Blocks \ {exit} : Straight(b) \/ Redirected(b)
    /\ Descending \/ Ended

\* Something is met on every path.
LEMMA MeetsSome ==
    ASSUME GraphInv, NEW b \in Blocks \ {exit}
    PROVE  Meets(graph, b) # {}
<1> DEFINE T == {y \in Blocks : Meets(graph, y) # {}} \cup {exit}
           R == Transpose(graph)
<1>1. IsGraph(graph) /\ Connected(R, exit)
  BY DEF GraphInv, Connected
<1>2. \A x \in Blocks : \A y \in R[x] : y \in Blocks /\ x \in graph[y]
  BY DEF Transpose
<1>3. ASSUME NEW x \in T \cap Blocks, NEW y \in R[x] PROVE y \in T
  <2>1. y \in Blocks /\ x \in graph[y]
    BY <1>2
  <2>2. CASE x \in Dead
    <3>1. Meets(graph, x) # {}
      BY <2>2 DEF Dead
    <3>2. Meets(graph, x) \subseteq Meets(graph, y)
      BY <1>1, <2>1, <2>2, MeetsStep
    <3> QED BY <2>1, <3>1, <3>2
  <2>3. CASE x \notin Dead
    <3>1. x \in Meets(graph, y)
      BY <1>1, <2>1, <2>3, MeetsStep
    <3> QED BY <2>1, <3>1
  <2> QED BY <2>2, <2>3
<1>4. exit \in T
  OBVIOUS
<1> HIDE DEF R
<1>5. b \in T
  <2> HIDE DEF T
  <2>1. Blocks \subseteq T
    BY <1>1, <1>3, <1>4, ClosedIsAll
  <2> QED BY <2>1
<1> QED BY <1>5

\* All that is met behind a redirected branch is where it is led to.
LEMMA OnlyMeets ==
    ASSUME Tidy, NEW b \in Blocks \ {exit}, Redirected(b)
    PROVE  \E z \in live_blocks \cup {exit} :
             out[b] = {z} \ {exit} /\ Meets(graph, b) = {z}
<1>0. GraphInv /\ IsRdf /\ GraphShape /\ live_blocks \subseteq Blocks /\ IsGraph(graph)
      /\ exit \in Blocks
  BY BlocksFinite DEF Tidy, GraphInv, Connected
<1>1. PICK z \in Blocks :
        /\ out[b] = {z} \ {exit}
        /\ z \in live_blocks \cup {exit} /\ z # b /\ PostDom(z, b)
        /\ \A a \in Blocks : a \in live_blocks \cup {exit} /\ a # b /\ PostDom(a, b)
                               => PostDom(a, z)
  BY DEF Redirected
<1>2. \A p \in Dead : p \in Blocks \ {exit} /\ p \notin live_blocks /\ Unsteering(p)
  <2> TAKE p \in Dead
  <2>1. p \in Blocks \ {exit} /\ p \notin live_blocks
    BY DEF Dead
  <2>2. CASE Redirected(p)
    BY <2>1, <2>2 DEF Redirected
  <2>3. CASE Straight(p)
    <3>1. PICK x \in Blocks : graph[p] = {x}
      BY <1>0, <2>1, <2>3 DEF GraphShape, Straight
    <3> QED BY <1>0, <2>1, <3>1, StraightUnsteering
  <2> QED BY <2>1, <2>2, <2>3 DEF Tidy
<1>3. Unsteering(b)
  BY DEF Redirected
<1>4. ASSUME NEW u \in Meets(graph, b) PROVE u = z
  <2>1. u \in Blocks \ Dead
    <3>1. graph[b] \cap Dead \subseteq Dead /\ \A d \in Dead \cap Dead : graph[d] \cap Dead \subseteq Dead
      OBVIOUS
    <3> QED BY <1>0, <3>1, MeetsWithin
  <2>2. PostDom(z, u)
    <3> DEFINE T == {x \in Blocks : PostDom(z, x)}
    <3>1. graph[b] \subseteq T
      BY <1>0, <1>1, PostFacts DEF IsGraph
    <3>2. \A d \in T \cap Dead : graph[d] \subseteq T
      <4> TAKE d \in T \cap Dead
      <4>1. d # z /\ d \in Blocks /\ PostDom(z, d)
        BY <1>1, <1>2
      <4> QED BY <1>0, <4>1, PostFacts DEF IsGraph
    <3> HIDE DEF T
    <3>3. u \in graph[b] \/ \E d \in T \cap Dead : u \in graph[d]
      BY <1>0, <3>1, <3>2, MeetsWithin
    <3>4. u \in T
      BY <3>1, <3>2, <3>3
    <3> QED BY <3>4 DEF T
  <2>3. CASE u = exit
    BY <1>0, <2>2, <2>3, PostFacts
  <2>4. CASE u # exit
    <3>0. u \in live_blocks /\ u \in Blocks /\ PostDom(u, u)
      BY <1>0, <2>1, <2>4, PostFacts DEF Dead
    <3>1. PostDom(u, b) /\ u # b
      <4> SUFFICES ASSUME ~(PostDom(u, b) /\ u # b) PROVE FALSE
        OBVIOUS
      <4> DEFINE T == {x \in Blocks : ~PostDom(u, x)}
      <4>1. graph[b] \subseteq T
        <5> SUFFICES ASSUME NEW x \in graph[b], PostDom(u, x) PROVE FALSE
          BY <1>0 DEF IsGraph
        <5> QED BY <1>0, <1>3, <3>0, Steered
      <4>2. \A d \in T \cap Dead : graph[d] \subseteq T
        <5> SUFFICES ASSUME NEW d \in T \cap Dead, NEW x \in graph[d], PostDom(u, x)
                     PROVE  FALSE
          BY <1>0 DEF IsGraph
        <5> QED BY <1>0, <1>2, <3>0, Steered
      <4> HIDE DEF T
      <4>3. u \in graph[b] \/ \E d \in T \cap Dead : u \in graph[d]
        BY <1>0, <4>1, <4>2, MeetsWithin
      <4>4. u \in T
        BY <4>1, <4>2, <4>3
      <4> QED BY <3>0, <4>4 DEF T
    <3>2. PostDom(u, z)
      BY <1>1, <3>0, <3>1
    <3> QED BY <1>0, <1>1, <2>2, <3>0, <3>2, PostFacts
  <2> QED BY <2>3, <2>4
<1>5. Meets(graph, b) = {z}
  BY <1>0, <1>4, MeetsSome
<1> QED BY <1>1, <1>5

\* Without loops no path is endless.
LEMMA NoEndlessPath ==
    ASSUME IsGraph(graph), Acyclic(graph), NEW S \in SUBSET Blocks,
           \A d \in S : graph[d] \cap S # {}
    PROVE  S = {}
<1> SUFFICES ASSUME S # {} PROVE FALSE
  OBVIOUS
<1> DEFINE R(d) == Reach(graph, graph[d], {})
           M == {Cardinality(R(d)) : d \in S}
<1>1. \A d \in Blocks : /\ graph[d] \in SUBSET Blocks
                        /\ graph[d] \subseteq R(d) /\ R(d) \subseteq Blocks
                        /\ \A x \in R(d) : graph[x] \subseteq R(d)
  <2> TAKE d \in Blocks
  <2>1. graph[d] \in SUBSET Blocks
    BY DEF IsGraph
  <2> DEFINE A == graph[d]
             X == {}
  <2>2. A \in SUBSET Blocks
    BY <2>1
  <2> HIDE DEF A, X
  <2>3. /\ A \ X \subseteq Reach(graph, A, X)
        /\ Reach(graph, A, X) \subseteq Blocks \ X
        /\ \A x \in Reach(graph, A, X) : graph[x] \ X \subseteq Reach(graph, A, X)
    BY <2>2, ReachClosed
  <2> QED BY <2>1, <2>3 DEF A, X
<1>2. \A d \in Blocks : d \notin R(d)
  BY DEF Acyclic
<1>3. \A d \in Blocks : \A y \in graph[d] : R(y) \subseteq R(d)
  <2> TAKE d \in Blocks
  <2> TAKE y \in graph[d]
  <2> DEFINE T == R(d)
             A == graph[y]
             X == {}
  <2>1. y \in Blocks /\ A \in SUBSET Blocks /\ A \ X \subseteq T
        /\ \A x \in T \cap (Blocks \ X) : graph[x] \ X \subseteq T
    BY <1>1
  <2> HIDE DEF T, A, X
  <2>2. Reach(graph, A, X) \subseteq T
    BY <2>1, ReachLeast
  <2> QED BY <2>2 DEF T, A, X
<1> HIDE DEF R
<1>4. \A d \in Blocks : IsFiniteSet(R(d)) /\ Cardinality(R(d)) \in Nat
  <2> TAKE d \in Blocks
  <2>1. R(d) \in SUBSET Blocks
    BY <1>1
  <2> QED BY <2>1, BlocksFinite, FS_Subset, FS_CardinalityType
<1>5. PICK n \in M : \A m \in M : n <= m
  <2>1. M \subseteq Nat /\ M # {}
    BY <1>4
  <2> QED BY <2>1, LeastNat
<1>6. PICK d \in S : n = Cardinality(R(d))
  BY <1>5
<1>7. PICK y \in S : y \in graph[d]
  OBVIOUS
<1>8. R(y) \in SUBSET R(d) /\ R(y) # R(d) /\ d \in Blocks /\ y \in Blocks
  BY <1>1, <1>2, <1>3, <1>7
<1>9. /\ Cardinality(R(y)) <= Cardinality(R(d))
      /\ Cardinality(R(d)) = Cardinality(R(y)) => R(y) = R(d)
  BY <1>4, <1>8, FS_Subset
<1>10. Cardinality(R(d)) <= Cardinality(R(y))
  BY <1>5, <1>6
<1> QED BY <1>4, <1>8, <1>9, <1>10

\* Where control is after a block, once all is swept.
Stays(b) == Flow[b] = graph[b]
Led(b) == \E z \in live_blocks : Flow[b] = {z} /\ Meets(graph, b) = {z}
Falls(b) ==
    Descending /\ Meets(graph, b) = {exit} /\ Flow[b] # {} /\ Flow[b] \subseteq graph[b]
LEMMA FlowOf ==
    ASSUME Tidy, NEW b \in Blocks \ {exit}
    PROVE  Stays(b) \/ Led(b) \/ Falls(b)
<1>0. GraphInv /\ GraphShape /\ live_blocks \subseteq Blocks /\ IsGraph(graph)
  BY DEF Tidy, GraphInv, Connected
<1>1. b \in Blocks \cup {0} /\ b # 0 /\ b # exit
  BY BlocksFinite DEF Blocks
<1>2. Flow[b] = IF out[b] = {} THEN {Behind(b)} ELSE out[b]
  BY <1>1 DEF Flow
<1>3. CASE Straight(b)
  BY <1>0, <1>2, <1>3 DEF Straight, GraphShape, Stays
<1>4. CASE Redirected(b)
  <2>1. PICK z \in live_blocks \cup {exit} :
          out[b] = {z} \ {exit} /\ Meets(graph, b) = {z}
    BY <1>4, OnlyMeets
  <2>2. b \in Branching(graph)
    BY <1>4 DEF Redirected
  <2>3. CASE z # exit
    BY <1>2, <2>1, <2>2, <2>3 DEF Led
  <2>4. CASE z = exit
    <3>1. Flow[b] = {Behind(b)}
      BY <1>2, <2>1, <2>2, <2>4
    <3>2. ~Ended
      <4> SUFFICES ASSUME Ended PROVE FALSE
        OBVIOUS
      <4>1. graph[b] \cap Dead \subseteq Dead
            /\ \A d \in Dead \cap Dead : graph[d] \cap Dead \subseteq Dead
        OBVIOUS
      <4>2. exit \in Meets(graph, b)
        BY <2>1, <2>4
      <4>3. exit \in graph[b] \/ \E d \in Dead : exit \in graph[d]
        BY <1>0, <4>1, <4>2, MeetsWithin
      <4>4. exit \notin graph[b]
        BY <1>0, <2>2 DEF GraphShape
      <4>5. PICK d \in Dead : exit \in graph[d]
        BY <4>3, <4>4
      <4> QED BY <1>0, <4>5 DEF Ended, GraphShape, Dead
    <3>3. Descending
      BY <3>2 DEF Tidy
    <3>4. Behind(b) \in graph[b]
      <4>1. \E n \in 1..N : rpo[n] = b
        BY <1>0 DEF GraphInv, IsOrder, Elems
      <4>2. Place(b) \in 1..N /\ rpo[Place(b)] = b
        BY <4>1 DEF Place
      <4>3. Place(b) < N /\ rpo[Place(b) + 1] \in graph[b]
        BY <2>2, <3>3, <4>2 DEF Descending
      <4>4. Place(b) # N
        BY <4>3, BlocksFinite
      <4> QED BY <4>3, <4>4 DEF Behind
    <3> QED BY <2>1, <2>4, <3>1, <3>3, <3>4 DEF Falls
  <2> QED BY <2>3, <2>4
<1> QED BY <1>3, <1>4 DEF Tidy

LEMMA SameMeets ==
    ASSUME Tidy, NEW b \in Blocks \ {exit}
    PROVE  Meets(Flow, b) = Meets(graph, b)
<1> DEFINE h == [c \in Blocks |-> Flow[c]]
<1>0. /\ GraphInv /\ GraphShape /\ live_blocks \subseteq Blocks /\ IsGraph(graph)
      /\ exit \in Blocks /\ \A c \in Blocks : h[c] = Flow[c]
      /\ \A c : c \in Dead <=> c \in Blocks \ {exit} /\ c \notin live_blocks
  BY BlocksFinite DEF Tidy, GraphInv, Connected, Dead
<1>1. IsGraph(h)
  <2>1. ASSUME NEW c \in Blocks PROVE Flow[c] \in SUBSET Blocks
    <3>1. CASE c = exit
      BY <1>0, <3>1 DEF Flow
    <3>2. CASE c # exit
      <4>1. graph[c] \in SUBSET Blocks
        BY <1>0 DEF IsGraph
      <4> QED BY <1>0, <3>2, <4>1, FlowOf DEF Stays, Led, Falls
    <3> QED BY <3>1, <3>2
  <2> QED BY <2>1 DEF IsGraph
<1> HIDE DEF h
<1>2. ASSUME NEW c \in Blocks PROVE Meets(Flow, c) = Meets(h, c)
  <2> DEFINE S == h[c] \cap Dead
             X == Blocks \ Dead
  <2>1. S \in SUBSET Blocks /\ Flow[c] \cap Dead = S
    BY <1>0
  <2> HIDE DEF S, X
  <2>2. Reach(Flow, S, X) = Reach(h, S, X)
    BY <1>0, <1>1, <2>1, ReachOn
  <2>3. Reach(h, S, X) \subseteq Blocks
    BY <1>1, <2>1, ReachClosed
  <2>4. UNION {Flow[d] : d \in Reach(h, S, X)} = UNION {h[d] : d \in Reach(h, S, X)}
    BY <1>0, <2>3
  <2>5. /\ Meets(Flow, c) = (Flow[c] \cup UNION {Flow[d] : d \in Reach(Flow, S, X)}) \ Dead
        /\ Meets(h, c) = (h[c] \cup UNION {h[d] : d \in Reach(h, S, X)}) \ Dead
    BY <2>1 DEF Meets, Dead, S, X
  <2> QED BY <1>0, <2>2, <2>4, <2>5
<1>3. \A c \in Blocks \ {exit} : Stays(c) \/ Led(c) \/ Falls(c)
  BY FlowOf
<1>4. \A c \in Blocks : /\ h[c] \ Dead \subseteq Meets(h, c)
                        /\ \A d \in h[c] \cap Dead : Meets(h, d) \subseteq Meets(h, c)
                        /\ graph[c] \ Dead \subseteq Meets(graph, c)
                        /\ \A d \in graph[c] \cap Dead : Meets(graph, d) \subseteq Meets(graph, c)
  BY <1>0, <1>1, MeetsStep
\* What is met was met before.
<1>5. ASSUME NEW a \in Blocks \ {exit} PROVE Meets(h, a) \subseteq Meets(graph, a)
  <2> DEFINE E == Meets(graph, a)
             T == {d \in Blocks : Meets(graph, d) \subseteq E}
  <2>1. ASSUME NEW c \in Blocks \ {exit}, c \in T
        PROVE  h[c] \cap Dead \subseteq T /\ h[c] \ Dead \subseteq E
    <3> HIDE DEF E
    <3>1. CASE h[c] \subseteq graph[c]
      BY <1>0, <1>4, <2>1, <3>1
    <3>2. CASE Led(c)
      BY <1>0, <2>1, <3>2 DEF Led
    <3> QED BY <1>0, <1>3, <3>1, <3>2 DEF Stays, Falls
  <2>2. a \in T
    OBVIOUS
  <2> HIDE DEF T, E
  <2>3. h[a] \cap Dead \subseteq T /\ \A d \in T \cap Dead : h[d] \cap Dead \subseteq T
    BY <1>0, <2>1, <2>2
  <2> SUFFICES ASSUME NEW u \in Meets(h, a) PROVE u \in E
    BY DEF E
  <2>4. u \in Blocks \ Dead /\ (u \in h[a] \/ \E d \in T \cap Dead : u \in h[d])
    <3>1. a \in Blocks /\ u \in Meets(h, a)
      OBVIOUS
    <3> QED BY ONLY <1>1, <2>3, <3>1, MeetsWithin, SMT
  <2> QED BY <1>0, <2>1, <2>2, <2>4
\* A run that falls through comes to the exit.
<1>6. ASSUME NEW a \in Blocks \ {exit}, Falls(a) PROVE exit \in Meets(h, a)
  <2> SUFFICES ASSUME Meets(h, a) = {} PROVE FALSE
    BY <1>5, <1>6 DEF Falls
  <2> DEFINE S == {d \in Blocks \ {exit} : Meets(h, d) = {}}
  <2>1. ASSUME NEW d \in S PROVE graph[d] \cap S # {}
    <3>1. ~Led(d)
      <4> SUFFICES ASSUME NEW z \in live_blocks, Flow[d] = {z} PROVE FALSE
        BY DEF Led
      <4>1. z \in h[d] \ Dead
        BY <1>0
      <4> QED BY <1>4, <4>1
    <3>2. h[d] # {} /\ h[d] \subseteq graph[d]
      BY <1>0, <1>3, <3>1 DEF Stays, Falls, GraphShape
    <3>3. PICK y : y \in h[d]
      BY <3>2
    <3>4. y \in Dead
      BY <1>4, <3>3
    <3>5. y \in S
      BY <1>0, <1>4, <3>3, <3>4
    <3> QED BY <3>2, <3>3, <3>5
  <2>2. a \in S /\ S \in SUBSET Blocks
    OBVIOUS
  <2>3. Acyclic(graph)
    BY <1>6 DEF Falls, Descending
  <2> HIDE DEF S
  <2> QED BY <1>0, <2>1, <2>2, <2>3, NoEndlessPath
\* What was met still is.
<1>7. Meets(graph, b) \subseteq Meets(h, b)
  <2> DEFINE W == {c \in Blocks \ {exit} : Meets(h, c) \subseteq Meets(h, b)}
             C == {c \in W : Meets(graph, c) \subseteq Meets(h, b)}
             T == {d \in Blocks \ {exit} :
                     d \in W \/ \E c \in C : Meets(graph, d) \subseteq Meets(graph, c)}
  <2>1. \A c \in W : Led(c) \/ Falls(c) => c \in C
    <3> TAKE c \in W
    <3>1. CASE Led(c)
      <4>1. PICK z \in live_blocks : Flow[c] = {z} /\ Meets(graph, c) = {z}
        BY <3>1 DEF Led
      <4>2. z \in h[c] \ Dead
        BY <1>0, <4>1
      <4> QED BY <1>4, <4>1, <4>2
    <3>2. CASE Falls(c)
      <4>1. exit \in Meets(h, c) /\ Meets(graph, c) = {exit}
        BY <1>6, <3>2 DEF Falls
      <4> QED BY <4>1
    <3> QED BY <3>1, <3>2
  <2>2. ASSUME NEW d \in T
        PROVE  graph[d] \cap Dead \subseteq T /\ graph[d] \ Dead \subseteq Meets(h, b)
    <3>1. CASE \E c \in C : Meets(graph, d) \subseteq Meets(graph, c)
      BY <1>0, <1>4, <3>1
    <3>2. CASE d \in W /\ d \notin C
      <4>1. Stays(d)
        BY <1>3, <2>1, <3>2
      <4>2. h[d] = graph[d]
        BY <1>0, <4>1 DEF Stays
      <4> QED BY <1>0, <1>4, <3>2, <4>2
    <3> QED BY <3>1, <3>2
  <2>3. b \in T
    OBVIOUS
  <2> HIDE DEF W, C, T
  <2>4. graph[b] \cap Dead \subseteq T /\ \A d \in T \cap Dead : graph[d] \cap Dead \subseteq T
    BY <2>2, <2>3
  <2> SUFFICES ASSUME NEW u \in Meets(graph, b) PROVE u \in Meets(h, b)
    OBVIOUS
  <2>5. u \in Blocks \ Dead /\ (u \in graph[b] \/ \E d \in T \cap Dead : u \in graph[d])
    BY <1>0, <2>4, MeetsWithin
  <2> QED BY <2>2, <2>3, <2>5
<1> QED BY <1>2, <1>5, <1>7

-----------------------------------------------------------------------------
(* The code of a target that only its branch leads to comes next.          *)

\* A target that only b leads to.
Own(g, b, w) == w \in g[b] /\ \A p \in Blocks : w \in g[p] => p = b

\* What was left last, while the top of the stack has such a target behind
\* it, is one of the top's targets; so it stays once the top is left.
Following(g, r, t) ==
    /\ \A w \in t.seen \ {r} : \E p \in t.seen : w \in g[p]
    /\ \A n \in 1..(Len(t.stack) - 1) : t.stack[n + 1] \in g[t.stack[n]]
    /\ \A w \in t.seen :
         t.stack # << >> /\ Own(g, Last(t.stack), w) =>
           t.left # << >> /\ t.left[1] \in g[Last(t.stack)]
    /\ \A n \in 1..Len(t.left) : \A w \in Blocks :
         Own(g, t.left[n], w) => n < Len(t.left) /\ t.left[n + 1] \in g[t.left[n]]

LEMMA ForthFollowing ==
    ASSUME NEW g, IsGraph(g), NEW r \in Blocks, NEW up \in BOOLEAN, NEW k \in Nat,
           NEW t, Traversed(g, r, t, k), Following(g, r, t),
           \A b \in Blocks : r \notin g[b] /\ b \notin g[b]
    PROVE  Following(g, r, Forth(g, up, t))
<1> DEFINE top == Last(t.stack)
           new == g[top] \ t.seen
           u == Forth(g, up, t)
<1>1. /\ t.stack \in Seq(Blocks) /\ t.left \in Seq(Blocks)
      /\ t.seen \in SUBSET Blocks
      /\ t = [stack |-> t.stack, seen |-> t.seen, left |-> t.left]
      /\ t.seen = Elems(t.stack) \cup Elems(t.left)
  BY DEF Traversed, Traversals
<1>2. /\ \A w \in t.seen \ {r} : \E p \in t.seen : w \in g[p]
      /\ \A n \in 1..(Len(t.stack) - 1) : t.stack[n + 1] \in g[t.stack[n]]
      /\ \A w \in t.seen :
           t.stack # << >> /\ Own(g, top, w) => t.left # << >> /\ t.left[1] \in g[top]
      /\ \A n \in 1..Len(t.left) : \A w \in Blocks :
           Own(g, t.left[n], w) => n < Len(t.left) /\ t.left[n + 1] \in g[t.left[n]]
  BY DEF Following
<1>3. CASE t.stack = << >>
  BY <1>3 DEF Forth
<1>4. CASE t.stack # << >> /\ new = {}
  <2>1. u = [stack |-> Front(t.stack), seen |-> t.seen, left |-> <<top>> \o t.left]
    BY <1>1, <1>4 DEF Forth
  <2>2. u.stack = Front(t.stack) /\ u.seen = t.seen /\ u.left = <<top>> \o t.left
    BY <2>1
  <2>3. /\ Len(t.stack) \in Nat \ {0} /\ top = t.stack[Len(t.stack)] /\ top \in Blocks
        /\ u.stack \in Seq(Blocks) /\ Len(u.stack) = Len(t.stack) - 1
        /\ \A n \in 1..(Len(t.stack) - 1) : u.stack[n] = t.stack[n]
    BY <1>1, <1>4, <2>2, FrontOf DEF Last
  <2>4. /\ Len(u.left) = Len(t.left) + 1 /\ Len(t.left) \in Nat
        /\ u.left[1] = top /\ \A n \in 1..Len(t.left) : u.left[n + 1] = t.left[n]
    <3> HIDE DEF top, u
    <3>1. <<top>> \in Seq(Blocks) /\ Len(<<top>>) = 1 /\ <<top>>[1] = top
      BY <2>3
    <3>2. /\ Len(<<top>> \o t.left) = Len(<<top>>) + Len(t.left)
          /\ \A n \in 1..(Len(<<top>>) + Len(t.left)) :
               (<<top>> \o t.left)[n] = IF n <= Len(<<top>>) THEN <<top>>[n]
                                        ELSE t.left[n - Len(<<top>>)]
      BY <1>1, <3>1, ConcatProperties
    <3>3. Len(t.left) \in Nat
      BY <1>1
    <3>4. Len(u.left) = 1 + Len(t.left)
          /\ \A n \in 1..(1 + Len(t.left)) :
               u.left[n] = IF n <= 1 THEN <<top>>[n] ELSE t.left[n - 1]
      BY <2>2, <3>1, <3>2
    <3>5. u.left[1] = top
      BY <3>1, <3>3, <3>4
    <3>6. \A n \in 1..Len(t.left) : u.left[n + 1] = t.left[n]
      <4> TAKE n \in 1..Len(t.left)
      <4>1. n + 1 \in 1..(1 + Len(t.left)) /\ ~(n + 1 <= 1) /\ (n + 1) - 1 = n
        BY <3>3
      <4> QED BY <3>4, <4>1
    <3> QED BY <3>3, <3>4, <3>5, <3>6
  <2> HIDE DEF u
  <2>5. \A w \in u.seen \ {r} : \E p \in u.seen : w \in g[p]
    BY <1>2, <2>2
  <2>6. \A n \in 1..(Len(u.stack) - 1) : u.stack[n + 1] \in g[u.stack[n]]
    <3> TAKE n \in 1..(Len(u.stack) - 1)
    <3>1. n \in 1..(Len(t.stack) - 1) /\ n + 1 \in 1..(Len(t.stack) - 1)
      BY <2>3
    <3> QED BY <1>2, <2>3, <3>1
  <2>7. ASSUME u.stack # << >> PROVE u.left # << >> /\ u.left[1] \in g[Last(u.stack)]
    <3>1. Len(u.stack) \in Nat \ {0} /\ Last(u.stack) = u.stack[Len(u.stack)]
      BY <2>3, <2>7 DEF Last
    <3>2. PICK m \in Nat : m = Len(u.stack) /\ m # 0
      BY <3>1
    <3> DEFINE L == Len(t.stack)
    <3>0. m \in Nat /\ m # 0 /\ m = L - 1 /\ L \in Nat
      BY <2>3, <3>2
    <3> HIDE DEF L
    <3>01. m \in 1..(L - 1) /\ m + 1 = L
      BY ONLY <3>0
    <3>3. m \in 1..(Len(t.stack) - 1) /\ m + 1 = Len(t.stack)
      BY <3>01 DEF L
    <3>4. top \in g[t.stack[m]]
      BY <1>2, <2>3, <3>3
    <3>5. u.left # << >>
      BY <2>4
    <3> QED BY <2>3, <2>4, <3>1, <3>2, <3>3, <3>4, <3>5
  <2>8. ASSUME NEW n \in 1..Len(u.left), NEW w \in Blocks, Own(g, u.left[n], w)
        PROVE  n < Len(u.left) /\ u.left[n + 1] \in g[u.left[n]]
    <3>1. CASE n = 1
      <4>1. Own(g, top, w) /\ w \in t.seen
        BY <1>4, <2>4, <2>8, <3>1 DEF Own
      <4>2. t.left # << >> /\ t.left[1] \in g[top]
        BY <1>2, <1>4, <4>1
      <4>3. Len(t.left) \in Nat \ {0} /\ 1 \in 1..Len(t.left)
        BY <1>1, <4>2
      <4> QED BY <2>4, <3>1, <4>2, <4>3
    <3>2. CASE n # 1
      <4>1. n - 1 \in 1..Len(t.left) /\ n = (n - 1) + 1
        BY <2>4, <3>2
      <4>2. PICK m \in 1..Len(t.left) : n = m + 1
        BY <4>1
      <4>3. u.left[n] = t.left[m]
        BY <2>4, <4>2
      <4>4. m < Len(t.left) /\ t.left[m + 1] \in g[t.left[m]]
        BY <1>2, <2>8, <4>3
      <4>5. n \in 1..Len(t.left)
        BY <2>4, <4>2, <4>4
      <4> QED BY <2>4, <4>2, <4>3, <4>4, <4>5
    <3> QED BY <3>1, <3>2
  <2>9. Following(g, r, u)
    BY <2>5, <2>6, <2>7, <2>8 DEF Following
  <2> QED BY <2>9 DEF u
<1>5. CASE t.stack # << >> /\ new # {}
  <2>1. /\ Len(t.stack) \in Nat \ {0} /\ top = t.stack[Len(t.stack)] /\ top \in Blocks
        /\ top \in t.seen
    BY <1>1, <1>5, FrontOf DEF Last
  <2>2. new \in SUBSET Blocks
    BY <2>1 DEF IsGraph
  <2> DEFINE b == Nearest(new, up)
  <2>3. b \in new /\ b \in Blocks /\ b \notin t.seen
    BY <1>5, <2>2, NearestIn
  <2>4. u = [stack |-> Append(t.stack, b), seen |-> t.seen \cup {b}, left |-> t.left]
    BY <1>1, <1>5 DEF Forth
  <2> HIDE DEF b
  <2>5. u.stack = Append(t.stack, b) /\ u.seen = t.seen \cup {b} /\ u.left = t.left
    BY <2>4
  <2> HIDE DEF u
  <2>6. /\ Len(u.stack) = Len(t.stack) + 1 /\ Last(u.stack) = b
        /\ \A n \in 1..Len(t.stack) : u.stack[n] = t.stack[n]
        /\ u.stack[Len(t.stack) + 1] = b
    BY <1>1, <2>3, <2>5, AppendProperties DEF Last
  <2>7. \A w \in u.seen \ {r} : \E p \in u.seen : w \in g[p]
    BY <1>2, <2>1, <2>3, <2>5
  <2>8. \A n \in 1..(Len(u.stack) - 1) : u.stack[n + 1] \in g[u.stack[n]]
    <3> TAKE n \in 1..(Len(u.stack) - 1)
    <3>1. CASE n = Len(t.stack)
      BY <2>1, <2>3, <2>6, <3>1
    <3>2. CASE n # Len(t.stack)
      <4>1. n \in 1..(Len(t.stack) - 1) /\ n \in 1..Len(t.stack) /\ n + 1 \in 1..Len(t.stack)
        BY <2>1, <2>6, <3>2
      <4> QED BY <1>2, <2>6, <4>1
    <3> QED BY <3>1, <3>2
  <2>9. \A w \in u.seen : ~Own(g, Last(u.stack), w)
    <3> SUFFICES ASSUME NEW w \in u.seen, Own(g, b, w) PROVE FALSE
      BY <2>6
    <3>1. w \in g[b] /\ w # r /\ w # b /\ \A p \in Blocks : w \in g[p] => p = b
      BY <2>3 DEF Own
    <3>2. w \in t.seen
      BY <2>5, <3>1
    <3>3. PICK p \in t.seen : w \in g[p]
      BY <1>2, <3>1, <3>2
    <3> QED BY <1>1, <2>3, <3>1, <3>3
  <2>10. Following(g, r, u)
    BY <1>2, <2>5, <2>7, <2>8, <2>9 DEF Following
  <2> QED BY <2>10 DEF u
<1> QED BY <1>3, <1>4, <1>5

LEMMA TraversalStarts ==
    ASSUME NEW g, NEW r \in Blocks
    PROVE  Traversed(g, r, [stack |-> <<r>>, seen |-> {r}, left |-> << >>], 0)
<1> DEFINE a == [stack |-> <<r>>, seen |-> {r}, left |-> << >>]
<1>1. a \in Traversals /\ a.stack = <<r>> /\ a.seen = {r} /\ a.left = << >>
  BY DEF Traversals
<1> HIDE DEF a
<1>2. Elems(<<r>>) = {r} /\ Elems(<< >>) = {} /\ Distinct(<<r>>) /\ Distinct(<< >>)
  BY DEF Elems, Distinct
<1>3. Cardinality({r}) = 1 /\ Cardinality({}) = 0 /\ Len(<< >>) = 0
  BY FS_Singleton, FS_EmptySet
<1>4. /\ r \in a.seen /\ a.seen = Elems(a.stack) \cup Elems(a.left)
      /\ Elems(a.stack) \cap Elems(a.left) = {}
      /\ Distinct(a.stack) /\ Distinct(a.left)
      /\ \A b \in Elems(a.left) : g[b] \subseteq a.seen
  BY <1>1, <1>2
<1>5. /\ Len(a.left) = Cardinality(Elems(a.left))
      /\ 0 + 1 = Cardinality(a.seen) + Len(a.left)
  <2>1. Len(a.left) = 0 /\ Cardinality(Elems(a.left)) = 0 /\ Cardinality(a.seen) = 1
    BY <1>1, <1>2, <1>3, Zenon
  <2>2. 0 + 1 = 1 + 0
    OBVIOUS
  <2> QED BY <2>1, <2>2, Zenon
<1>6. Traversed(g, r, a, 0)
  BY <1>1, <1>4, <1>5 DEF Traversed
<1> QED BY <1>6 DEF a

LEMMA OwnComesNext ==
    ASSUME NEW g, NEW r, Connected(g, r), NEW up \in BOOLEAN,
           \A b \in Blocks : r \notin g[b] /\ b \notin g[b],
           NEW s, s = ReversePostOrder(g, r, up)
    PROVE  \A n \in 1..Len(s) : \A w \in Blocks :
             Own(g, s[n], w) => n < Len(s) /\ s[n + 1] \in g[s[n]]
<1>0. IsGraph(g) /\ r \in Blocks
  BY DEF Connected
<1>1. PICK G : IsTraversal(G, g, r, up)
  BY <1>0, TraversalOf
<1>2. /\ G[0] = [stack |-> <<r>>, seen |-> {r}, left |-> << >>]
      /\ \A k \in Nat : G[k + 1] = Forth(g, up, G[k])
      /\ s = G[2 * N].left
  BY <1>1 DEF IsTraversal
<1> DEFINE U == {k \in Nat : Traversed(g, r, G[k], k) /\ Following(g, r, G[k])}
<1>3. 0 \in U
  <2> DEFINE a == [stack |-> <<r>>, seen |-> {r}, left |-> << >>]
  <2>1. a \in Traversals /\ a.stack = <<r>> /\ a.seen = {r} /\ a.left = << >>
    BY <1>0 DEF Traversals
  <2> HIDE DEF a
  <2>4. Traversed(g, r, a, 0)
    BY <1>0, TraversalStarts DEF a
  <2>5. Last(<<r>>) = r /\ Len(<<r>>) = 1
    BY DEF Last
  <2>6. Following(g, r, a)
    <3>1. \A w \in a.seen : ~Own(g, Last(a.stack), w)
      BY <1>0, <2>1, <2>5 DEF Own
    <3>2. 1..(Len(a.stack) - 1) = {} /\ 1..Len(a.left) = {}
      BY <2>1, <2>5
    <3> QED BY <2>1, <3>1, <3>2 DEF Following
  <2> QED BY <1>2, <2>4, <2>6 DEF a
<1>4. ASSUME NEW k \in Nat, k \in U PROVE k + 1 \in U
  <2>1. Traversed(g, r, G[k], k) /\ Following(g, r, G[k]) /\ G[k + 1] = Forth(g, up, G[k])
    BY <1>2, <1>4
  <2>2. Traversed(g, r, Forth(g, up, G[k]), k + 1)
    BY <1>0, <2>1, ForthTraversed
  <2>3. Following(g, r, Forth(g, up, G[k]))
    BY <1>0, <2>1, ForthFollowing
  <2> QED BY <2>1, <2>2, <2>3
<1> HIDE DEF U
<1>5. Nat \subseteq U
  BY <1>3, <1>4, SetInduction
<1>6. 2 * N \in Nat
  BY BlocksFinite
<1>7. Following(g, r, G[2 * N])
  BY <1>5, <1>6 DEF U
<1> QED BY <1>2, <1>7 DEF Following

\* Functions of `if': a branch that nothing useful follows falls through to
\* a target of its own.
LEMMA FallsThrough ==
    ASSUME Init, Acyclic(graph), Fresh(graph)
    PROVE  Descending
<1>1. GraphInv /\ graph \in Graphs /\ Connected(graph, entry) /\ IsGraph(graph)
  BY GraphInit DEF Init, GraphInv, Connected
<1>2. PICK up \in BOOLEAN : rpo = ReversePostOrder(graph, entry, up)
  BY DEF Init
<1>3. \A b \in Blocks : entry \notin graph[b]
  <2>1. PICK f \in [Blocks \ {exit} -> Inner] :
            graph = [b \in Blocks |-> IF b = exit THEN {} ELSE f[b]]
    BY <1>1 DEF Graphs
  <2>2. \A S \in Inner : entry \notin S
    BY DEF Inner, Shapes
  <2> QED BY <2>1, <2>2
<1>4. \A b \in Blocks : b \notin graph[b]
  <2> TAKE b \in Blocks
  <2> DEFINE A == graph[b]
             X == {}
  <2>1. A \in SUBSET Blocks
    BY <1>1 DEF IsGraph
  <2>2. b \notin Reach(graph, A, X)
    BY DEF Acyclic
  <2> HIDE DEF A, X
  <2>3. A \ X \subseteq Reach(graph, A, X)
    BY <1>1, <2>1, ReachClosed
  <2> QED BY <2>2, <2>3 DEF A, X
<1>5. \A n \in 1..Len(rpo) : \A w \in Blocks :
        Own(graph, rpo[n], w) => n < Len(rpo) /\ rpo[n + 1] \in graph[rpo[n]]
  BY <1>1, <1>2, <1>3, <1>4, OwnComesNext
<1>6. ASSUME NEW n \in 1..N, rpo[n] \in Branching(graph)
      PROVE  n < N /\ rpo[n + 1] \in graph[rpo[n]]
  <2> DEFINE b == rpo[n]
  <2>1. b \in Blocks /\ b \in Branching(graph)
    BY <1>6 DEF Branching
  <2> HIDE DEF b
  <2>2. PICK w \in graph[b] : Preds(graph, w) = {b}
    BY <2>1 DEF Fresh
  <2>3. w \in Blocks /\ Own(graph, b, w)
    BY <1>1, <2>1, <2>2 DEF IsGraph, Preds, Transpose, Own
  <2>4. Len(rpo) = N
    BY <1>1 DEF GraphInv, IsOrder
  <2> QED BY <1>5, <2>3, <2>4 DEF b
<1> QED BY <1>6 DEF Descending

-----------------------------------------------------------------------------
(* The order of the useful blocks: marking and sweeping.                   *)

\* How a block ends.
EndsIn(s, op) == s # << >> /\ Last(s).op = op

\* While the code is as it was, what is marked has marked the branches that
\* decide whether it runs, or is in work_list.
MarkOrder ==
    /\ work_list \in Seq(Blocks \X Nat) /\ useful \subseteq Blocks \X Nat
    /\ \A b \in Branching(graph) : EndsIn(code[b], "branch")
    /\ \A i \in useful : i \in Elems(work_list) \/ Controls(i[1]) \subseteq useful
    /\ \A i \in useful : i[1] \in live_blocks
    /\ \A u \in live_blocks : \E i \in useful : i[1] = u
    /\ \/ Descending
       \/ \A b \in Blocks : graph[b] = {exit} =>
            b \in live_blocks \/ (EndsIn(code[b], "return") /\ \A n \in 1..(bb - 1) : rpo[n] # b)

\* A block that is still to be swept.
Unswept(b) ==
    /\ out[b] = graph[b]
    /\ b \in Branching(graph) => \/ /\ <<b, Len(code[b])>> \in useful
                                    /\ b \in live_blocks
                                 \/ /\ <<b, Len(code[b])>> \notin useful
                                    /\ Unsteering(b)
SweepOrder ==
    /\ \A b \in Blocks : Unswept(b) \/ b \in Swepts
    /\ \A b \in Blocks : Straight(b) \/ Redirected(b) \/ b \notin Swepts
    /\ Descending \/ Ended

OrderInv ==
    /\ IsRdf /\ GraphShape /\ live_blocks \subseteq Blocks
    /\ phase = "mark" => MarkOrder
    /\ phase = "sweep" => SweepOrder

LEMMA EndsWith ==
    ASSUME NEW C, NEW s \in Seq(C), NEW i \in C
    PROVE  s \o <<i>> \in Seq(C) /\ EndsIn(s \o <<i>>, i.op)
<1> DEFINE t == s \o <<i>>
<1>1. /\ <<i>> \in Seq(C) /\ Len(<<i>>) = 1 /\ <<i>>[1] = i
  OBVIOUS
<1>2. /\ t \in Seq(C) /\ Len(t) = Len(s) + Len(<<i>>) /\ Len(s) \in Nat
      /\ \A n \in 1..(Len(s) + Len(<<i>>)) :
           t[n] = IF n <= Len(s) THEN s[n] ELSE <<i>>[n - Len(s)]
  BY <1>1, ConcatProperties
<1> HIDE DEF t
<1>3. Len(t) = Len(s) + 1 /\ Len(t) \in 1..(Len(s) + 1) /\ ~(Len(t) <= Len(s))
      /\ Len(t) - Len(s) = 1
  BY <1>1, <1>2
<1>4. t[Len(t)] = i
  BY <1>1, <1>2, <1>3
<1>5. t # << >>
  BY <1>2, <1>3
<1>6. t \in Seq(C) /\ EndsIn(t, i.op)
  BY <1>2, <1>4, <1>5 DEF EndsIn, Last
<1> QED BY <1>6 DEF t

LEMMA BodyEnds ==
    ASSUME NEW g, NEW var \in Variables(g), NEW caller, NEW own \in BOOLEAN,
           NEW returns \in BOOLEAN, NEW b \in Blocks
    PROVE  /\ b \in Branching(g) /\ g[b] # {exit}
                => EndsIn(Body(g, var, caller, own, returns, b), "branch")
           /\ returns /\ g[b] = {exit}
                => EndsIn(Body(g, var, caller, own, returns, b), "return")
<1> DEFINE V == var.name
           C == Code(V)
           o == Operand(var, b, own)
           s1 == IF b \in var.at /\ var.name = "x" THEN <<Insn("alu", "x", "p")>> ELSE << >>
           s2 == IF b = caller THEN Call(o) ELSE << >>
           s3 == IF b \in var.at /\ var.name = "y" THEN <<Insn("unwound_phi", "y", "p")>>
                 ELSE << >>
           s4 == IF b \in Branching(g) THEN <<Branch(o)>> ELSE << >>
           s5 == IF returns /\ g[b] = {exit} THEN <<Return(o)>> ELSE << >>
           s == (s1 \o s2) \o s3
           t == Body(g, var, caller, own, returns, b)
<1>1. V \in {"x", "y"}
  BY DEF Variables
<1>2. o \in {"p", V}
  BY DEF Operand
<1>5. t = (s \o s4) \o s5
  BY DEF Body, o
<1> HIDE DEF o, V, t
<1> DEFINE i == Branch(o)
           j == Return(o)
<1>3. /\ Insn("alu", "x", "p") \in C /\ Insn("push", NULL, o) \in C
      /\ Insn("call", NULL, NULL) \in C /\ Insn("unwound_phi", "y", "p") \in C
      /\ i \in C /\ j \in C /\ i.op = "branch" /\ j.op = "return"
  BY <1>2 DEF Insn, Code, Ops, Branch, Return, NULL
<1> HIDE DEF C
<1>4. s1 \in Seq(C) /\ s2 \in Seq(C) /\ s3 \in Seq(C) /\ s4 \in Seq(C)
  BY <1>3 DEF Call
<1>6. s \in Seq(C) /\ s \o s4 \in Seq(C)
  <2> HIDE DEF s1, s2, s3, s4
  <2> QED BY <1>4, ConcatProperties
<1>7. ASSUME b \in Branching(g), g[b] # {exit} PROVE EndsIn(t, "branch")
  <2>1. s4 = <<i>> /\ s5 = << >>
    BY <1>7
  <2> HIDE DEF s, s4, s5, i
  <2>2. t = s \o <<i>>
    BY <1>5, <1>6, <2>1
  <2>3. EndsIn(s \o <<i>>, i.op)
    BY <1>3, <1>6, EndsWith
  <2> QED BY <1>3, <2>2, <2>3
<1>8. ASSUME returns, g[b] = {exit} PROVE EndsIn(t, "return")
  <2>1. s5 = <<j>>
    BY <1>8
  <2> DEFINE q == s \o s4
  <2>2. q \in Seq(C) /\ t = q \o <<j>>
    BY <1>5, <1>6, <2>1
  <2> HIDE DEF q, j
  <2>3. EndsIn(q \o <<j>>, j.op)
    BY <1>3, <2>2, EndsWith
  <2> QED BY <1>3, <2>2, <2>3
<1>9. /\ b \in Branching(g) /\ g[b] # {exit} => EndsIn(t, "branch")
      /\ returns /\ g[b] = {exit} => EndsIn(t, "return")
  BY <1>7, <1>8
<1> QED BY <1>9 DEF t

LEMMA OrderStart ==
    ASSUME Void \subseteq {"if"}, Init PROVE OrderInv
<1>1. GraphInv /\ graph \in Graphs /\ GraphShape /\ IsRdf
  BY GraphInit, ShapeOf DEF Init, IsRdf
<1>2. PICK var \in Variables(graph), caller \in Blocks, own \in BOOLEAN, returns \in BOOLEAN :
         /\ returns \/ VoidGraphs(graph)
         /\ code = [b \in Blocks |-> IF b = exit THEN << >> ELSE
                      Body(graph, var, caller, own, returns, b)]
  BY DEF Init
<1>3. phase = "mark" /\ bb = 1 /\ work_list = << >> /\ useful = {} /\ live_blocks = {}
  BY DEF Init
<1>4. ASSUME NEW b \in Blocks, b # exit
      PROVE  /\ b \in Branching(graph) /\ graph[b] # {exit} => EndsIn(code[b], "branch")
             /\ returns /\ graph[b] = {exit} => EndsIn(code[b], "return")
  <2>1. code[b] = Body(graph, var, caller, own, returns, b)
    BY <1>2, <1>4
  <2>2. /\ b \in Branching(graph) /\ graph[b] # {exit}
             => EndsIn(Body(graph, var, caller, own, returns, b), "branch")
        /\ returns /\ graph[b] = {exit}
             => EndsIn(Body(graph, var, caller, own, returns, b), "return")
    BY BodyEnds
  <2> QED BY <2>1, <2>2
<1>5. \A b \in Branching(graph) : EndsIn(code[b], "branch")
  BY <1>1, <1>4 DEF GraphShape
<1>6. returns => \A b \in Blocks : graph[b] = {exit} => EndsIn(code[b], "return")
  BY <1>1, <1>4 DEF GraphInv
<1>7. ASSUME ~returns PROVE Descending
  <2>1. "loop" \notin Void /\ "switch" \notin Void
    OBVIOUS
  <2>2. Acyclic(graph) /\ Fresh(graph)
    BY <1>2, <1>7, <2>1 DEF VoidGraphs
  <2> QED BY <2>2, FallsThrough
<1>8. 1..(bb - 1) = {}
  BY <1>3
<1>9. MarkOrder
  BY <1>3, <1>5, <1>6, <1>7, <1>8 DEF MarkOrder
<1> QED BY <1>1, <1>3, <1>9 DEF OrderInv

LEMMA SomeCode ==
    ASSUME Inv, phase \in {"mark", "sweep"} PROVE \E V : HasCode(V)
BY DEF Inv, XHeld, XInv

\* Marking leaves the graph and the code.
LEMMA OrderFrame ==
    ASSUME UNCHANGED <<analysis, code>>
    PROVE  /\ IsRdf' = IsRdf /\ GraphShape' = GraphShape /\ Descending' = Descending
           /\ \A b : Controls(b)' = Controls(b)
           /\ graph' = graph /\ rpo' = rpo
<1>1. UNCHANGED <<graph, rdf, rpo, code>>
  BY DEF analysis
<1> QED BY <1>1 DEF IsRdf, GraphShape, Descending, Controls

\* The marks that a block starts with.
LEMMA StartsIn ==
    ASSUME NEW V, HasCode(V), NEW b \in Blocks
    PROVE  /\ Starts(b) \subseteq Blocks \X Nat
           /\ \A i \in Starts(b) : i[1] = b
           /\ IsFiniteSet(Starts(b))
           /\ EndsIn(code[b], "return") => Starts(b) # {}
<1>1. /\ DOMAIN code[b] = 1..Len(code[b]) /\ Len(code[b]) \in Nat
      /\ IsFiniteSet(AllInsns) /\ AllInsns \subseteq Blocks \X Nat
  BY InsnsFinite
<1>2. Starts(b) \subseteq Insns(b)
  <2>1. ASSUME NEW k \in DOMAIN code[b] PROVE Pushes(b, k) \subseteq Insns(b)
    <3> SUFFICES ASSUME NEW j \in 1..(k - 1) PROVE <<b, j>> \in Insns(b)
      BY DEF Pushes
    <3>1. j \in DOMAIN code[b]
      BY <1>1
    <3> QED BY <3>1 DEF Insns
  <2>2. \A k \in DOMAIN code[b] : <<b, k>> \in Insns(b)
    BY DEF Insns
  <2> QED BY <2>1, <2>2 DEF Starts
<1>3. Insns(b) \subseteq AllInsns /\ \A i \in Insns(b) : i[1] = b
  BY DEF AllInsns, Insns
<1>4. IsFiniteSet(Starts(b))
  BY <1>1, <1>2, <1>3, FS_Subset
<1>5. ASSUME EndsIn(code[b], "return") PROVE Starts(b) # {}
  <2> DEFINE k == Len(code[b])
  <2>1. code[b] \in Seq(Code(V))
    BY DEF HasCode
  <2>2. k \in DOMAIN code[b] /\ code[b][k].op = "return"
    BY <1>1, <1>5, <2>1, FrontOf DEF EndsIn, Last
  <2>3. <<b, k>> \in Starts(b)
    BY <2>2 DEF Starts
  <2> QED BY <2>3
<1> QED BY <1>1, <1>2, <1>3, <1>4, <1>5

\* Which blocks are still to be marked.
LEMMA Marking ==
    ASSUME Inv, OrderInv, phase = "mark"
    PROVE  /\ GraphInv /\ MarkOrder /\ bb \in Nat \ {0} /\ out = graph
           /\ \E V : HasCode(V)
           /\ bb <= N => rpo[bb] \in Blocks
<1>1. GraphInv /\ MarkOrder /\ bb \in Nat \ {0} /\ out = graph
  BY DEF Inv, OrderInv
<1>2. ASSUME bb <= N PROVE rpo[bb] \in Blocks
  <2>1. bb \in 1..N /\ Len(rpo) = N /\ rpo \in Seq(Blocks)
    BY <1>1, <1>2, BlocksFinite DEF GraphInv, IsOrder
  <2> QED BY <2>1
<1> QED BY <1>1, <1>2, SomeCode

LEMMA InitMarkOrder == Inv /\ OrderInv /\ InitMark => OrderInv'
<1> SUFFICES ASSUME Inv, OrderInv, InitMark PROVE OrderInv'
  OBVIOUS
<1> DEFINE b == rpo[bb]
           new == Starts(b)
           W == SetToSeq(new)
<1>1. /\ phase = "mark" /\ phase' = "mark" /\ UNCHANGED <<analysis, out, code>>
      /\ bb' = bb + 1 /\ bb <= N /\ work_list = << >>
      /\ useful' = useful \cup new /\ live_blocks' = live_blocks \cup {b}
      /\ work_list' = W /\ new # {}
  BY DEF InitMark
<1>2. GraphInv /\ MarkOrder /\ bb \in Nat \ {0} /\ b \in Blocks
  BY <1>1, Marking
<1>3. PICK V : HasCode(V)
  BY <1>1, Marking
<1> HIDE DEF b
<1>4. new \subseteq Blocks \X Nat /\ (\A i \in new : i[1] = b) /\ IsFiniteSet(new)
  BY <1>2, <1>3, StartsIn
<1> HIDE DEF new
<1>5. W \in Seq(new) /\ Elems(W) = new
  BY <1>4, SetToSeqOf
<1> HIDE DEF W
<1>6. work_list' \in Seq(Blocks \X Nat) /\ Elems(work_list)' = new /\ Elems(work_list) = {}
  <2>1. W \in Seq(Blocks \X Nat)
    BY <1>4, <1>5
  <2>2. Elems(work_list)' = Elems(W)
    BY <1>1 DEF Elems
  <2>3. Elems(work_list) = {}
    BY <1>1 DEF Elems
  <2> QED BY <1>1, <1>5, <2>1, <2>2, <2>3
<1>7. /\ IsRdf' = IsRdf /\ GraphShape' = GraphShape /\ Descending' = Descending
      /\ \A c : Controls(c)' = Controls(c)
      /\ graph' = graph /\ rpo' = rpo /\ code' = code
  BY <1>1, OrderFrame
<1>8. useful' \subseteq Blocks \X Nat
  BY <1>1, <1>2, <1>4 DEF MarkOrder
<1>9. \A i \in useful' : i \in Elems(work_list)' \/ Controls(i[1])' \subseteq useful'
  BY <1>1, <1>2, <1>6, <1>7 DEF MarkOrder
<1>10. \A i \in useful' : i[1] \in live_blocks'
  BY <1>1, <1>2, <1>4 DEF MarkOrder
<1>11. \A u \in live_blocks' : \E i \in useful' : i[1] = u
  BY <1>1, <1>2, <1>4 DEF MarkOrder
<1>12. ASSUME NEW c \in Blocks, c \notin live_blocks', \A n \in 1..(bb - 1) : rpo[n] # c
       PROVE  \A n \in 1..(bb' - 1) : rpo'[n] # c
  <2>1. b # c
    BY <1>1, <1>12
  <2>2. \A n \in 1..(bb' - 1) : n \in 1..(bb - 1) \/ n = bb
    BY <1>1, <1>2
  <2> QED BY <1>7, <1>12, <2>1, <2>2 DEF b
<1>13. \/ Descending'
       \/ \A c \in Blocks : graph'[c] = {exit} =>
            c \in live_blocks' \/ (EndsIn(code'[c], "return")
                                   /\ \A n \in 1..(bb' - 1) : rpo'[n] # c)
  BY <1>1, <1>2, <1>7, <1>12 DEF MarkOrder
<1>14. \A c \in Branching(graph') : EndsIn(code'[c], "branch")
  BY <1>2, <1>7 DEF MarkOrder
<1>15. MarkOrder'
  BY <1>6, <1>8, <1>9, <1>10, <1>11, <1>13, <1>14 DEF MarkOrder
<1>16. live_blocks' \subseteq Blocks
  BY <1>1, <1>2 DEF OrderInv
<1>17. IsRdf' /\ GraphShape' /\ ~(phase' = "sweep")
  BY <1>1, <1>7 DEF OrderInv
<1> QED BY <1>15, <1>16, <1>17 DEF OrderInv

LEMMA PopOrder == Inv /\ OrderInv /\ Pop => OrderInv'
<1> SUFFICES ASSUME Inv, OrderInv, Pop PROVE OrderInv'
  OBVIOUS
<1> DEFINE curr == Last(work_list)
           new == (last_assign(At(curr).rs) \cup Controls(curr[1])) \ useful
           W == SetToSeq(new)
           F == Front(work_list)
<1>1. /\ phase = "mark" /\ phase' = "mark" /\ bb' = bb /\ UNCHANGED <<analysis, out, code>>
      /\ work_list # << >>
      /\ useful' = useful \cup new /\ live_blocks' = live_blocks \cup {i[1] : i \in new}
      /\ work_list' = F \o W
  BY DEF Pop
<1>2. GraphInv /\ MarkOrder
  BY <1>1, Marking
<1>3. PICK V : HasCode(V)
  BY <1>1, Marking
<1> HIDE DEF curr, F
<1>4. /\ curr \in Blocks \X Nat /\ F \in Seq(Blocks \X Nat)
      /\ Elems(work_list) \subseteq Elems(F) \cup {curr}
  BY <1>1, <1>2, FrontOf, FrontElems DEF curr, F, MarkOrder
<1>5. /\ IsFiniteSet(AllInsns) /\ AllInsns \subseteq Blocks \X Nat
      /\ \A b \in Blocks : DOMAIN code[b] = 1..Len(code[b]) /\ Len(code[b]) \in Nat
      /\ \A b \in Blocks : code[b] # << >> => Len(code[b]) # 0
  BY <1>3, InsnsFinite DEF HasCode
<1>6. last_assign(At(curr).rs) \subseteq AllInsns
  BY DEF last_assign, Assigns, AllInsns
<1>7. Controls(curr[1]) \subseteq AllInsns
  <2>1. rdf[curr[1]] \in SUBSET Blocks
    BY <1>2, <1>4 DEF GraphInv
  <2> SUFFICES ASSUME NEW c \in rdf[curr[1]], code[c] # << >>
               PROVE  <<c, Len(code[c])>> \in AllInsns
    BY DEF Controls
  <2>2. c \in Blocks /\ Len(code[c]) \in DOMAIN code[c]
    BY <1>5, <2>1
  <2> QED BY <2>2 DEF AllInsns, Insns
<1>8. new \subseteq Blocks \X Nat /\ IsFiniteSet(new)
  BY <1>5, <1>6, <1>7, FS_Subset
<1>9. Controls(curr[1]) \subseteq useful'
  BY <1>1
<1> HIDE DEF new
<1>10. W \in Seq(new) /\ Elems(W) = new
  BY <1>8, SetToSeqOf
<1> HIDE DEF W
<1>11. work_list' \in Seq(Blocks \X Nat) /\ Elems(work_list)' = Elems(F) \cup new
  <2>1. W \in Seq(Blocks \X Nat)
    BY <1>8, <1>10
  <2>2. F \o W \in Seq(Blocks \X Nat) /\ Elems(F \o W) = Elems(F) \cup Elems(W)
    BY <1>4, <2>1, ConcatOf
  <2>3. Elems(work_list)' = Elems(F \o W)
    BY <1>1 DEF Elems
  <2> QED BY <1>1, <1>10, <2>2, <2>3
<1>12. /\ IsRdf' = IsRdf /\ GraphShape' = GraphShape /\ Descending' = Descending
       /\ \A c : Controls(c)' = Controls(c)
       /\ graph' = graph /\ rpo' = rpo /\ code' = code
  BY <1>1, OrderFrame
<1>13. useful' \subseteq Blocks \X Nat /\ live_blocks' \subseteq Blocks
  <2>1. \A i \in new : i[1] \in Blocks
    BY <1>8
  <2> QED BY <1>1, <1>2, <1>8, <2>1 DEF MarkOrder, OrderInv
<1>14. ASSUME NEW i \in useful'
       PROVE  /\ i \in Elems(work_list)' \/ Controls(i[1])' \subseteq useful'
              /\ i[1] \in live_blocks'
  <2>1. CASE i \in new
    BY <1>1, <1>11, <2>1
  <2>2. CASE i \notin new
    <3>1. /\ i \in useful /\ i[1] \in live_blocks
          /\ i \in Elems(work_list) \/ Controls(i[1]) \subseteq useful
      BY <1>1, <1>2, <2>2 DEF MarkOrder
    <3>2. CASE i = curr
      BY <1>1, <1>9, <1>12, <3>1, <3>2
    <3>3. CASE i # curr
      BY <1>1, <1>4, <1>11, <1>12, <3>1, <3>3
    <3> QED BY <3>2, <3>3
  <2> QED BY <2>1, <2>2
<1>15. \A u \in live_blocks' : \E i \in useful' : i[1] = u
  BY <1>1, <1>2 DEF MarkOrder
<1>16. \/ Descending'
       \/ \A c \in Blocks : graph'[c] = {exit} =>
            c \in live_blocks' \/ (EndsIn(code'[c], "return")
                                   /\ \A n \in 1..(bb' - 1) : rpo'[n] # c)
  BY <1>1, <1>2, <1>12 DEF MarkOrder
<1>17. \A c \in Branching(graph') : EndsIn(code'[c], "branch")
  BY <1>2, <1>12 DEF MarkOrder
<1>18. MarkOrder'
  BY <1>11, <1>13, <1>14, <1>15, <1>16, <1>17 DEF MarkOrder
<1>19. IsRdf' /\ GraphShape' /\ ~(phase' = "sweep")
  BY <1>1, <1>12 DEF OrderInv
<1> QED BY <1>13, <1>18, <1>19 DEF OrderInv

\* A branch that is not marked steers to no useful block.
LEMMA Unmarked ==
    ASSUME MarkOrder, work_list = << >>, NEW b \in Branching(graph)
    PROVE  \/ <<b, Len(code[b])>> \in useful /\ b \in live_blocks
           \/ <<b, Len(code[b])>> \notin useful /\ Unsteering(b)
<1>1. CASE <<b, Len(code[b])>> \in useful
  <2>1. <<b, Len(code[b])>>[1] \in live_blocks
    BY <1>1 DEF MarkOrder
  <2> QED BY <1>1, <2>1
<1>2. CASE <<b, Len(code[b])>> \notin useful
  <2> SUFFICES ASSUME NEW u \in live_blocks, b \in rdf[u] PROVE FALSE
    BY <1>2 DEF Unsteering
  <2>1. PICK i \in useful : i[1] = u
    BY DEF MarkOrder
  <2>2. Elems(work_list) = {}
    BY DEF Elems
  <2>3. Controls(u) \subseteq useful
    BY <2>1, <2>2 DEF MarkOrder
  <2>4. EndsIn(code[b], "branch")
    BY DEF MarkOrder
  <2>5. <<b, Len(code[b])>> \in Controls(u)
    BY <2>4 DEF Controls, EndsIn
  <2> QED BY <1>2, <2>3, <2>5
<1> QED BY <1>1, <1>2

LEMMA NothingToMarkOrder == Inv /\ OrderInv /\ NothingToMark => OrderInv'
<1> SUFFICES ASSUME Inv, OrderInv, NothingToMark PROVE OrderInv'
  OBVIOUS
<1>1. /\ phase = "mark" /\ work_list = << >>
      /\ UNCHANGED <<analysis, out, code, work_list, useful, live_blocks>>
  BY DEF NothingToMark
<1>2. GraphInv /\ MarkOrder /\ bb \in Nat \ {0} /\ out = graph
  BY <1>1, Marking
<1>3. PICK V : HasCode(V)
  BY <1>1, Marking
<1>4. /\ IsRdf' = IsRdf /\ GraphShape' = GraphShape /\ Descending' = Descending
      /\ \A c : Controls(c)' = Controls(c)
      /\ graph' = graph /\ rpo' = rpo /\ code' = code
  BY <1>1, OrderFrame
<1>5. IsRdf' /\ GraphShape' /\ live_blocks' \subseteq Blocks
  BY <1>1, <1>4 DEF OrderInv
<1>6. CASE bb <= N /\ Starts(rpo[bb]) = {} /\ bb' = bb + 1 /\ phase' = phase
  <2>1. ASSUME NEW c \in Blocks, EndsIn(code[c], "return"), \A n \in 1..(bb - 1) : rpo[n] # c
        PROVE  \A n \in 1..(bb' - 1) : rpo'[n] # c
    <3>1. rpo[bb] # c
      BY <1>3, <1>6, <2>1, StartsIn
    <3>2. \A n \in 1..(bb' - 1) : n \in 1..(bb - 1) \/ n = bb
      BY <1>2, <1>6
    <3> QED BY <1>4, <2>1, <3>1, <3>2
  <2>2. \/ Descending'
        \/ \A c \in Blocks : graph'[c] = {exit} =>
             c \in live_blocks' \/ (EndsIn(code'[c], "return")
                                    /\ \A n \in 1..(bb' - 1) : rpo'[n] # c)
    BY <1>1, <1>2, <1>4, <2>1 DEF MarkOrder
  <2>3. Elems(work_list)' = Elems(work_list)
    BY <1>1 DEF Elems
  <2>4. \A i \in useful' : i \in Elems(work_list)' \/ Controls(i[1])' \subseteq useful'
    BY <1>1, <1>2, <1>4, <2>3 DEF MarkOrder
  <2>5. MarkOrder'
    BY <1>1, <1>2, <1>4, <2>2, <2>4 DEF MarkOrder
  <2> QED BY <1>1, <1>5, <1>6, <2>5 DEF OrderInv
<1>7. CASE bb > N /\ phase' = "sweep" /\ bb' = 1
  <2>1. Swepts' = {}
    <3>1. 1..bb' - 1 = {}
      BY ONLY <1>7
    <3> QED BY ONLY <1>7, <3>1 DEF Swepts
  <2>2. ASSUME NEW b \in Blocks PROVE Unswept(b)'
    <3>1. b \in Branching(graph) => \/ <<b, Len(code[b])>> \in useful /\ b \in live_blocks
                                    \/ <<b, Len(code[b])>> \notin useful /\ Unsteering(b)
      BY <1>1, <1>2, Unmarked
    <3>2. Unsteering(b)' = Unsteering(b)
      BY <1>1 DEF Unsteering, analysis
    <3> QED BY <1>1, <1>2, <1>4, <3>1, <3>2 DEF Unswept
  <2>3. (Descending \/ Ended)'
    <3>1. CASE Descending
      BY <1>4, <3>1
    <3>2. CASE \A c \in Blocks : graph[c] = {exit} =>
                 c \in live_blocks \/ (EndsIn(code[c], "return")
                                       /\ \A n \in 1..(bb - 1) : rpo[n] # c)
      <4> SUFFICES ASSUME NEW c \in Blocks, graph[c] = {exit} PROVE c \in live_blocks
        BY <1>1, <1>4 DEF Ended
      <4>1. PICK n \in 1..Len(rpo) : rpo[n] = c
        BY <1>2 DEF GraphInv, IsOrder, Elems
      <4>2. Len(rpo) = N /\ N \in Nat
        BY <1>2, BlocksFinite DEF GraphInv, IsOrder
      <4>3. n \in 1..(bb - 1)
        BY <1>2, <1>7, <4>2
      <4> QED BY <3>2, <4>1, <4>3
    <3> QED BY <1>2, <3>1, <3>2 DEF MarkOrder
  <2>4. SweepOrder'
    BY <2>1, <2>2, <2>3 DEF SweepOrder
  <2> QED BY <1>5, <1>7, <2>4 DEF OrderInv
<1> QED BY <1>6, <1>7 DEF NothingToMark

LEMMA SweepOrdered == Inv /\ OrderInv /\ Sweep => OrderInv'
<1> SUFFICES ASSUME Inv, OrderInv, Sweep PROVE OrderInv'
  OBVIOUS
<1>1. /\ phase = "sweep" /\ phase' = "sweep" /\ bb <= N /\ bb' = bb + 1
      /\ UNCHANGED <<analysis, work_list, useful, live_blocks>>
      /\ graph' = graph /\ rpo' = rpo /\ rdf' = rdf
  BY DEF Sweep, analysis
<1>2. /\ GraphInv /\ SweepOrder /\ bb \in Nat \ {0} /\ GraphShape /\ IsRdf
      /\ out \in [Blocks -> SUBSET Blocks] /\ live_blocks \subseteq Blocks
  BY <1>1 DEF Inv, OrderInv
<1>3. PICK V : HasCode(V)
  BY <1>1, SomeCode
<1>4. PICK b \in Blocks : b = rpo[bb] /\ b \notin Swepts /\ Swepts' = Swepts \cup {b}
  BY <1>1, <1>2, NextSwept
<1> DEFINE q == Kept(code[b], {k \in DOMAIN code[b] : <<b, k>> \in useful})
           redirected == b \in Branching(graph) /\ <<b, Len(code[b])>> \notin useful
<1>5. /\ code' = [code EXCEPT ![b] = q]
      /\ out' = IF redirected THEN [out EXCEPT ![b] = Targets(b)] ELSE out
      /\ code \in [Blocks -> Seq(Code(V))]
  BY <1>3, <1>4 DEF Sweep, HasCode
<1> HIDE DEF q
<1>6. /\ \A c : Unsteering(c)' = Unsteering(c)
      /\ \A a, c : PostDom(a, c)' = PostDom(a, c)
      /\ Descending' = Descending /\ Ended' = Ended /\ IsRdf' = IsRdf
      /\ GraphShape' = GraphShape
  BY <1>1 DEF Unsteering, PostDom, Descending, Ended, IsRdf, GraphShape
<1>7. \A c \in Blocks \ {b} : code'[c] = code[c] /\ out'[c] = out[c]
  BY <1>2, <1>5
<1>8. \A c \in Blocks \ {b} : /\ Unswept(c)' = Unswept(c)
                              /\ Straight(c)' = Straight(c)
                              /\ Redirected(c)' = Redirected(c)
  <2> TAKE c \in Blocks \ {b}
  <2>1. code'[c] = code[c] /\ out'[c] = out[c]
    BY <1>7
  <2>2. Unswept(c)' = Unswept(c)
    BY <1>1, <1>6, <2>1 DEF Unswept
  <2>3. Straight(c)' = Straight(c)
    BY <1>1, <2>1 DEF Straight
  <2>4. Redirected(c)' = Redirected(c)
    BY <1>1, <1>6, <2>1 DEF Redirected
  <2> QED BY <2>2, <2>3, <2>4
<1>9. Unswept(b)
  BY <1>2, <1>4 DEF SweepOrder
<1>10. Straight(b)' \/ Redirected(b)'
  <2>1. CASE redirected
    <3>1. b \in Blocks \ {exit} /\ Unsteering(b) /\ b \in Branching(graph)
      BY <1>2, <1>9, <2>1 DEF Unswept, GraphShape
    <3>2. PICK z \in Blocks :
             /\ Targets(b) = {z} \ {exit}
             /\ z \in live_blocks \cup {exit} /\ z # b /\ PostDom(z, b)
             /\ \A a \in Blocks : a \in live_blocks \cup {exit} /\ a # b /\ PostDom(a, b)
                                    => PostDom(a, z)
      BY <1>2, <3>1, ClimbEnds
    <3>3. out'[b] = {z} \ {exit}
      BY <1>2, <1>5, <2>1, <3>2
    <3>4. \A a \in Blocks : a \in live_blocks' \cup {exit} /\ a # b /\ PostDom(a, b)'
                              => PostDom(a, z)'
      BY <1>1, <1>6, <3>2
    <3>5. PostDom(z, b)' /\ z \in live_blocks' \cup {exit} /\ z # b
      BY <1>1, <1>6, <3>2
    <3>6. b \in Branching(graph') /\ Unsteering(b)'
      BY <1>1, <1>6, <3>1
    <3>7. Redirected(b)'
      BY <3>3, <3>4, <3>5, <3>6 DEF Redirected
    <3> QED BY <3>7
  <2>2. CASE ~redirected
    <3>1. out'[b] = graph[b]
      BY <1>5, <1>9, <2>2 DEF Unswept
    <3>2. b \in Branching(graph) => b \in live_blocks
      BY <1>9, <2>2 DEF Unswept
    <3>3. Straight(b)'
      BY <1>1, <3>1, <3>2 DEF Straight
    <3> QED BY <3>3
  <2> QED BY <2>1, <2>2
<1>11. \A c \in Blocks : Unswept(c)' \/ c \in Swepts'
  BY <1>2, <1>4, <1>8 DEF SweepOrder
<1>12. \A c \in Blocks : Straight(c)' \/ Redirected(c)' \/ c \notin Swepts'
  BY <1>2, <1>4, <1>8, <1>10 DEF SweepOrder
<1>13. SweepOrder'
  BY <1>2, <1>6, <1>11, <1>12 DEF SweepOrder
<1> QED BY <1>1, <1>2, <1>6, <1>13 DEF OrderInv

LEMMA OrderStep == LiveInv /\ OrderInv /\ [LiveNext]_vars => OrderInv'
<1> SUFFICES ASSUME LiveInv, OrderInv, [LiveNext]_vars PROVE OrderInv'
  OBVIOUS
<1>0. Inv
  BY DEF LiveInv
<1>1. CASE InitMark \/ NothingToMark \/ Pop \/ Sweep
  BY <1>0, <1>1, InitMarkOrder, NothingToMarkOrder, PopOrder, SweepOrdered
<1>2. CASE SolveLocals \/ Recompute \/ PassEnds
  <2>1. UNCHANGED <<analysis, code, live_blocks>> /\ phase' \in {"live", "done"}
    BY <1>2 DEF SolveLocals, Recompute, PassEnds
  <2>2. IsRdf' = IsRdf /\ GraphShape' = GraphShape
    BY <2>1, OrderFrame
  <2> QED BY <2>1, <2>2 DEF OrderInv
<1>3. CASE UNCHANGED vars
  <2>1. UNCHANGED <<graph, rdf, rpo, out, code, phase, bb, work_list, useful, live_blocks>>
        /\ UNCHANGED <<analysis, code>>
    BY <1>3 DEF vars, dce, analysis
  <2>2. /\ IsRdf' = IsRdf /\ GraphShape' = GraphShape /\ Descending' = Descending
        /\ \A c : Controls(c)' = Controls(c)
    BY <2>1, OrderFrame
  <2>3. /\ \A c : Unsteering(c)' = Unsteering(c)
        /\ \A a, c : PostDom(a, c)' = PostDom(a, c)
        /\ Ended' = Ended /\ Swepts' = Swepts /\ Elems(work_list)' = Elems(work_list)
    BY <2>1 DEF Unsteering, PostDom, Ended, Swepts, Elems
  <2>4. MarkOrder' = MarkOrder
    BY <2>1, <2>2, <2>3 DEF MarkOrder
  <2>5. \A c : /\ Unswept(c)' = Unswept(c) /\ Straight(c)' = Straight(c)
               /\ Redirected(c)' = Redirected(c)
    BY <2>1, <2>3 DEF Unswept, Straight, Redirected
  <2>6. SweepOrder' = SweepOrder
    BY <2>2, <2>3, <2>5 DEF SweepOrder
  <2> QED BY <2>1, <2>2, <2>4, <2>6 DEF OrderInv
<1> QED BY <1>1, <1>2, <1>3 DEF LiveNext, Stop

LEMMA SweptTidy == ASSUME LiveInv, OrderInv, Swept PROVE Tidy
<1>1. /\ GraphInv /\ bb \in Nat \ {0} /\ phase = "sweep" /\ bb > N
      /\ SweepOrder /\ IsRdf /\ GraphShape /\ live_blocks \subseteq Blocks
  BY DEF LiveInv, Inv, OrderInv, Swept
<1>2. Blocks \subseteq Swepts
  <2>1. Elems(rpo) = Blocks /\ Len(rpo) = N /\ N \in Nat
    BY <1>1, BlocksFinite DEF GraphInv, IsOrder
  <2>2. \A n \in 1..N : n \in 1..(bb - 1)
    BY <1>1, <2>1
  <2> QED BY <1>1, <2>1, <2>2 DEF Swepts, Elems
<1> QED BY <1>1, <1>2 DEF Tidy, SweepOrder

\* Taking out the useless branches changes nothing else: after the sweep the
\* useful blocks that may come next after a block are those that came next
\* before it, in the functions with a result, whatever their branches and
\* loops, and in those without one whose branches are those of if, && and ||
\* (dce_insn() and dce_sweep(), with the code in the order of rpo).
THEOREM Order == ASSUME Void \subseteq {"if"} PROVE Spec => []SameOrder
<1>1. LiveInit => OrderInv
  BY OrderStart DEF LiveInit
<1>2. LiveInv /\ OrderInv => SameOrder
  <2> SUFFICES ASSUME LiveInv, OrderInv, Swept, NEW b \in Blocks \ {exit}
               PROVE  Meets(Flow, b) = Meets(graph, b)
    BY DEF SameOrder
  <2> QED BY SweptTidy, SameMeets
<1> QED BY <1>1, <1>2, LiveStart, LiveStep, OrderStep, PTL DEF Spec

=============================================================================
