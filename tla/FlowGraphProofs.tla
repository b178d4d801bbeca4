-------------------------- MODULE FlowGraphProofs --------------------------
(***************************************************************************)
(* Facts about the control-flow graphs of FlowGraph, for every number of   *)
(* blocks: Reach is the least set that is closed under the edges, however  *)
(* the recursive function behind it is unfolded, and dominance by paths is *)
(* a partial order below the root.                                         *)
(***************************************************************************)
EXTENDS FlowGraph, FiniteSetTheorems, TLAPS

-----------------------------------------------------------------------------
(* Induction, with a set in the place of the predicate.                    *)

LEMMA LeastNat ==
    ASSUME NEW T, T \subseteq Nat, T # {}
    PROVE  \E x \in T : \A y \in T : x <= y
<1>1. PICK x \in T : \A y \in T : ~(<<y, x>> \in OpToRel(<, Nat))
  BY NatLessThanWellFounded, WFMin
<1>2. ASSUME NEW y \in T PROVE x <= y
  <2>1. <<y, x>> \in Nat \X Nat
    OBVIOUS
  <2>2. ~(y < x)
    BY <1>1, <2>1 DEF OpToRel
  <2> QED BY <2>2
<1> QED BY <1>2

LEMMA SetInduction ==
    ASSUME NEW T, 0 \in T, \A n \in Nat : n \in T => n + 1 \in T
    PROVE  Nat \subseteq T
<1> SUFFICES ASSUME Nat \ T # {} PROVE FALSE
  OBVIOUS
<1>1. PICK n \in Nat \ T : \A m \in Nat \ T : n <= m
  BY LeastNat
<1>2. n - 1 \in Nat /\ n - 1 \in T
  BY <1>1
<1> QED BY <1>1, <1>2

\* A step that maps S to itself can be repeated from any of its members.
Repeats(G, S, a, F) ==
    G \in [Nat -> S] /\ G[0] = a /\ \A k \in Nat : G[k + 1] = F[G[k]]
LEMMA Iteration ==
    ASSUME NEW S, NEW a \in S, NEW F \in [S -> S]
    PROVE  \E G : Repeats(G, S, a, F)
<1> DEFINE H(n) == {h \in [0..n -> S] :
                      h[0] = a /\ \A k \in 0..(n - 1) : h[k + 1] = F[h[k]]}
           C(n) == CHOOSE h : h \in H(n)
           G == [n \in Nat |-> C(n)[n]]
<1>1. \A n \in Nat : H(n) # {}
  <2> DEFINE T == {n \in Nat : H(n) # {}}
  <2>1. 0 \in T
    <3>1. [k \in 0..0 |-> a] \in H(0)
      OBVIOUS
    <3> QED BY <3>1
  <2>2. ASSUME NEW n \in Nat, n \in T PROVE n + 1 \in T
    <3>1. PICK h \in H(n) : TRUE
      BY <2>2
    <3>2. h \in [0..n -> S] /\ h[0] = a /\ \A k \in 0..(n - 1) : h[k + 1] = F[h[k]]
      BY <3>1
    <3> DEFINE e == [k \in 0..(n + 1) |-> IF k = n + 1 THEN F[h[n]] ELSE h[k]]
    <3>3. e \in [0..(n + 1) -> S]
      BY <3>2
    <3>4. e[0] = a
      BY <3>2
    <3>5. ASSUME NEW k \in 0..n PROVE e[k + 1] = F[e[k]]
      <4>1. CASE k = n
        BY <3>2, <4>1
      <4>2. CASE k # n
        BY <3>2, <4>2
      <4> QED BY <4>1, <4>2
    <3>6. (n + 1) - 1 = n
      OBVIOUS
    <3>7. e \in H(n + 1)
      BY <3>3, <3>4, <3>5, <3>6
    <3> HIDE DEF H, e
    <3> QED BY <3>7
  <2> HIDE DEF T
  <2>3. Nat \subseteq T
    BY <2>1, <2>2, SetInduction
  <2> QED BY <2>3 DEF T
<1>2. ASSUME NEW m \in Nat, NEW n \in Nat, m <= n, NEW g \in H(m), NEW h \in H(n)
      PROVE  \A k \in 0..m : g[k] = h[k]
  <2> DEFINE T == {k \in Nat : k <= m => g[k] = h[k]}
  <2>1. 0 \in T
    OBVIOUS
  <2>2. ASSUME NEW k \in Nat, k \in T PROVE k + 1 \in T
    <3> SUFFICES ASSUME k + 1 <= m PROVE g[k + 1] = h[k + 1]
      OBVIOUS
    <3>1. k \in 0..(m - 1) /\ k \in 0..(n - 1) /\ g[k] = h[k]
      BY <1>2, <2>2
    <3> QED BY <3>1
  <2> HIDE DEF T
  <2>3. Nat \subseteq T
    BY <2>1, <2>2, SetInduction
  <2> QED BY <2>3 DEF T
<1>3. \A n \in Nat : C(n) \in H(n)
  <2> HIDE DEF H
  <2> QED BY <1>1
<1> HIDE DEF C
<1>4. G \in [Nat -> S]
  <2> SUFFICES ASSUME NEW n \in Nat PROVE G[n] \in S
    OBVIOUS
  <2>1. C(n) \in [0..n -> S]
    BY <1>3
  <2> QED BY <2>1
<1>5. G[0] = a
  BY <1>3
<1>6. ASSUME NEW k \in Nat PROVE G[k + 1] = F[G[k]]
  <2>1. C(k) \in H(k) /\ C(k + 1) \in H(k + 1)
    BY <1>3
  <2>2. G[k] = C(k)[k] /\ G[k + 1] = C(k + 1)[k + 1]
    OBVIOUS
  <2> HIDE DEF G
  <2>3. C(k)[k] = C(k + 1)[k]
    <3> HIDE DEF H
    <3> QED BY <1>2, <2>1
  <2>4. k \in 0..((k + 1) - 1)
    OBVIOUS
  <2>5. C(k + 1)[k + 1] = F[C(k + 1)[k]]
    BY <2>1, <2>4
  <2> QED BY <2>2, <2>3, <2>5
<1> HIDE DEF G
<1> QED BY <1>4, <1>5, <1>6 DEF Repeats

\* The same for a step that depends on its number.
Recurs(G, S, a, F) ==
    G \in [Nat -> S] /\ G[0] = a /\ \A k \in Nat : G[k + 1] = F[<<k, G[k]>>]
LEMMA Recursion ==
    ASSUME NEW S, NEW a \in S, NEW F \in [Nat \X S -> S]
    PROVE  \E G : Recurs(G, S, a, F)
<1> DEFINE P == Nat \X S
           E == [p \in P |-> <<p[1] + 1, F[p]>>]
           z == <<0, a>>
<1>1. z \in P /\ E \in [P -> P]
  <2> SUFFICES ASSUME NEW p \in P PROVE <<p[1] + 1, F[p]>> \in P
    OBVIOUS
  <2>1. p[1] + 1 \in Nat /\ F[p] \in S
    OBVIOUS
  <2> QED BY <2>1
<1> HIDE DEF E, P, z
<1>2. PICK H : Repeats(H, P, z, E)
  BY <1>1, Iteration, Zenon
<1>3. H \in [Nat -> P] /\ H[0] = z /\ \A k \in Nat : H[k + 1] = E[H[k]]
  BY <1>2 DEF Repeats
<1>4. \A k \in Nat : H[k] \in Nat \X S /\ H[k + 1] = <<H[k][1] + 1, F[H[k]]>>
  BY <1>3 DEF E, P
<1> DEFINE T == {k \in Nat : H[k][1] = k}
           G == [k \in Nat |-> H[k][2]]
<1>5. 0 \in T
  BY <1>3 DEF z
<1>6. ASSUME NEW k \in Nat, k \in T PROVE k + 1 \in T
  BY <1>4, <1>6
<1> HIDE DEF T
<1>7. Nat \subseteq T
  BY <1>5, <1>6, SetInduction
<1>8. \A k \in Nat : H[k][1] = k
  BY <1>7 DEF T
<1>9. G \in [Nat -> S] /\ G[0] = a
  BY <1>3, <1>4 DEF z
<1>10. ASSUME NEW k \in Nat PROVE G[k + 1] = F[<<k, G[k]>>]
  <2>1. H[k] = <<k, G[k]>>
    BY <1>4, <1>8
  <2>2. G[k + 1] = H[k + 1][2] /\ H[k + 1] = <<H[k][1] + 1, F[H[k]]>>
    BY <1>4
  <2> QED BY <2>1, <2>2
<1> HIDE DEF G
<1> QED BY <1>9, <1>10 DEF Recurs

-----------------------------------------------------------------------------
(* Reach.                                                                  *)

LEMMA BlocksFinite ==
    /\ IsFiniteSet(Blocks) /\ Cardinality(Blocks) = N
    /\ N \in Nat /\ N > 1 /\ entry \in Blocks /\ exit \in Blocks
<1>1. N \in Nat /\ N > 1 /\ 1 \in Int
  BY BlocksAssumption
<1> QED BY <1>1, FS_Interval DEF Blocks, entry, exit

\* N growing steps exhaust N blocks: a growing sequence of sets that stays as
\* it is once a step adds nothing has stopped by then.
LEMMA Exhausted ==
    ASSUME NEW R \in [Nat -> SUBSET Blocks],
           \A k \in Nat : R[k] \subseteq R[k + 1],
           \A k \in Nat : R[k + 1] = R[k] => R[k + 2] = R[k + 1]
    PROVE  R[N + 1] = R[N]
<1> SUFFICES ASSUME R[N + 1] # R[N] PROVE FALSE
  OBVIOUS
<1>0. N \in Nat
  BY BlocksFinite
<1>1. ASSUME NEW k \in 0..N PROVE R[k + 1] # R[k]
  <2> SUFFICES ASSUME R[k + 1] = R[k] PROVE FALSE
    OBVIOUS
  <2> DEFINE T == {m \in Nat : R[k + m + 1] = R[k + m]}
  <2>1. 0 \in T
    BY <1>0
  <2>2. ASSUME NEW m \in Nat, m \in T PROVE m + 1 \in T
    <3>1. k + m \in Nat /\ k + (m + 1) = (k + m) + 1 /\ k + (m + 1) + 1 = (k + m) + 2
      BY <1>0
    <3> QED BY <2>2, <3>1
  <2> HIDE DEF T
  <2>3. Nat \subseteq T
    BY <2>1, <2>2, SetInduction
  <2>4. N - k \in Nat /\ k + (N - k) = N
    BY <1>0
  <2>5. R[k + (N - k) + 1] = R[k + (N - k)]
    BY <2>3, <2>4 DEF T
  <2> QED BY <2>4, <2>5
<1>2. \A k \in Nat : IsFiniteSet(R[k]) /\ Cardinality(R[k]) \in Nat
                    /\ Cardinality(R[k]) <= N
  <2> TAKE k \in Nat
  <2>1. R[k] \in SUBSET Blocks
    OBVIOUS
  <2> QED BY <2>1, BlocksFinite, FS_Subset, FS_CardinalityType
<1>3. ASSUME NEW k \in 0..N PROVE Cardinality(R[k]) < Cardinality(R[k + 1])
  <2>1. k \in Nat /\ k + 1 \in Nat
    BY <1>0
  <2>2. R[k] \in SUBSET R[k + 1]
    BY <2>1
  <2>3. /\ Cardinality(R[k]) <= Cardinality(R[k + 1])
        /\ Cardinality(R[k + 1]) = Cardinality(R[k]) => R[k + 1] = R[k]
    BY <1>2, <2>1, <2>2, FS_Subset
  <2> QED BY <1>1, <1>2, <2>1, <2>3
<1> DEFINE T == {k \in Nat : k <= N + 1 => Cardinality(R[k]) >= k}
<1>4. 0 \in T
  BY <1>2
<1>5. ASSUME NEW k \in Nat, k \in T PROVE k + 1 \in T
  <2> SUFFICES ASSUME k + 1 <= N + 1 PROVE Cardinality(R[k + 1]) >= k + 1
    OBVIOUS
  <2>1. k \in 0..N
    BY <1>0
  <2>2. Cardinality(R[k]) >= k /\ Cardinality(R[k]) < Cardinality(R[k + 1])
    BY <1>0, <1>3, <1>5, <2>1
  <2>3. Cardinality(R[k]) \in Nat /\ Cardinality(R[k + 1]) \in Nat
    BY <1>2
  <2> QED BY <2>2, <2>3
<1> HIDE DEF T
<1>6. Nat \subseteq T
  BY <1>4, <1>5, SetInduction
<1>7. N + 1 \in Nat
  BY <1>0
<1> QED BY <1>0, <1>2, <1>6, <1>7 DEF T

\* What one step adds.
Onward(out, X, B) == B \cup ((UNION {out[b] : b \in B}) \ X)
IsGraph(out) == out \in [Blocks -> SUBSET Blocks]

LEMMA OnwardType ==
    ASSUME NEW out, IsGraph(out), NEW X, NEW B \in SUBSET Blocks
    PROVE  Onward(out, X, B) \in SUBSET Blocks
BY DEF Onward, IsGraph

\* The recursive function behind Reach.
IsChain(R, out, S, X) ==
    /\ R \in [Nat -> SUBSET Blocks]
    /\ R[0] = S \ X
    /\ \A k \in Nat : R[k + 1] = Onward(out, X, R[k])
    /\ Reach(out, S, X) = R[N]
LEMMA ReachChain ==
    ASSUME NEW out, IsGraph(out), NEW S \in SUBSET Blocks, NEW X
    PROVE  \E R : IsChain(R, out, S, X)
<1> DEFINE F == [B \in SUBSET Blocks |-> Onward(out, X, B)]
           Def(R) == [k \in Nat |-> IF k = 0 THEN S \ X
                                   ELSE R[k - 1] \cup ((UNION {out[b] : b \in R[k - 1]}) \ X)]
           C == CHOOSE R : R = Def(R)
<1>1. F \in [SUBSET Blocks -> SUBSET Blocks]
  BY OnwardType
<1>2. S \ X \in SUBSET Blocks
  OBVIOUS
<1> HIDE DEF F
<1>31. PICK G : Repeats(G, SUBSET Blocks, S \ X, F)
  BY <1>1, <1>2, Iteration, Zenon
<1>3. /\ G \in [Nat -> SUBSET Blocks]
      /\ G[0] = S \ X /\ \A k \in Nat : G[k + 1] = F[G[k]]
  BY <1>31 DEF Repeats
<1>4. \A k \in Nat : F[G[k]] = Onward(out, X, G[k])
  BY <1>3 DEF F
<1>5. G = Def(G)
  <2>1. ASSUME NEW k \in Nat PROVE G[k] = Def(G)[k]
    <3>1. CASE k = 0
      BY <1>3, <3>1
    <3>2. CASE k # 0
      <4>1. k - 1 \in Nat /\ (k - 1) + 1 = k
        BY <3>2
      <4>2. G[k] = Onward(out, X, G[k - 1])
        BY <1>3, <1>4, <4>1
      <4> QED BY <3>2, <4>2 DEF Onward
    <3> QED BY <3>1, <3>2
  <2> HIDE DEF Def
  <2>2. G = [k \in Nat |-> G[k]] /\ Def(G) = [k \in Nat |-> Def(G)[k]]
    BY <1>3 DEF Def
  <2> QED BY <2>1, <2>2
<1>6. C = Def(C)
  <2> HIDE DEF Def
  <2> QED BY <1>5
<1>7. Reach(out, S, X) = C[N]
  BY DEF Reach
<1> HIDE DEF C
<1>8. C[0] = S \ X /\ \A k \in Nat : C[k + 1] = Onward(out, X, C[k])
  <2>1. C[0] = Def(C)[0]
    BY <1>6
  <2>2. ASSUME NEW k \in Nat PROVE C[k + 1] = Onward(out, X, C[k])
    <3>1. C[k + 1] = Def(C)[k + 1]
      BY <1>6
    <3>2. k + 1 \in Nat /\ k + 1 # 0 /\ (k + 1) - 1 = k
      OBVIOUS
    <3> QED BY <3>1, <3>2 DEF Onward
  <2> QED BY <2>1, <2>2
<1>9. C \in [Nat -> SUBSET Blocks]
  <2>1. DOMAIN C = Nat /\ C = [k \in Nat |-> C[k]]
    BY <1>6
  <2> DEFINE T == {k \in Nat : C[k] \in SUBSET Blocks}
  <2>2. 0 \in T
    BY <1>8
  <2>3. ASSUME NEW k \in Nat, k \in T PROVE k + 1 \in T
    BY <1>8, <2>3, OnwardType
  <2> HIDE DEF T
  <2>4. Nat \subseteq T
    BY <2>2, <2>3, SetInduction
  <2> HIDE DEF Def
  <2> QED BY <2>1, <2>4 DEF T
<1> QED BY <1>7, <1>8, <1>9 DEF IsChain

\* N steps are enough to close the set.
LEMMA ReachClosed ==
    ASSUME NEW out, IsGraph(out), NEW S \in SUBSET Blocks, NEW X
    PROVE  /\ S \ X \subseteq Reach(out, S, X)
           /\ Reach(out, S, X) \subseteq Blocks \ X
           /\ \A b \in Reach(out, S, X) : out[b] \ X \subseteq Reach(out, S, X)
<1>0. PICK R : IsChain(R, out, S, X)
  BY ReachChain
<1>1. /\ R \in [Nat -> SUBSET Blocks]
      /\ R[0] = S \ X
      /\ \A k \in Nat : R[k + 1] = Onward(out, X, R[k])
      /\ Reach(out, S, X) = R[N]
  BY <1>0 DEF IsChain
<1>2. \A k \in Nat : R[k] \subseteq R[k + 1]
  BY <1>1 DEF Onward
<1>3. \A k \in Nat : R[k + 1] = R[k] => R[k + 2] = R[k + 1]
  <2> TAKE k \in Nat
  <2>1. k + 1 \in Nat /\ (k + 1) + 1 = k + 2
    OBVIOUS
  <2>2. R[k + 2] = Onward(out, X, R[k + 1]) /\ R[k + 1] = Onward(out, X, R[k])
    BY <1>1, <2>1
  <2> QED BY <2>2
<1>4. N \in Nat
  BY BlocksFinite
<1>5. Onward(out, X, R[N]) = R[N]
  BY <1>1, <1>2, <1>3, <1>4, Exhausted
<1> DEFINE T == {k \in Nat : S \ X \subseteq R[k] /\ R[k] \cap X = {}}
<1>6. 0 \in T
  BY <1>1
<1>7. ASSUME NEW k \in Nat, k \in T PROVE k + 1 \in T
  BY <1>1, <1>7 DEF Onward
<1> HIDE DEF T
<1>8. Nat \subseteq T
  BY <1>6, <1>7, SetInduction
<1>9. S \ X \subseteq R[N] /\ R[N] \subseteq Blocks \ X
  BY <1>1, <1>4, <1>8 DEF T
<1>10. \A b \in R[N] : out[b] \ X \subseteq R[N]
  BY <1>5 DEF Onward
<1> QED BY <1>1, <1>9, <1>10

\* And they add nothing that has to be there.
LEMMA ReachLeast ==
    ASSUME NEW out, IsGraph(out), NEW S \in SUBSET Blocks, NEW X,
           NEW T, S \ X \subseteq T,
           \A b \in T \cap (Blocks \ X) : out[b] \ X \subseteq T
    PROVE  Reach(out, S, X) \subseteq T
<1>0. PICK R : IsChain(R, out, S, X)
  BY ReachChain
<1>1. /\ R \in [Nat -> SUBSET Blocks]
      /\ R[0] = S \ X
      /\ \A k \in Nat : R[k + 1] = Onward(out, X, R[k])
      /\ Reach(out, S, X) = R[N]
  BY <1>0 DEF IsChain
<1> DEFINE U == {k \in Nat : R[k] \subseteq T \cap (Blocks \ X)}
<1>2. 0 \in U
  BY <1>1
<1>3. ASSUME NEW k \in Nat, k \in U PROVE k + 1 \in U
  <2>1. R[k] \subseteq T \cap (Blocks \ X)
    BY <1>3
  <2>2. R[k + 1] = Onward(out, X, R[k])
    BY <1>1
  <2>3. ASSUME NEW c \in R[k + 1] PROVE c \in T \cap (Blocks \ X)
    <3>1. CASE c \in R[k]
      BY <2>1, <3>1
    <3>2. CASE c \notin R[k]
      <4>1. PICK b \in R[k] : c \in out[b] /\ c \notin X
        BY <2>2, <3>2 DEF Onward
      <4>2. out[b] \subseteq Blocks
        BY <2>1, <4>1 DEF IsGraph
      <4> QED BY <2>1, <4>1, <4>2
    <3> QED BY <3>1, <3>2
  <2> QED BY <2>3
<1> HIDE DEF U
<1>4. Nat \subseteq U
  BY <1>2, <1>3, SetInduction
<1> QED BY <1>1, <1>4, BlocksFinite DEF U

-----------------------------------------------------------------------------
(* Dominance.                                                              *)

\* A set that the paths around a cannot leave: what is outside is dominated.
LEMMA DominatesOutside ==
    ASSUME NEW out, IsGraph(out), NEW root \in Blocks, NEW a, NEW T,
           root # a => root \in T,
           \A x \in T \cap Blocks : \A y \in out[x] : x # a /\ y # a => y \in T,
           NEW b, b \notin T
    PROVE  Dominates(out, root, a, b)
<1>1. {root} \in SUBSET Blocks
  OBVIOUS
<1>2. {root} \ {a} \subseteq T
  OBVIOUS
<1>3. \A x \in T \cap (Blocks \ {a}) : out[x] \ {a} \subseteq T
  OBVIOUS
<1>4. Reach(out, {root}, {a}) \subseteq T
  BY <1>1, <1>2, <1>3, ReachLeast
<1> QED BY <1>4 DEF Dominates

\* Such a set are the blocks that are not dominated.
LEMMA Undominated ==
    ASSUME NEW out, IsGraph(out), NEW root \in Blocks, NEW a
    PROVE  /\ root # a => ~Dominates(out, root, a, root)
           /\ \A x \in Blocks : \A y \in out[x] :
                ~Dominates(out, root, a, x) /\ y # a => ~Dominates(out, root, a, y)
           /\ Dominates(out, root, a, a)
           /\ \A x : ~Dominates(out, root, a, x) => x \in Blocks
<1>1. {root} \in SUBSET Blocks
  OBVIOUS
<1>2. /\ {root} \ {a} \subseteq Reach(out, {root}, {a})
      /\ Reach(out, {root}, {a}) \subseteq Blocks \ {a}
      /\ \A x \in Reach(out, {root}, {a}) :
           out[x] \ {a} \subseteq Reach(out, {root}, {a})
  BY <1>1, ReachClosed, Zenon
<1> QED BY <1>2 DEF Dominates

LEMMA DominatesTrans ==
    ASSUME NEW out, IsGraph(out), NEW root \in Blocks,
           NEW a \in Blocks, NEW b \in Blocks, NEW c \in Blocks,
           Dominates(out, root, a, b), Dominates(out, root, b, c)
    PROVE  Dominates(out, root, a, c)
<1> DEFINE T == {x \in Blocks : ~Dominates(out, root, a, x) /\ ~Dominates(out, root, b, x)}
<1>1. root # a => root \in T
  BY Undominated
<1>2. \A x \in T \cap Blocks : \A y \in out[x] : x # a /\ y # a => y \in T
  <2> SUFFICES ASSUME NEW x \in T, NEW y \in out[x], y # a PROVE y \in T
    OBVIOUS
  <2>1. y \in Blocks
    BY DEF IsGraph
  <2>2. ~Dominates(out, root, a, y)
    BY Undominated
  <2>3. y # b
    BY <2>2
  <2> QED BY <2>1, <2>2, <2>3, Undominated
<1>3. c \notin T
  OBVIOUS
<1> HIDE DEF T
<1> QED BY <1>1, <1>2, <1>3, DominatesOutside

\* Graphs with a root from which every block is reached.
Connected(out, root) ==
    IsGraph(out) /\ root \in Blocks /\ Reach(out, {root}, {}) = Blocks

\* A set that has the root and is closed under the edges has all the blocks.
LEMMA ClosedIsAll ==
    ASSUME NEW out, NEW root, Connected(out, root), NEW T, root \in T,
           \A x \in T \cap Blocks : out[x] \subseteq T
    PROVE  Blocks \subseteq T
<1>1. /\ IsGraph(out) /\ {root} \in SUBSET Blocks
      /\ {root} \ {} \subseteq T
      /\ \A x \in T \cap (Blocks \ {}) : out[x] \ {} \subseteq T
      /\ Reach(out, {root}, {}) = Blocks
  BY DEF Connected
<1>2. Reach(out, {root}, {}) \subseteq T
  BY <1>1, ReachLeast, Zenon
<1> QED BY <1>1, <1>2

LEMMA RootDominates ==
    ASSUME NEW out, IsGraph(out), NEW root \in Blocks, NEW b
    PROVE  Dominates(out, root, root, b)
<1> DEFINE T == {}
<1>1. /\ root # root => root \in T
      /\ \A x \in T \cap Blocks : \A y \in out[x] : x # root /\ y # root => y \in T
      /\ b \notin T
  OBVIOUS
<1> HIDE DEF T
<1> QED BY <1>1, DominatesOutside

LEMMA DominatesAntisym ==
    ASSUME NEW out, NEW root, Connected(out, root),
           NEW a \in Blocks, NEW b \in Blocks,
           Dominates(out, root, a, b), Dominates(out, root, b, a)
    PROVE  a = b
<1> SUFFICES ASSUME a # b PROVE FALSE
  OBVIOUS
<1> DEFINE T == {x \in Blocks : ~Dominates(out, root, a, x) /\ ~Dominates(out, root, b, x)}
<1>0. IsGraph(out) /\ root \in Blocks
  BY DEF Connected
<1>1. root \in T
  BY <1>0, Undominated
<1>2. ASSUME NEW x \in T, NEW y \in out[x] PROVE y \in T
  <2>1. y \in Blocks
    BY <1>0 DEF IsGraph
  <2> QED BY <1>0, <2>1, Undominated
<1>3. a \notin T
  BY <1>0, Undominated
<1> HIDE DEF T
<1>4. Blocks \subseteq T
  BY <1>1, <1>2, ClosedIsAll
<1> QED BY <1>3, <1>4

\* The dominators of a block are ordered.
LEMMA DominatesOrder ==
    ASSUME NEW out, NEW root, Connected(out, root),
           NEW a \in Blocks, NEW c \in Blocks, NEW b \in Blocks,
           Dominates(out, root, a, b), Dominates(out, root, c, b)
    PROVE  Dominates(out, root, a, c) \/ Dominates(out, root, c, a)
<1> SUFFICES ASSUME ~Dominates(out, root, a, c), ~Dominates(out, root, c, a)
             PROVE  FALSE
  OBVIOUS
<1> DEFINE T == {x \in Blocks : ~Dominates(out, root, a, x) \/ ~Dominates(out, root, c, x)}
<1>0. IsGraph(out) /\ root \in Blocks
  BY DEF Connected
<1>1. root \in T
  <2>1. root # a
    BY <1>0, RootDominates
  <2> QED BY <1>0, <2>1, Undominated
<1>2. ASSUME NEW x \in T, NEW y \in out[x] PROVE y \in T
  <2>1. y \in Blocks
    BY <1>0 DEF IsGraph
  <2> QED BY <1>0, <2>1, Undominated
<1>3. b \notin T
  OBVIOUS
<1> HIDE DEF T
<1>4. Blocks \subseteq T
  BY <1>1, <1>2, ClosedIsAll
<1> QED BY <1>3, <1>4

\* Every block but the root has an immediate dominator, and only one: of its
\* strict dominators, the one that most of them dominate.
LEMMA IdomExists ==
    ASSUME NEW out, NEW root, Connected(out, root), NEW b \in Blocks, b # root
    PROVE  \E a \in Blocks : IsIdom(out, root, a, b)
<1> DEFINE D == StrictDoms(out, root, b)
           E(a) == {c \in D : Dominates(out, root, c, a)}
           R == {N - Cardinality(E(a)) : a \in D}
<1>0. IsGraph(out) /\ root \in Blocks /\ IsFiniteSet(Blocks)
      /\ Cardinality(Blocks) = N /\ N \in Nat
  BY BlocksFinite DEF Connected
<1>1. D \subseteq Blocks /\ root \in D
  BY <1>0, RootDominates DEF StrictDoms
<1>2. \A a \in D : /\ IsFiniteSet(E(a)) /\ Cardinality(E(a)) \in Nat
                  /\ Cardinality(E(a)) <= N
  <2> TAKE a \in D
  <2>1. E(a) \in SUBSET Blocks
    BY <1>1
  <2> QED BY <1>0, <2>1, FS_Subset, FS_CardinalityType
<1>3. R \subseteq Nat /\ R # {}
  <2> HIDE DEF E, D
  <2>1. \A a \in D : N - Cardinality(E(a)) \in Nat
    BY <1>0, <1>2
  <2> QED BY <1>1, <2>1
<1>4. PICK n \in R : \A m \in R : n <= m
  BY <1>3, LeastNat
<1>5. PICK a \in D : n = N - Cardinality(E(a))
  BY <1>4
<1>6. ASSUME NEW c \in D, ~Dominates(out, root, c, a) PROVE FALSE
  <2>1. Dominates(out, root, a, c)
    <3>1. Dominates(out, root, a, b) /\ Dominates(out, root, c, b)
      BY DEF StrictDoms
    <3> QED BY <1>1, <1>6, <3>1, DominatesOrder
  <2>2. E(a) \subseteq E(c)
    <3> SUFFICES ASSUME NEW d \in E(a) PROVE Dominates(out, root, d, c)
      OBVIOUS
    <3>1. d \in Blocks /\ Dominates(out, root, d, a)
      BY <1>1
    <3> QED BY <1>0, <1>1, <2>1, <3>1, DominatesTrans
  <2>3. c \in E(c) /\ c \notin E(a)
    BY <1>0, <1>6, Undominated
  <2>4. Cardinality(E(a)) < Cardinality(E(c))
    <3>1. E(a) \in SUBSET E(c) /\ E(a) # E(c) /\ IsFiniteSet(E(c))
      BY <1>2, <2>2, <2>3
    <3> HIDE DEF E
    <3>2. /\ Cardinality(E(a)) <= Cardinality(E(c))
          /\ Cardinality(E(c)) = Cardinality(E(a)) => E(a) = E(c)
      BY <3>1, FS_Subset
    <3> QED BY <1>2, <3>1, <3>2
  <2>5. N - Cardinality(E(c)) \in R
    OBVIOUS
  <2>6. n <= N - Cardinality(E(c))
    BY <1>4, <2>5
  <2> QED BY <1>0, <1>2, <1>5, <2>4, <2>6
<1> QED BY <1>1, <1>5, <1>6 DEF IsIdom

LEMMA IdomUnique ==
    ASSUME NEW out, NEW root, Connected(out, root),
           NEW b \in Blocks, NEW a, NEW c,
           IsIdom(out, root, a, b), IsIdom(out, root, c, b)
    PROVE  a = c
BY DominatesAntisym DEF IsIdom, StrictDoms

\* Both directions of a graph of the parser have a root.
LEMMA FlowRooted ==
    ASSUME NEW out \in FlowGraphs
    PROVE  /\ IsGraph(out)
           /\ Reach(out, {entry}, {}) = Blocks
           /\ Reach(Transpose(out), {exit}, {}) = Blocks
           /\ \A p \in Blocks : entry \notin out[p]
           /\ out[exit] = {}
<1>1. PICK f \in [Blocks \ {exit} -> Shapes] :
        out = [b \in Blocks |-> IF b = exit THEN {} ELSE f[b]]
  BY DEF FlowGraphs
<1>2. \A b \in Blocks \ {exit} : f[b] \subseteq Blocks \ {entry}
  BY DEF Shapes
<1>3. exit \in Blocks
  BY BlocksFinite
<1>4. IsGraph(out) /\ out[exit] = {} /\ \A p \in Blocks : entry \notin out[p]
  BY <1>1, <1>2, <1>3 DEF IsGraph
<1> QED BY <1>4 DEF FlowGraphs
=============================================================================
