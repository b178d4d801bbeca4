------------------------------ MODULE SsaProofs ------------------------------
(***************************************************************************)
(* Static single assignment form, for every number of blocks: what         *)
(* rename.stack holds, that a version has one definition which dominates   *)
(* its uses, and that a phi has an operand for each edge.                  *)
(***************************************************************************)
EXTENDS Ssa, FlowGraphProofs, SequenceTheorems

-----------------------------------------------------------------------------
(* The dominator tree.                                                     *)

\* Going down from the root comes to every block: where it would not, the
\* block with the fewest dominators has a parent with still fewer.
LEMMA TreeSpans ==
    ASSUME NEW g, NEW root, Connected(g, root), NEW T, root \in T,
           \A a \in T \cap Blocks : \A b \in Blocks \ {root} :
              IsIdom(g, root, a, b) => b \in T
    PROVE  Blocks \subseteq T
<1> DEFINE Size(b) == Cardinality(StrictDoms(g, root, b))
           S == {Size(b) : b \in Blocks \ T}
<1> SUFFICES ASSUME Blocks \ T # {} PROVE FALSE
  OBVIOUS
<1>0. IsGraph(g) /\ root \in Blocks /\ IsFiniteSet(Blocks)
  BY BlocksFinite DEF Connected
<1>1. \A b \in Blocks : IsFiniteSet(StrictDoms(g, root, b)) /\ Size(b) \in Nat
  <2> TAKE b \in Blocks
  <2>1. StrictDoms(g, root, b) \in SUBSET Blocks
    BY DEF StrictDoms
  <2> QED BY <1>0, <2>1, FS_Subset, FS_CardinalityType
<1>2. S \subseteq Nat /\ S # {}
  BY <1>1
<1>3. PICK n \in S : \A m \in S : n <= m
  BY <1>2, LeastNat
<1>4. PICK b \in Blocks \ T : n = Size(b)
  BY <1>3
<1>5. PICK a \in Blocks : IsIdom(g, root, a, b)
  BY <1>4, IdomExists
<1>6. a \in StrictDoms(g, root, b) /\ Dominates(g, root, a, b) /\ a # b
  BY <1>5 DEF IsIdom, StrictDoms
<1>7. StrictDoms(g, root, a) \subseteq StrictDoms(g, root, b) \ {a}
  <2> SUFFICES ASSUME NEW c \in StrictDoms(g, root, a)
               PROVE  c \in StrictDoms(g, root, b) /\ c # a
    OBVIOUS
  <2>1. c \in Blocks /\ c # a /\ Dominates(g, root, c, a)
    BY DEF StrictDoms
  <2>2. Dominates(g, root, c, b)
    BY <1>0, <1>6, <2>1, DominatesTrans
  <2>3. c # b
    BY <1>6, <2>1, DominatesAntisym
  <2> QED BY <2>1, <2>2, <2>3 DEF StrictDoms
<1>8. Size(a) < Size(b)
  <2> DEFINE A == StrictDoms(g, root, a)
             B == StrictDoms(g, root, b)
  <2>1. /\ A \in SUBSET B /\ A # B /\ IsFiniteSet(B)
        /\ Cardinality(A) \in Nat /\ Cardinality(B) \in Nat
    BY <1>1, <1>6, <1>7
  <2> HIDE DEF A, B
  <2>2. Cardinality(A) <= Cardinality(B) /\ (Cardinality(A) = Cardinality(B) => A = B)
    BY <2>1, FS_Subset
  <2>3. Cardinality(A) < Cardinality(B)
    BY <2>1, <2>2
  <2> QED BY <2>3 DEF A, B
<1>9. a \in T
  <2> SUFFICES ASSUME a \notin T PROVE FALSE
    OBVIOUS
  <2>1. Size(a) \in S
    OBVIOUS
  <2> HIDE DEF Size
  <2> QED BY <1>1, <1>3, <1>4, <1>8, <2>1
<1>10. b # root
  BY <1>4
<1> QED BY <1>4, <1>5, <1>9, <1>10

\* Above a block are its parent and what is above that.
LEMMA AboveChild ==
    ASSUME NEW g, NEW root, Connected(g, root), NEW a \in Blocks, NEW b \in Blocks,
           IsIdom(g, root, a, b)
    PROVE  {x \in Blocks : Dominates(g, root, x, b)}
             = {x \in Blocks : Dominates(g, root, x, a)} \cup {b}
<1>0. IsGraph(g) /\ root \in Blocks
  BY DEF Connected
<1>1. Dominates(g, root, a, b) /\ Dominates(g, root, b, b)
  BY <1>0, Undominated DEF IsIdom, StrictDoms
<1>2. ASSUME NEW x \in Blocks, Dominates(g, root, x, b), x # b
      PROVE  Dominates(g, root, x, a)
  BY <1>2 DEF IsIdom, StrictDoms
<1>3. ASSUME NEW x \in Blocks, Dominates(g, root, x, a) PROVE Dominates(g, root, x, b)
  BY <1>0, <1>1, <1>3, DominatesTrans
<1> QED BY <1>1, <1>2, <1>3

LEMMA AboveRoot ==
    ASSUME NEW g, NEW root, Connected(g, root)
    PROVE  {x \in Blocks : Dominates(g, root, x, root)} = {root}
<1>0. IsGraph(g) /\ root \in Blocks
  BY DEF Connected
<1> QED BY <1>0, Undominated

-----------------------------------------------------------------------------
(* Counting the assignments of a block.                                    *)

Assigning(s, n) == {m \in 1..(n - 1) : s[m].rd # NoVar}
Count(s, n) == Cardinality(Assigning(s, n))

LEMMA CountStep ==
    ASSUME NEW s
    PROVE  /\ Count(s, 1) = 0
           /\ \A n \in Nat \ {0} :
                /\ IsFiniteSet(Assigning(s, n)) /\ Count(s, n) \in Nat
                /\ Count(s, n + 1) = IF s[n].rd # NoVar THEN Count(s, n) + 1
                                     ELSE Count(s, n)
<1>1. Count(s, 1) = 0
  <2>1. Assigning(s, 1) = {}
    BY DEF Assigning
  <2> QED BY <2>1, FS_EmptySet DEF Count
<1>2. ASSUME NEW n \in Nat \ {0}
      PROVE  IsFiniteSet(Assigning(s, n)) /\ Count(s, n) \in Nat
  <2>1. 1 \in Int /\ n - 1 \in Int /\ Assigning(s, n) \in SUBSET (1..(n - 1))
    BY DEF Assigning
  <2>2. IsFiniteSet(1..(n - 1))
    BY <2>1, FS_Interval
  <2> QED BY <2>1, <2>2, FS_Subset, FS_CardinalityType DEF Count
<1>3. ASSUME NEW n \in Nat \ {0}
      PROVE  Count(s, n + 1) = IF s[n].rd # NoVar THEN Count(s, n) + 1
                               ELSE Count(s, n)
  <2>1. 1..((n + 1) - 1) = (1..(n - 1)) \cup {n} /\ n \notin 1..(n - 1)
    OBVIOUS
  <2>2. CASE s[n].rd # NoVar
    <3>1. Assigning(s, n + 1) = Assigning(s, n) \cup {n} /\ n \notin Assigning(s, n)
      BY <2>1, <2>2 DEF Assigning
    <3>2. Cardinality(Assigning(s, n) \cup {n}) = Cardinality(Assigning(s, n)) + 1
      BY <1>2, <3>1, FS_AddElement
    <3> QED BY <2>2, <3>1, <3>2 DEF Count
  <2>3. CASE ~(s[n].rd # NoVar)
    <3>1. Assigning(s, n + 1) = Assigning(s, n)
      BY <2>1, <2>3 DEF Assigning
    <3> QED BY <2>3, <3>1 DEF Count
  <2> QED BY <2>2, <2>3
<1> QED BY <1>1, <1>2, <1>3

\* The assignments before n are numbered from 0 on, and each number is taken.
LEMMA CountOnto ==
    ASSUME NEW s, NEW n \in Nat \ {0}
    PROVE  /\ \A m \in 1..(n - 1) : s[m].rd # NoVar => Count(s, m) < Count(s, n)
           /\ \A i \in Nat : i < Count(s, n) =>
                \E m \in 1..(n - 1) : s[m].rd # NoVar /\ Count(s, m) = i
<1> DEFINE P(k) ==
             /\ \A m \in 1..k : s[m].rd # NoVar => Count(s, m) < Count(s, k + 1)
             /\ \A i \in Nat : i < Count(s, k + 1) =>
                  \E m \in 1..k : s[m].rd # NoVar /\ Count(s, m) = i
           T == {k \in Nat : P(k)}
<1>0. /\ Count(s, 1) = 0
      /\ \A k \in Nat \ {0} : /\ Count(s, k) \in Nat
                             /\ Count(s, k + 1) = IF s[k].rd # NoVar THEN Count(s, k) + 1
                                                  ELSE Count(s, k)
  BY CountStep
<1>1. 0 \in T
  <2>1. 0 + 1 = 1 /\ 1..0 = {} /\ \A i \in Nat : ~(i < 0)
    OBVIOUS
  <2> QED BY <1>0, <2>1
<1>2. ASSUME NEW k \in Nat, k \in T PROVE k + 1 \in T
  <2> DEFINE l == k + 1
             c == Count(s, l)
             d == Count(s, l + 1)
  <2>0. P(k)
    BY <1>2
  <2>1. /\ l \in Nat \ {0} /\ c \in Nat
        /\ d = IF s[l].rd # NoVar THEN c + 1 ELSE c
        /\ \A m \in 1..l : m \in 1..k \/ m = l
        /\ \A m \in 1..k : m \in 1..l /\ Count(s, m) \in Nat
    BY <1>0
  <2>2. ASSUME NEW m \in 1..l, s[m].rd # NoVar PROVE Count(s, m) < d
    <3>1. CASE m = l
      BY <2>1, <2>2, <3>1
    <3>2. CASE m # l
      <4>1. m \in 1..k /\ Count(s, m) < c /\ Count(s, m) \in Nat
        BY <2>0, <2>1, <2>2, <3>2
      <4> HIDE DEF c, d
      <4> QED BY <2>1, <4>1
    <3> QED BY <3>1, <3>2
  <2>3. ASSUME NEW i \in Nat, i < d
        PROVE  \E m \in 1..l : s[m].rd # NoVar /\ Count(s, m) = i
    <3>1. CASE i < c
      BY <2>0, <2>1, <3>1
    <3>2. CASE ~(i < c)
      <4>1. s[l].rd # NoVar /\ i = c /\ l \in 1..l
        <5> HIDE DEF c, d
        <5> QED BY <2>1, <2>3, <3>2
      <4> QED BY <4>1
    <3> QED BY <3>1, <3>2
  <2> HIDE DEF c, d
  <2>4. P(l)
    BY <2>2, <2>3 DEF d
  <2> QED BY <2>1, <2>4
<1> HIDE DEF T, P
<1>3. Nat \subseteq T
  BY <1>1, <1>2, SetInduction
<1>4. n - 1 \in Nat /\ (n - 1) + 1 = n
  OBVIOUS
<1>5. P(n - 1)
  BY <1>3, <1>4 DEF T
<1> QED BY <1>4, <1>5 DEF P

-----------------------------------------------------------------------------
(* Renaming one block.                                                     *)

Subscripts == Nat \cup {NoVar, Base}
Insns == [op : {"insn", "allocat", "branch", "phi"}, rd : Subscripts, rs : Subscripts]
Raw == {i \in Insns : /\ i.rd \in {NoVar, Base} /\ i.rs \in {NoVar, Base}
                      /\ i.op = "phi" => i.rd # NoVar}
Vers(s) == {s[n].rd : n \in 1..Len(s)} \ {NoVar, Base}

LEMMA AllAssignedIs ==
    ASSUME NEW b, NEW S, code[b] \in Seq(S)
    PROVE  /\ AllAssigned(b) \in Nat
           /\ AllAssigned(b) = IF kind = "global" THEN 0
                               ELSE Count(code[b], Len(code[b]) + 1)
<1>1. Len(code[b]) + 1 \in Nat \ {0}
  OBVIOUS
<1>2. Count(code[b], Len(code[b]) + 1) \in Nat
  BY <1>1, CountStep
<1> QED BY <1>2 DEF AllAssigned, Assigned, Count, Assigning

IsRenamed(r, s, b) ==
    /\ r \in Seq(Insns) /\ Len(r) = Len(s)
    /\ \A n \in 1..Len(s) : r[n].op = s[n].op /\ (r[n].rd = NoVar <=> s[n].rd = NoVar)
    /\ Vers(r) = counter..(counter + AllAssigned(b) - 1)
    /\ \A n \in 1..Len(s) :
         \/ r[n].rs \in {NoVar, Base}
         \/ \E m \in 1..(n - 1) : r[m].rd = r[n].rs
         \/ \E m \in 1..Len(stack) : r[n].rs = stack[m]

IsPushed(u, b) ==
    /\ u \in Seq(Nat) /\ Len(u) = Len(stack) + AllAssigned(b)
    /\ \A n \in 1..Len(stack) : u[n] = stack[n]
    /\ \A n \in 1..AllAssigned(b) : u[Len(stack) + n] = counter + n - 1
LEMMA PushedIs ==
    ASSUME NEW b, NEW S, code[b] \in Seq(S), stack \in Seq(Nat), counter \in Nat
    PROVE  IsPushed(Pushed(b), b)
<1> DEFINE a == AllAssigned(b)
           t == [n \in 1..a |-> counter + n - 1]
<1>1. a \in Nat
  BY AllAssignedIs
<1> HIDE DEF a
<1>2. t \in Seq(Nat) /\ Len(t) = a /\ \A n \in 1..a : t[n] = counter + n - 1
  <2>1. \A n \in 1..a : counter + n - 1 \in Nat
    BY <1>1
  <2>2. t \in [1..a -> Nat]
    BY <2>1
  <2>3. t \in Seq(Nat) /\ Len(t) = a
    BY <1>1, <2>2
  <2> QED BY <2>3
<1>3. Pushed(b) = stack \o t
  BY DEF Pushed, a
<1> HIDE DEF t
<1>4. /\ stack \o t \in Seq(Nat) /\ Len(stack \o t) = Len(stack) + a
      /\ \A n \in 1..(Len(stack) + a) :
           (stack \o t)[n] = IF n <= Len(stack) THEN stack[n] ELSE t[n - Len(stack)]
      /\ Len(stack) \in Nat
  <2>1. t \in Seq(Nat) /\ stack \in Seq(Nat)
    BY <1>2
  <2>2. /\ stack \o t \in Seq(Nat) /\ Len(stack \o t) = Len(stack) + Len(t)
        /\ \A n \in 1..(Len(stack) + Len(t)) :
             (stack \o t)[n] = IF n <= Len(stack) THEN stack[n] ELSE t[n - Len(stack)]
    BY <2>1, ConcatProperties
  <2>3. Len(t) = a /\ Len(stack) \in Nat
    BY <1>2
  <2> QED BY <2>2, <2>3, Zenon
<1>5. \A n \in 1..Len(stack) : n \in 1..(Len(stack) + a) /\ n <= Len(stack)
  BY <1>1, <1>4
<1>6. \A n \in 1..a : /\ Len(stack) + n \in 1..(Len(stack) + a)
                     /\ ~(Len(stack) + n <= Len(stack))
                     /\ (Len(stack) + n) - Len(stack) = n
  BY <1>1, <1>4
<1>7. \A n \in 1..a : (stack \o t)[Len(stack) + n] = counter + n - 1
  BY <1>2, <1>4, <1>6
<1> QED BY <1>3, <1>4, <1>5, <1>7 DEF IsPushed, a

LEMMA RenamedIs ==
    ASSUME NEW b, code[b] \in Seq(Raw), stack \in Seq(Nat), counter \in Nat
    PROVE  IsRenamed(Renamed(b), code[b], b)
<1> DEFINE s == code[b]
           r == Renamed(b)
           h == Len(stack)
           a == AllAssigned(b)
<1>1. /\ s \in Seq(Raw) /\ Len(s) \in Nat /\ h \in Nat /\ counter \in Nat
      /\ \A n \in 1..Len(s) : s[n] \in Raw
  OBVIOUS
<1>2. a \in Nat /\ a = IF kind = "global" THEN 0 ELSE Count(s, Len(s) + 1)
  BY AllAssignedIs
<1>3. \A n \in Nat \ {0} : Count(s, n) \in Nat
  BY CountStep
<1>4. NoVar \notin Nat /\ Base \notin Nat /\ NoVar # Base
  BY DEF NoVar, Base
<1>5. CASE kind = "global"
  <2>1. r = [n \in 1..Len(s) |-> s[n]]
    BY <1>5 DEF Renamed
  <2>2. r = s
    BY <1>1, <2>1
  <2>3. Vers(s) = {}
    BY <1>1 DEF Vers, Raw
  <2>4. counter..(counter + a - 1) = {}
    BY <1>1, <1>2, <1>5
  <2>5. s \in Seq(Insns) /\ \A n \in 1..Len(s) : s[n].rs \in {NoVar, Base}
    BY <1>1 DEF Raw
  <2> QED BY <2>2, <2>3, <2>4, <2>5 DEF IsRenamed
<1>6. CASE kind # "global"
  <2> DEFINE u(n) == SubSeq(Pushed(b), 1, h + Count(s, n))
  <2>1. r = [n \in 1..Len(s) |->
               [s[n] EXCEPT !.rs = IF @ = NoVar THEN NoVar ELSE Top(u(n), Base),
                            !.rd = IF @ = NoVar THEN NoVar ELSE counter + Count(s, n)]]
    BY <1>6 DEF Renamed, Assigned, Count, Assigning
  <2>2. IsPushed(Pushed(b), b)
    BY PushedIs
  <2>3. /\ Pushed(b) \in Seq(Nat) /\ Len(Pushed(b)) = h + a
        /\ \A n \in 1..h : Pushed(b)[n] = stack[n]
        /\ \A n \in 1..a : Pushed(b)[h + n] = counter + n - 1
    BY <2>2 DEF IsPushed
  <2>4. ASSUME NEW n \in 1..Len(s)
        PROVE  /\ Count(s, n) \in Nat /\ Count(s, n) <= a
               /\ s[n].rd # NoVar => Count(s, n) < a
               /\ n \in Nat \ {0}
    <3>1. n \in Nat \ {0} /\ Len(s) + 1 \in Nat \ {0} /\ (Len(s) + 1) - 1 = Len(s)
      BY <1>1
    <3>2. /\ Count(s, n) \in Nat
          /\ s[n].rd # NoVar => Count(s, n) < Count(s, Len(s) + 1)
      BY <1>3, <3>1, CountOnto
    <3>3. Count(s, n) <= Count(s, Len(s) + 1)
      <4>1. Assigning(s, n) \in SUBSET Assigning(s, Len(s) + 1)
        BY <3>1 DEF Assigning
      <4> QED BY <3>1, <4>1, CountStep, FS_Subset DEF Count
    <3> QED BY <1>2, <1>6, <3>1, <3>2, <3>3
  <2>5. ASSUME NEW n \in 1..Len(s)
        PROVE  \/ Top(u(n), Base) = Base /\ h + Count(s, n) = 0
               \/ Count(s, n) > 0 /\ Top(u(n), Base) = counter + Count(s, n) - 1
               \/ Count(s, n) = 0 /\ h > 0 /\ Top(u(n), Base) = stack[h]
    <3> DEFINE c == Count(s, n)
    <3>1. /\ 1 \in Int /\ h + c \in Int /\ c \in Nat /\ c <= a
          /\ \A k \in 1..(h + c) : Pushed(b)[k] \in Nat
      <4>1. c \in Nat /\ c <= a
        BY <2>4
      <4> HIDE DEF c
      <4>2. \A k \in 1..(h + c) : k \in 1..Len(Pushed(b))
        BY <1>1, <1>2, <2>3, <4>1
      <4> QED BY <1>1, <2>3, <4>1, <4>2
    <3> HIDE DEF c, h, a
    <3> DEFINE L == h + c
               P == Pushed(b)
               w == SubSeq(P, 1, L)
    <3>20. ASSUME L \in Int, 1 \in Int, \A k \in 1..L : P[k] \in Nat
           PROVE  /\ w \in Seq(Nat) /\ Len(w) = IF 1 <= L THEN L - 1 + 1 ELSE 0
                  /\ \A k \in 1..(L - 1 + 1) : w[k] = P[1 + k - 1]
      <4> HIDE DEF L, P
      <4> QED BY <3>20, SubSeqProperties
    <3> HIDE DEF w, P
    <3>2. /\ w \in Seq(Nat) /\ Len(w) = IF 1 <= L THEN L - 1 + 1 ELSE 0
          /\ \A k \in 1..(L - 1 + 1) : w[k] = P[1 + k - 1]
      <4>1. L \in Int /\ 1 \in Int /\ \A k \in 1..L : P[k] \in Nat
        BY <3>1 DEF P
      <4> HIDE DEF L
      <4> QED BY <3>20, <4>1
    <3>3. /\ Len(w) = h + c /\ h + c - 1 + 1 = h + c /\ \A k \in 1..(h + c) : 1 + k - 1 = k
          /\ h \in Nat
      BY <1>1, <3>1, <3>2 DEF h
    <3>4. \A k \in 1..(h + c) : w[k] = Pushed(b)[k]
      BY <3>2, <3>3 DEF P
    <3>5. Top(u(n), Base) = IF w = << >> THEN Base ELSE w[Len(w)]
      BY DEF Top, w, c, P
    <3>6. CASE h + c = 0
      <4>1. w = << >>
        BY <3>2, <3>3, <3>6
      <4> QED BY <3>5, <3>6, <4>1 DEF c
    <3>7. CASE h + c # 0 /\ c > 0
      <4>1. w # << >> /\ Len(w) \in 1..(h + c) /\ Len(w) = h + c
        BY <3>1, <3>3, <3>7
      <4>2. c \in 1..a
        BY <1>2, <3>1, <3>7 DEF a
      <4>3. w[Len(w)] = counter + c - 1
        BY <2>3, <3>4, <4>1, <4>2 DEF h, a
      <4> QED BY <3>5, <3>7, <4>1, <4>3 DEF c
    <3>8. CASE c = 0 /\ h + c # 0
      <4>1. w # << >> /\ Len(w) \in 1..(h + c) /\ Len(w) = h /\ h > 0 /\ h \in 1..h
        BY <3>1, <3>3, <3>8
      <4>2. w[Len(w)] = stack[h]
        BY <2>3, <3>4, <4>1 DEF h
      <4> QED BY <3>5, <3>8, <4>1, <4>2 DEF c
    <3> QED BY <3>1, <3>3, <3>6, <3>7, <3>8
  <2> HIDE DEF u
  <2>6. ASSUME NEW n \in 1..Len(s)
        PROVE  /\ r[n].op = s[n].op
               /\ r[n].rd = IF s[n].rd = NoVar THEN NoVar ELSE counter + Count(s, n)
               /\ r[n].rs = IF s[n].rs = NoVar THEN NoVar ELSE Top(u(n), Base)
    <3>1. s[n] \in Raw /\ s[n] = [op |-> s[n].op, rd |-> s[n].rd, rs |-> s[n].rs]
      BY <1>1 DEF Raw, Insns
    <3>2. r[n] = [s[n] EXCEPT !.rs = IF @ = NoVar THEN NoVar ELSE Top(u(n), Base),
                              !.rd = IF @ = NoVar THEN NoVar ELSE counter + Count(s, n)]
      BY <2>1
    <3> HIDE DEF r
    <3> QED BY <3>1, <3>2
  <2>7. ASSUME NEW n \in 1..Len(s)
        PROVE  /\ r[n].rd \in Subscripts /\ r[n].rs \in Subscripts
    <3>1. counter + Count(s, n) \in Nat
      BY <1>1, <2>4
    <3>2. Top(u(n), Base) \in Subscripts
      <4>1. CASE Top(u(n), Base) = Base
        BY <4>1 DEF Subscripts
      <4>2. CASE Count(s, n) > 0 /\ Top(u(n), Base) = counter + Count(s, n) - 1
        <5>1. counter + Count(s, n) - 1 \in Nat
          BY <1>1, <2>4, <4>2
        <5> QED BY <4>2, <5>1 DEF Subscripts
      <4>3. CASE h > 0 /\ Top(u(n), Base) = stack[h]
        <5>1. stack[h] \in Nat
          BY <1>1, <4>3
        <5> QED BY <4>3, <5>1 DEF Subscripts
      <4> QED BY <2>5, <4>1, <4>2, <4>3
    <3> QED BY <2>6, <3>1, <3>2 DEF Subscripts
  <2>8. r \in Seq(Insns) /\ Len(r) = Len(s)
    <3>1. r = [n \in 1..Len(s) |-> r[n]]
      BY <2>1
    <3>2. ASSUME NEW n \in 1..Len(s) PROVE r[n] \in Insns
      <4>1. s[n] \in Raw
        BY <1>1
      <4>2. r[n] = [op |-> r[n].op, rd |-> r[n].rd, rs |-> r[n].rs]
        BY <2>1, <4>1 DEF Raw, Insns
      <4>3. r[n].op \in {"insn", "allocat", "branch", "phi"}
        BY <2>6, <4>1 DEF Raw, Insns
      <4> HIDE DEF r
      <4> QED BY <2>7, <4>2, <4>3 DEF Insns
    <3> HIDE DEF r, s
    <3>3. r \in [1..Len(s) -> Insns] /\ Len(s) \in Nat
      BY <1>1, <3>1, <3>2
    <3> QED BY <3>3
  <2> HIDE DEF r
  <2>9. Vers(r) = counter..(counter + a - 1)
    <3>1. ASSUME NEW v \in Vers(r) PROVE v \in counter..(counter + a - 1)
      <4>1. PICK n \in 1..Len(s) : v = r[n].rd /\ v # NoVar
        BY <2>8 DEF Vers
      <4>2. v = counter + Count(s, n) /\ Count(s, n) < a /\ Count(s, n) \in Nat
        BY <2>4, <2>6, <4>1
      <4> HIDE DEF a
      <4> QED BY <1>1, <1>2, <4>2 DEF a
    <3>2. ASSUME NEW v \in counter..(counter + a - 1) PROVE v \in Vers(r)
      <4> DEFINE i == v - counter
                 l == Len(s) + 1
      <4>1. i \in Nat /\ i < Count(s, l)
        BY <1>1, <1>2, <1>6
      <4>2. l \in Nat \ {0} /\ l - 1 = Len(s)
        BY <1>1
      <4> HIDE DEF i, l, s
      <4>30. \E n \in 1..(l - 1) : s[n].rd # NoVar /\ Count(s, n) = i
        BY <4>1, <4>2, CountOnto
      <4> USE DEF i
      <4>3. PICK n \in 1..Len(s) : s[n].rd # NoVar /\ Count(s, n) = v - counter
        BY <4>2, <4>30
      <4>4. r[n].rd = v
        BY <1>1, <2>6, <4>3
      <4>5. v \notin {NoVar, Base}
        BY <1>1 DEF NoVar, Base
      <4> QED BY <2>8, <4>4, <4>5 DEF Vers
    <3> QED BY <3>1, <3>2
  <2>10. ASSUME NEW n \in 1..Len(s)
         PROVE  \/ r[n].rs \in {NoVar, Base}
                \/ \E m \in 1..(n - 1) : r[m].rd = r[n].rs
                \/ \E m \in 1..h : r[n].rs = stack[m]
    <3>1. CASE Count(s, n) > 0 /\ r[n].rs = counter + Count(s, n) - 1
      <4>1. Count(s, n) - 1 \in Nat /\ Count(s, n) - 1 < Count(s, n) /\ n \in Nat \ {0}
        BY <2>4, <3>1
      <4>2. PICK m \in 1..(n - 1) : s[m].rd # NoVar /\ Count(s, m) = Count(s, n) - 1
        BY <4>1, CountOnto
      <4>3. m \in 1..Len(s)
        BY <1>1
      <4>4. r[m].rd = counter + (Count(s, n) - 1)
        BY <2>6, <4>2, <4>3
      <4>5. counter + (Count(s, n) - 1) = counter + Count(s, n) - 1
        BY <1>1, <2>4
      <4> QED BY <3>1, <4>4, <4>5
    <3>2. CASE h > 0 /\ r[n].rs = stack[h]
      <4>1. h \in 1..h
        BY <1>1, <3>2
      <4> QED BY <3>2, <4>1
    <3>3. CASE r[n].rs \in {NoVar, Base}
      BY <3>3
    <3> QED BY <2>5, <2>6, <3>1, <3>2, <3>3
  <2>11. \A n \in 1..Len(s) : r[n].op = s[n].op /\ (r[n].rd = NoVar <=> s[n].rd = NoVar)
    <3> SUFFICES ASSUME NEW n \in 1..Len(s)
                 PROVE  r[n].op = s[n].op /\ (r[n].rd = NoVar <=> s[n].rd = NoVar)
      OBVIOUS
    <3>1. counter + Count(s, n) # NoVar
      BY <1>1, <2>4 DEF NoVar
    <3> QED BY <2>6, <3>1
  <2>12. IsRenamed(r, s, b)
    <3> HIDE DEF s
    <3>1. \A n \in 1..Len(s) :
            \/ r[n].rs \in {NoVar, Base}
            \/ \E m \in 1..(n - 1) : r[m].rd = r[n].rs
            \/ \E m \in 1..Len(stack) : r[n].rs = stack[m]
      BY <2>10
    <3>2. Vers(r) = counter..(counter + AllAssigned(b) - 1)
      BY <2>9
    <3> HIDE DEF a, h
    <3> QED BY <2>8, <2>11, <3>1, <3>2 DEF IsRenamed
  <2> QED BY <2>12 DEF r
<1> QED BY <1>5, <1>6

-----------------------------------------------------------------------------
(* The inductive invariant of the passes up to solve_phi_params().         *)

Up(b) == {x \in Blocks : Dominates(out, entry, x, b)}
Basis == IF kind = "param" THEN {0} ELSE {}

TreeInv ==
    /\ Connected(out, entry)
    /\ tree = [b \in Blocks |-> {c \in Blocks \ {entry} : IsIdom(out, entry, b, c)}]

\* Before the versions are given out.
ClearInv ==
    /\ frames = <<>> /\ visited = {}
    /\ phi_ops = [b \in Blocks |-> {}]
    /\ code \in [Blocks -> Seq(Raw)]

\* The walk is a path of the dominator tree, and leaves no child out.
WalkInv ==
    /\ visited \subseteq Blocks /\ frames \in Seq(visited)
    /\ visited # {} => entry \in visited
    /\ \A b \in visited : \/ tree[b] \subseteq visited
                          \/ \E k \in 1..Len(frames) : frames[k] = b
    /\ \A b \in visited : Up(b) \subseteq visited
    /\ \A k \in 1..Len(frames) : {frames[j] : j \in 1..k} = Up(frames[k])

\* A block that was entered has versions of its own, one for each assignment.
VersInv ==
    /\ counter \in Nat /\ code \in [Blocks -> Seq(Insns)]
    /\ \A b \in Blocks \ visited : code[b] \in Seq(Raw)
    /\ \A b \in visited : \E f \in 0..counter :
         /\ f + AllAssigned(b) <= counter
         /\ Versions(b) = f..(f + AllAssigned(b) - 1)
    /\ \A b, c \in Blocks : b # c => Versions(b) \cap Versions(c) = {}

\* h[k] is the height of the stack where the k-th frame is left.
Heights(h) ==
    /\ h[Len(frames)] = Len(stack)
    /\ \A k \in 1..Len(frames) : h[k] = h[k - 1] + AllAssigned(frames[k])
    /\ \A k \in 0..Len(frames) :
         {stack[n] : n \in 1..h[k]} = (UNION {Versions(frames[j]) : j \in 1..k}) \cup Basis
StackInv ==
    /\ stack \in Seq(Nat)
    /\ \A n \in 1..Len(stack) : stack[n] < counter
    /\ \A m, n \in 1..Len(stack) : m < n => stack[m] < stack[n]
    /\ \E h \in [0..Len(frames) -> 0..Len(stack)] : Heights(h)

UseInv == \A b \in visited : \A n \in 1..Len(code[b]) :
            \A v \in {code[b][n].rs} \ {NoVar} : DefinedAbove(v, b, n)

\* An edge from a block without versions above it gives the phi its own version.
Unset(c, o) == /\ o[2] = code[c][1].rd /\ c \in visited
               /\ \A x \in Up(o[1]) : Versions(x) = {}
OpInv ==
    /\ phi_ops \in [Blocks -> SUBSET (visited \X Subscripts)]
    /\ \A c \in Blocks :
         /\ {o[1] : o \in phi_ops[c]} =
              IF HasPhi(c) THEN visited \cap Transpose(out)[c] ELSE {}
         /\ \A o, p \in phi_ops[c] : o[1] = p[1] => o = p
         /\ \A o \in phi_ops[c] :
              DefinedAbove(o[2], o[1], Len(code[o[1]]) + 1) \/ Unset(c, o)

RenameInv == WalkInv /\ VersInv /\ StackInv /\ UseInv /\ OpInv
SsaInv ==
    /\ TreeInv
    /\ pc \in {"globals", "phis"} => ClearInv
    /\ pc = "rename" => RenameInv

LEMMA CodeRaw ==
    ASSUME NEW f \in [Inner -> Bodies], NEW o, NEW d, NEW tests
    PROVE  Code(f, o, d, tests) \in [Blocks -> Seq(Raw)]
<1> DEFINE A(b) == IF b = d THEN <<Insn("allocat", Base, NoVar)>> ELSE <<>>
           F(b) == IF b = exit THEN <<>> ELSE f[b]
           T(b) == IF b \notin Branching(o) THEN <<>>
                   ELSE <<Insn("branch", NoVar, IF b \in tests THEN Base ELSE NoVar)>>
<1>1. ASSUME NEW b \in Blocks PROVE (A(b) \o F(b)) \o T(b) \in Seq(Raw)
  <2>1. Insn("allocat", Base, NoVar) \in Raw
    BY DEF Insn, Raw, Insns, Subscripts
  <2>2. Insn("branch", NoVar, IF b \in tests THEN Base ELSE NoVar) \in Raw
    BY DEF Insn, Raw, Insns, Subscripts
  <2>3. \A body \in Bodies : body \in Seq(Raw)
    <3>1. Use \in Raw /\ Def \in Raw /\ Update \in Raw
      BY DEF Use, Def, Update, Insn, Raw, Insns, Subscripts, NoVar, Base
    <3> HIDE DEF Use, Def, Update
    <3>2. <<>> \in Seq(Raw) /\ <<Use>> \in Seq(Raw) /\ <<Def>> \in Seq(Raw)
      BY <3>1
    <3>3. <<Update>> \in Seq(Raw) /\ <<Def, Use>> \in Seq(Raw)
      BY <3>1
    <3> QED BY <3>2, <3>3 DEF Bodies
  <2>4. A(b) \in Seq(Raw)
    BY <2>1
  <2>5. F(b) \in Seq(Raw)
    BY <2>3 DEF Inner
  <2>6. T(b) \in Seq(Raw)
    BY <2>2
  <2> HIDE DEF A, F, T
  <2>7. A(b) \o F(b) \in Seq(Raw)
    BY <2>4, <2>5, ConcatProperties
  <2> QED BY <2>6, <2>7, ConcatProperties
<1>2. Code(f, o, d, tests) = [b \in Blocks |-> (A(b) \o F(b)) \o T(b)]
  BY DEF Code
<1> HIDE DEF A, F, T
<1> QED BY <1>1, <1>2

LEMMA SsaInit == Init => SsaInv
<1> SUFFICES ASSUME Init PROVE SsaInv
  OBVIOUS
<1>1. TreeInv
  <2>1. out \in FlowGraphs
    BY DEF Init, Graphs
  <2>2. Connected(out, entry)
    BY <2>1, FlowRooted, BlocksFinite DEF Connected
  <2> QED BY <2>2 DEF Init, TreeInv
<1>2. code \in [Blocks -> Seq(Raw)]
  <2>1. \E f \in Functions(kind), tests \in SUBSET Branching(out) : \E d :
          code = Code(f, out, d, tests)
    BY DEF Init
  <2>2. PICK f \in Functions(kind), tests \in SUBSET Branching(out) : \E d :
          code = Code(f, out, d, tests)
    BY <2>1
  <2>3. PICK d : code = Code(f, out, d, tests)
    BY <2>2
  <2>4. f \in [Inner -> Bodies]
    BY DEF Functions
  <2> QED BY <2>3, <2>4, CodeRaw
<1>3. ClearInv /\ pc = "globals"
  BY <1>2 DEF Init, ClearInv
<1> QED BY <1>1, <1>3 DEF SsaInv

LEMMA SsaBefore == SsaInv /\ (SolveGlobals \/ InsertPhis \/ StartRenaming) => SsaInv'
<1> SUFFICES ASSUME SsaInv, SolveGlobals \/ InsertPhis \/ StartRenaming PROVE SsaInv'
  OBVIOUS
<1>1. TreeInv'
  BY DEF SsaInv, TreeInv, SolveGlobals, InsertPhis, StartRenaming, program
<1>2. CASE SolveGlobals
  <2>1. ClearInv' /\ pc' = "phis"
    BY <1>2 DEF SsaInv, SolveGlobals, ClearInv, renaming
  <2> QED BY <1>1, <2>1 DEF SsaInv
<1>3. CASE InsertPhis
  <2>1. pc = "phis" /\ pc' = pc /\ ClearInv /\ UNCHANGED renaming
    BY <1>3 DEF SsaInv, InsertPhis
  <2>2. PICK P : code' = [c \in Blocks |-> IF c \in P THEN <<Phi>> \o code[c] ELSE code[c]]
    BY <1>3 DEF InsertPhis
  <2>3. ASSUME NEW s \in Seq(Raw) PROVE <<Phi>> \o s \in Seq(Raw)
    <3>1. Phi \in Raw
      BY DEF Phi, Insn, Raw, Insns, Subscripts, NoVar, Base
    <3>2. <<Phi>> \in Seq(Raw)
      BY <3>1
    <3> QED BY <3>2, ConcatProperties
  <2>4. code' \in [Blocks -> Seq(Raw)]
    BY <2>1, <2>2, <2>3 DEF ClearInv
  <2>5. ClearInv'
    BY <2>1, <2>4 DEF ClearInv, renaming
  <2> QED BY <1>1, <2>1, <2>5 DEF SsaInv
<1>4. CASE StartRenaming
  <2>1. /\ ClearInv /\ pc' = "rename" /\ kind' = kind
        /\ code' = code /\ frames' = <<>> /\ visited' = {} /\ phi_ops' = phi_ops
        /\ stack' = (IF kind = "param" THEN <<0>> ELSE <<>>)
        /\ counter' = (IF kind = "param" THEN 1 ELSE 0)
    BY <1>4 DEF SsaInv, StartRenaming, program, ClearInv
  <2>2. code \in [Blocks -> Seq(Raw)] /\ phi_ops = [b \in Blocks |-> {}]
        /\ frames' \in Seq(visited') /\ Len(frames') = 0
    BY <2>1 DEF ClearInv
  <2>3. WalkInv'
    BY <2>1, <2>2 DEF WalkInv
  <2>4. \A b \in Blocks : Versions(b)' = {}
    <3> TAKE b \in Blocks
    <3>1. code[b] \in Seq(Raw)
      BY <2>2
    <3>2. \A n \in 1..Len(code[b]) : code[b][n].rd \in {NoVar, Base}
      BY <3>1 DEF Raw
    <3> QED BY <2>1, <3>2 DEF Versions
  <2>5. VersInv'
    <3>1. code' \in [Blocks -> Seq(Insns)] /\ \A b \in Blocks : code'[b] \in Seq(Raw)
      <4>1. Seq(Raw) \subseteq Seq(Insns)
        BY DEF Raw
      <4> QED BY <2>1, <2>2, <4>1
    <3> QED BY <2>1, <2>4, <3>1 DEF VersInv
  <2>6. StackInv'
    <3>0. 0..0 = {0} /\ 1..0 = {}
      OBVIOUS
    <3>1. CASE kind = "param"
      <4>1. stack' = <<0>> /\ counter' = 1 /\ Basis' = {0} /\ Len(stack') = 1
        BY <2>1, <3>1 DEF Basis
      <4>2. {stack'[n] : n \in 1..1} = {0} /\ stack' \in Seq(Nat) /\ stack'[1] = 0 /\ 1..1 = {1}
        BY <4>1
      <4> DEFINE h == [k \in 0..0 |-> 1]
      <4>3. h \in [0..Len(frames') -> 0..Len(stack')] /\ h[0] = 1
        BY <2>2, <4>1
      <4> HIDE DEF h
      <4>4. /\ {stack'[n] : n \in 1..h[0]} = {0}
            /\ UNION {Versions(frames[j])' : j \in 1..0} = {}
        BY <3>0, <4>2, <4>3
      <4>5. Heights(h)'
        BY <2>2, <3>0, <4>1, <4>3, <4>4 DEF Heights
      <4> QED BY <4>1, <4>2, <4>3, <4>5 DEF StackInv
    <3>2. CASE kind # "param"
      <4>1. stack' = <<>> /\ Basis' = {} /\ Len(stack') = 0
        BY <2>1, <3>2 DEF Basis
      <4> DEFINE h == [k \in 0..0 |-> 0]
      <4>3. h \in [0..Len(frames') -> 0..Len(stack')] /\ h[0] = 0
        BY <2>2, <4>1
      <4> HIDE DEF h
      <4>4. Heights(h)'
        BY <2>2, <3>0, <4>1, <4>3 DEF Heights
      <4>5. stack' \in Seq(Nat)
        BY <4>1
      <4> QED BY <3>0, <4>1, <4>3, <4>4, <4>5 DEF StackInv
    <3> QED BY <3>1, <3>2
  <2>7. UseInv'
    BY <2>1 DEF UseInv
  <2>8. OpInv'
    BY <2>1, <2>2 DEF OpInv, HasPhi
  <2> QED BY <1>1, <2>1, <2>3, <2>5, <2>6, <2>7, <2>8 DEF SsaInv, RenameInv
<1> QED BY <1>2, <1>3, <1>4

-----------------------------------------------------------------------------
(* A block is entered.                                                     *)

Entered(b) ==
    /\ IsRenamed(code'[b], code[b], b) /\ IsPushed(stack', b)
    /\ AllAssigned(b) \in Nat /\ counter' = counter + AllAssigned(b)
    /\ code' \in [Blocks -> Seq(Insns)] /\ \A c \in Blocks \ {b} : code'[c] = code[c]
    /\ \A c \in Blocks : /\ AllAssigned(c)' = AllAssigned(c)
                         /\ Len(code'[c]) = Len(code[c])
                         /\ HasPhi(c)' <=> HasPhi(c)
    /\ \A c \in Blocks \ {b} : Versions(c)' = Versions(c)
    /\ Versions(b)' = counter..(counter + AllAssigned(b) - 1)
    /\ UNCHANGED <<program, Basis, pc>> /\ \A c : Up(c)' = Up(c)
    /\ visited' = visited \cup {b} /\ frames' = Append(frames, b)

LEMMA EnterIs ==
    ASSUME VersInv, StackInv, NEW b \in Blocks \ visited, Enter(b)
    PROVE  Entered(b)
<1>1. /\ code[b] \in Seq(Raw) /\ stack \in Seq(Nat) /\ counter \in Nat
      /\ code \in [Blocks -> Seq(Insns)]
  BY DEF VersInv, StackInv
<1>2. /\ code' = [code EXCEPT ![b] = Renamed(b)] /\ stack' = Pushed(b)
      /\ counter' = counter + AllAssigned(b)
      /\ UNCHANGED <<program, pc>> /\ kind' = kind /\ out' = out
      /\ visited' = visited \cup {b} /\ frames' = Append(frames, b)
  BY DEF Enter, program
<1>3. code'[b] = Renamed(b) /\ \A c \in Blocks \ {b} : code'[c] = code[c]
  BY <1>1, <1>2
<1>4. IsRenamed(code'[b], code[b], b) /\ IsPushed(stack', b) /\ AllAssigned(b) \in Nat
  BY <1>1, <1>2, <1>3, RenamedIs, PushedIs, AllAssignedIs
<1>5. code' \in [Blocks -> Seq(Insns)]
  <2>1. Renamed(b) \in Seq(Insns)
    BY <1>3, <1>4 DEF IsRenamed
  <2> QED BY <1>1, <1>2, <2>1
<1>6. /\ Len(code'[b]) = Len(code[b]) /\ Len(code[b]) \in Nat
      /\ \A n \in 1..Len(code[b]) :
           code'[b][n].op = code[b][n].op /\ (code'[b][n].rd = NoVar <=> code[b][n].rd = NoVar)
  BY <1>1, <1>4 DEF IsRenamed
<1>11. kind' = kind
  BY <1>2
<1>7. ASSUME NEW c \in Blocks
      PROVE  /\ AllAssigned(c)' = AllAssigned(c)
             /\ Len(code'[c]) = Len(code[c])
             /\ HasPhi(c)' <=> HasPhi(c)
  <2>1. CASE c # b
    <3>1. code'[c] = code[c]
      BY <1>3, <2>1
    <3>2. HasPhi(c)' <=> HasPhi(c)
      BY <3>1 DEF HasPhi
    <3>3. AllAssigned(c)' = (IF kind' = "global" THEN 0 ELSE
            Cardinality({m \in 1..((Len(code'[c]) + 1) - 1) : code'[c][m].rd # NoVar}))
      BY Zenon DEF AllAssigned, Assigned
    <3>4. AllAssigned(c) = (IF kind = "global" THEN 0 ELSE
            Cardinality({m \in 1..((Len(code[c]) + 1) - 1) : code[c][m].rd # NoVar}))
      BY Zenon DEF AllAssigned, Assigned
    <3> QED BY <1>11, <3>1, <3>2, <3>3, <3>4
  <2>2. CASE c = b
    <3>1. {m \in 1..((Len(code'[b]) + 1) - 1) : code'[b][m].rd # NoVar}
            = {m \in 1..((Len(code[b]) + 1) - 1) : code[b][m].rd # NoVar}
      BY <1>6
    <3>20. AllAssigned(b)' = (IF kind' = "global" THEN 0 ELSE
             Cardinality({m \in 1..((Len(code'[b]) + 1) - 1) : code'[b][m].rd # NoVar}))
      BY Zenon DEF AllAssigned, Assigned
    <3>21. AllAssigned(b) = (IF kind = "global" THEN 0 ELSE
             Cardinality({m \in 1..((Len(code[b]) + 1) - 1) : code[b][m].rd # NoVar}))
      BY Zenon DEF AllAssigned, Assigned
    <3>2. AllAssigned(b)' = AllAssigned(b)
      BY <1>11, <3>1, <3>20, <3>21, Zenon
    <3>3. HasPhi(b)' <=> HasPhi(b)
      <4>1. CASE code[b] = <<>>
        <5>1. Len(code'[b]) = 0
          BY <1>6, <4>1
        <5>2. code'[b] = <<>>
          BY <1>5, <5>1
        <5> QED BY <4>1, <5>2 DEF HasPhi
      <4>2. CASE code[b] # <<>>
        <5>1. 1 \in 1..Len(code[b])
          BY <1>1, <4>2
        <5>2. code'[b] # <<>> /\ code'[b][1].op = code[b][1].op
          BY <1>6, <5>1
        <5> QED BY <4>2, <5>2 DEF HasPhi
      <4> QED BY <4>1, <4>2
    <3> QED BY <1>6, <2>2, <3>2, <3>3
  <2> QED BY <2>1, <2>2
<1>8. \A c \in Blocks \ {b} : Versions(c)' = Versions(c)
  BY <1>3 DEF Versions
<1>9. Versions(b)' = counter..(counter + AllAssigned(b) - 1)
  BY <1>4 DEF Versions, IsRenamed, Vers
<1>10. Basis' = Basis /\ \A c : Up(c)' = Up(c)
  BY <1>2 DEF Basis, Up
<1> QED BY <1>2, <1>3, <1>4, <1>5, <1>7, <1>8, <1>9, <1>10 DEF Entered

\* The frames and the block that is entered are what is above it.
Below(b) == /\ {frames[j] : j \in 1..Len(frames)} \cup {b} = Up(b)
            /\ visited = {} => b = entry

LEMMA BelowIs ==
    ASSUME TreeInv, WalkInv, EnterFunction \/ EnterChild
    PROVE  \E b \in Blocks \ visited : Enter(b) /\ Below(b)
<1>1. CASE EnterFunction
  <2>1. entry \in Blocks \ visited /\ visited = {} /\ Enter(entry)
    BY <1>1, BlocksFinite DEF EnterFunction
  <2>2. frames = <<>> /\ Up(entry) = {entry}
    BY <2>1, AboveRoot DEF WalkInv, TreeInv, Up
  <2>3. {frames[j] : j \in 1..Len(frames)} = {}
    BY <2>2
  <2>4. Below(entry)
    BY <2>2, <2>3 DEF Below
  <2> QED BY <2>1, <2>4
<1>2. CASE EnterChild
  <2> DEFINE a == frames[Len(frames)]
  <2>1. PICK b : b \in tree[a] \ visited /\ frames # <<>> /\ Enter(b)
    BY <1>2 DEF EnterChild
  <2>2. Len(frames) \in 1..Len(frames) /\ a \in visited /\ visited \subseteq Blocks
    BY <2>1 DEF WalkInv
  <2>3. b \in Blocks \ {entry} /\ IsIdom(out, entry, a, b)
    BY <2>1, <2>2 DEF TreeInv
  <2>4. Up(b) = Up(a) \cup {b}
    <3>1. a \in Blocks /\ Connected(out, entry)
      BY <2>2 DEF TreeInv
    <3> HIDE DEF a
    <3> QED BY <2>3, <3>1, AboveChild DEF Up
  <2>5. {frames[j] : j \in 1..Len(frames)} = Up(a)
    BY <2>2 DEF WalkInv
  <2>6. Below(b)
    BY <2>2, <2>4, <2>5 DEF Below
  <2> QED BY <2>1, <2>3, <2>6
<1> QED BY <1>1, <1>2

LEMMA EnterWalk ==
    ASSUME TreeInv, WalkInv, NEW b \in Blocks \ visited, Entered(b), Below(b)
    PROVE  WalkInv'
<1> DEFINE L == Len(frames)
<1>1. /\ visited' = visited \cup {b} /\ frames' = Append(frames, b)
      /\ tree' = tree /\ entry \in Blocks /\ \A c : Up(c)' = Up(c)
  BY BlocksFinite DEF Entered, program
<1>2. frames \in Seq(visited') /\ b \in visited' /\ L \in Nat /\ frames \in Seq(visited)
  <2>1. frames \in Seq(visited)
    BY DEF WalkInv
  <2> QED BY <1>1, <2>1
<1>3. /\ frames' \in Seq(visited') /\ Len(frames') = L + 1
      /\ \A k \in 1..L : frames'[k] = frames[k]
      /\ frames'[L + 1] = b
  BY <1>1, <1>2, AppendProperties
<1>4. /\ \A k \in 1..(L + 1) : k \in 1..L \/ k = L + 1
      /\ \A k \in 1..L : k \in 1..(L + 1) /\ 1..k \subseteq 1..L
      /\ L + 1 \in 1..(L + 1) /\ 1..(L + 1) = 1..L \cup {L + 1}
  BY <1>2
<1> HIDE DEF L
<1>5. visited' \subseteq Blocks /\ entry \in visited'
  BY <1>1 DEF WalkInv, Below
<1>6. ASSUME NEW c \in visited'
      PROVE  /\ \/ tree'[c] \subseteq visited'
                \/ \E k \in 1..Len(frames') : frames'[k] = c
             /\ Up(c)' \subseteq visited'
  <2>1. CASE c = b
    <3>1. {frames[j] : j \in 1..L} \subseteq visited
      BY <1>2 DEF L
    <3>2. Up(b) = {frames[j] : j \in 1..L} \cup {b}
      BY DEF Below, L
    <3>3. Up(b) \subseteq visited'
      BY <1>1, <3>1, <3>2
    <3> QED BY <1>1, <1>3, <1>4, <2>1, <3>3
  <2>2. CASE c # b
    <3>1. /\ c \in visited /\ Up(c) \subseteq visited
          /\ tree[c] \subseteq visited \/ \E k \in 1..L : frames[k] = c
      BY <1>1, <2>2 DEF WalkInv, L
    <3> QED BY <1>1, <1>3, <1>4, <3>1
  <2> QED BY <2>1, <2>2
<1>7. ASSUME NEW k \in 1..Len(frames')
      PROVE  {frames'[j] : j \in 1..k} = Up(frames'[k])
  <2>1. CASE k = L + 1
    <3>1. {frames'[j] : j \in 1..k} = {frames[j] : j \in 1..L} \cup {b}
      BY <1>3, <1>4, <2>1
    <3>2. Up(b) = {frames[j] : j \in 1..L} \cup {b}
      BY DEF Below, L
    <3> QED BY <1>3, <2>1, <3>1, <3>2
  <2>2. CASE k # L + 1
    <3>1. k \in 1..L /\ frames'[k] = frames[k]
      BY <1>3, <1>4, <2>2
    <3>2. {frames'[j] : j \in 1..k} = {frames[j] : j \in 1..k}
      BY <1>3, <1>4, <3>1
    <3>3. {frames[j] : j \in 1..k} = Up(frames[k])
      BY <3>1 DEF WalkInv, L
    <3> QED BY <3>1, <3>2, <3>3
  <2> QED BY <2>1, <2>2
<1>8. out' = out
  BY DEF Entered, program
<1>9. \A k \in 1..Len(frames') :
        {frames'[j] : j \in 1..k} = {x \in Blocks : Dominates(out', entry, x, frames'[k])}
  BY <1>7, <1>8 DEF Up
<1> QED BY <1>3, <1>5, <1>6, <1>9, Zenon DEF WalkInv, Up

\* What was given out is below the counter, and only where the walk has been.
LEMMA OldVersions ==
    ASSUME WalkInv, VersInv
    PROVE  /\ \A c \in Blocks : \A v \in Versions(c) : v \in Nat /\ v < counter
           /\ \A c \in Blocks \ visited : Versions(c) = {}
<1>1. ASSUME NEW c \in Blocks \ visited PROVE Versions(c) = {}
  <2>1. code[c] \in Seq(Raw)
    BY DEF VersInv
  <2>2. \A n \in 1..Len(code[c]) : code[c][n].rd \in {NoVar, Base}
    BY <2>1 DEF Raw
  <2> QED BY <2>2 DEF Versions
<1>2. ASSUME NEW c \in visited, NEW v \in Versions(c) PROVE v \in Nat /\ v < counter
  <2>1. code[c] \in Seq(Insns) /\ counter \in Nat
    BY DEF VersInv, WalkInv
  <2>2. AllAssigned(c) \in Nat
    BY <2>1, AllAssignedIs
  <2>3. PICK f \in 0..counter : /\ f + AllAssigned(c) <= counter
                                /\ v \in f..(f + AllAssigned(c) - 1)
    BY DEF VersInv
  <2> QED BY <2>1, <2>2, <2>3
<1> QED BY <1>1, <1>2

LEMMA EnterVers ==
    ASSUME WalkInv, VersInv, NEW b \in Blocks \ visited, Entered(b)
    PROVE  VersInv'
<1> DEFINE a == AllAssigned(b)
<1>1. /\ visited' = visited \cup {b} /\ a \in Nat /\ counter' = counter + a
      /\ code' \in [Blocks -> Seq(Insns)] /\ \A c \in Blocks \ {b} : code'[c] = code[c]
      /\ \A c \in Blocks : AllAssigned(c)' = AllAssigned(c)
      /\ \A c \in Blocks \ {b} : Versions(c)' = Versions(c)
      /\ Versions(b)' = counter..(counter + a - 1)
  BY DEF Entered
<1>2. /\ counter \in Nat /\ \A c \in Blocks \ visited : code[c] \in Seq(Raw)
      /\ \A c \in visited : \E f \in 0..counter :
            f + AllAssigned(c) <= counter /\ Versions(c) = f..(f + AllAssigned(c) - 1)
      /\ \A c, d \in Blocks : c # d => Versions(c) \cap Versions(d) = {}
  BY DEF VersInv
<1> HIDE DEF a
<1>3. counter' \in Nat /\ \A c \in Blocks \ visited' : code'[c] \in Seq(Raw)
  BY <1>1, <1>2
<1>4. ASSUME NEW c \in visited'
      PROVE  \E f \in 0..counter' : f + AllAssigned(c)' <= counter'
                                 /\ Versions(c)' = f..(f + AllAssigned(c)' - 1)
  <2>1. CASE c = b
    <3>1. counter \in 0..counter' /\ counter + a <= counter'
      BY <1>1, <1>2
    <3>2. AllAssigned(c)' = a /\ Versions(c)' = counter..(counter + a - 1)
      BY <1>1, <2>1 DEF a
    <3> QED BY <3>1, <3>2
  <2>2. CASE c # b
    <3>1. c \in visited /\ AllAssigned(c)' = AllAssigned(c) /\ Versions(c)' = Versions(c)
      BY <1>1, <2>2 DEF WalkInv
    <3>2. PICK f \in 0..counter : /\ f + AllAssigned(c) <= counter
                                  /\ Versions(c) = f..(f + AllAssigned(c) - 1)
      BY <1>2, <3>1
    <3>3. AllAssigned(c) \in Nat
      <4>1. code[c] \in Seq(Insns)
        BY <3>1 DEF VersInv, WalkInv
      <4> QED BY <4>1, AllAssignedIs
    <3>4. f \in 0..counter' /\ f + AllAssigned(c) <= counter'
      BY <1>1, <1>2, <3>2, <3>3, SMTT(40)
    <3> QED BY <3>1, <3>2, <3>4
  <2> QED BY <2>1, <2>2
<1>5. ASSUME NEW c \in Blocks, NEW d \in Blocks, c # d
      PROVE  Versions(c)' \cap Versions(d)' = {}
  <2>1. \A e \in Blocks : \A v \in Versions(e) : v \in Nat /\ v < counter
    BY OldVersions
  <2>2. \A v \in Versions(b)' : ~(v \in Nat /\ v < counter)
    BY <1>1, <1>2
  <2>3. CASE c = b
    <3>1. Versions(d)' = Versions(d)
      BY <1>1, <1>5, <2>3
    <3> QED BY <2>1, <2>2, <2>3, <3>1
  <2>4. CASE d = b
    <3>1. Versions(c)' = Versions(c)
      BY <1>1, <1>5, <2>4
    <3> QED BY <2>1, <2>2, <2>4, <3>1
  <2>5. CASE c # b /\ d # b
    BY <1>1, <1>2, <1>5, <2>5
  <2> QED BY <2>3, <2>4, <2>5
<1> QED BY <1>1, <1>3, <1>4, <1>5 DEF VersInv

LEMMA EnterStack ==
    ASSUME WalkInv, VersInv, StackInv, NEW b \in Blocks \ visited, Entered(b)
    PROVE  StackInv'
<1> DEFINE L == Len(frames)
           H == Len(stack)
           a == AllAssigned(b)
<1>1. /\ stack' \in Seq(Nat) /\ Len(stack') = H + a /\ a \in Nat /\ counter' = counter + a
      /\ \A n \in 1..H : stack'[n] = stack[n]
      /\ \A n \in 1..a : stack'[H + n] = counter + n - 1
      /\ H \in Nat /\ L \in Nat /\ counter \in Nat
      /\ \A n \in 1..H : stack[n] \in Nat /\ stack[n] < counter
      /\ \A m, n \in 1..H : m < n => stack[m] < stack[n]
  <2>1. stack \in Seq(Nat) /\ frames \in Seq(visited)
    BY DEF StackInv, WalkInv
  <2>2. H \in Nat /\ L \in Nat /\ \A n \in 1..H : stack[n] \in Nat
    BY <2>1
  <2>3. /\ stack' \in Seq(Nat) /\ Len(stack') = H + a /\ a \in Nat /\ counter' = counter + a
        /\ \A n \in 1..H : stack'[n] = stack[n]
        /\ \A n \in 1..a : stack'[H + n] = counter + n - 1
    BY DEF Entered, IsPushed
  <2>4. counter \in Nat
    BY DEF VersInv
  <2>5. /\ \A n \in 1..H : stack[n] < counter
        /\ \A m, n \in 1..H : m < n => stack[m] < stack[n]
    BY DEF StackInv
  <2> QED BY <2>2, <2>3, <2>4, <2>5
<1>2. frames \in Seq(Blocks) /\ frames' = Append(frames, b) /\ \A k \in 1..L : frames[k] # b
  BY DEF Entered, WalkInv
<1>3. /\ Len(frames') = L + 1 /\ frames'[L + 1] = b /\ b \in Blocks
      /\ \A k \in 1..L : frames'[k] = frames[k] /\ frames[k] \in Blocks \ {b}
  BY <1>2, AppendProperties
<1>4. /\ \A c \in Blocks : AllAssigned(c)' = AllAssigned(c)
      /\ \A c \in Blocks \ {b} : Versions(c)' = Versions(c)
      /\ Versions(b)' = counter..(counter + a - 1) /\ Basis' = Basis
  BY DEF Entered
<1>5. PICK h \in [0..L -> 0..H] : Heights(h)
  BY DEF StackInv
<1>6. /\ h[L] = H /\ \A k \in 1..L : h[k] = h[k - 1] + AllAssigned(frames[k])
      /\ \A k \in 0..L : {stack[n] : n \in 1..h[k]}
                           = (UNION {Versions(frames[j]) : j \in 1..k}) \cup Basis
  BY <1>5 DEF Heights
<1> HIDE DEF a, L, H
<1>7. PICK e \in [0..(L + 1) -> 0..(H + a)] : e[L + 1] = H + a /\ \A k \in 0..L : e[k] = h[k]
  <2> DEFINE d == [k \in 0..(L + 1) |-> IF k = L + 1 THEN H + a ELSE h[k]]
  <2>1. \A k \in 0..(L + 1) : k = L + 1 \/ k \in 0..L
    BY <1>1
  <2>2. L + 1 \in 0..(L + 1) /\ \A k \in 0..L : k # L + 1 /\ k \in 0..(L + 1)
    BY <1>1
  <2>3. H + a \in 0..(H + a) /\ \A n \in 0..H : n \in 0..(H + a)
    BY <1>1
  <2>4. \A k \in 0..L : h[k] \in 0..H
    BY <1>5
  <2>5. d \in [0..(L + 1) -> 0..(H + a)] /\ d[L + 1] = H + a /\ \A k \in 0..L : d[k] = h[k]
    BY <2>1, <2>2, <2>3, <2>4
  <2> HIDE DEF d
  <2> QED BY <2>5
<1>20. H \in Nat /\ L \in Nat /\ a \in Nat /\ counter \in Nat /\ counter' = counter + a
  BY <1>1
<1>8. \A n \in 1..(H + a) : n \in 1..H \/ \E i \in 1..a : n = H + i
  <2> TAKE n \in 1..(H + a)
  <2>1. n \in 1..H \/ (n - H \in 1..a /\ n = H + (n - H))
    BY <1>1
  <2> QED BY <2>1
<1>9. /\ \A n \in 1..H : n \in 1..(H + a)
      /\ \A i \in 1..a : H + i \in 1..(H + a) /\ counter + i - 1 \in counter..(counter + a - 1)
      /\ \A v \in counter..(counter + a - 1) : \E i \in 1..a : v = counter + i - 1
  <2>1. \A v \in counter..(counter + a - 1) :
           v - counter + 1 \in 1..a /\ v = counter + (v - counter + 1) - 1
    BY <1>1
  <2> QED BY <1>1, <2>1
<1>10. \A n \in 1..Len(stack') : stack'[n] < counter'
  <2> SUFFICES ASSUME NEW n \in 1..(H + a) PROVE stack'[n] < counter'
    BY <1>1
  <2>1. CASE n \in 1..H
    <3>1. stack'[n] = stack[n] /\ stack[n] \in Nat /\ stack[n] < counter
      BY <1>1, <2>1
    <3> QED BY <1>20, <3>1
  <2>2. ASSUME NEW i \in 1..a, n = H + i PROVE stack'[n] < counter'
    <3>1. stack'[n] = counter + i - 1
      BY <1>1, <2>2
    <3> QED BY <1>20, <3>1
  <2> QED BY <1>8, <2>1, <2>2
<1>11. \A m, n \in 1..Len(stack') : m < n => stack'[m] < stack'[n]
  <2> SUFFICES ASSUME NEW m \in 1..(H + a), NEW n \in 1..(H + a), m < n
               PROVE  stack'[m] < stack'[n]
    BY <1>1
  <2>1. CASE n \in 1..H
    <3>1. m \in 1..H
      BY <1>1, <2>1
    <3> QED BY <1>1, <2>1, <3>1
  <2>2. ASSUME NEW i \in 1..a, n = H + i PROVE stack'[m] < stack'[n]
    <3>1. stack'[n] = counter + i - 1
      BY <1>1, <2>2
    <3>2. CASE m \in 1..H
      <4>1. stack'[m] = stack[m] /\ stack[m] \in Nat /\ stack[m] < counter
        BY <1>1, <3>2
      <4> QED BY <1>20, <3>1, <4>1
    <3>3. ASSUME NEW j \in 1..a, m = H + j PROVE stack'[m] < stack'[n]
      <4>1. stack'[m] = counter + j - 1
        BY <1>1, <3>3
      <4>2. j < i
        BY <1>20, <2>2, <3>3
      <4> QED BY <1>20, <3>1, <4>1, <4>2
    <3> QED BY <1>8, <3>2, <3>3
  <2> QED BY <1>8, <2>1, <2>2
<1>12. ASSUME NEW k \in 1..(L + 1) PROVE e[k] = e[k - 1] + AllAssigned(frames'[k])
  <2>1. CASE k = L + 1
    <3>1. k - 1 = L /\ L \in 0..L /\ frames'[k] = b
      BY <1>1, <1>3, <2>1
    <3> QED BY <1>6, <1>7, <2>1, <3>1 DEF a
  <2>2. CASE k # L + 1
    <3>1. k \in 1..L /\ k \in 0..L /\ k - 1 \in 0..L
      BY <1>1, <2>2
    <3> QED BY <1>3, <1>6, <1>7, <3>1
  <2> QED BY <2>1, <2>2
<1> DEFINE V(c) == IF c = b THEN counter..(counter + a - 1) ELSE Versions(c)
<1>13. ASSUME NEW k \in 0..L
       PROVE  {stack'[n] : n \in 1..e[k]} = (UNION {V(frames'[j]) : j \in 1..k}) \cup Basis
  <2>1. e[k] = h[k] /\ h[k] \in 0..H
    BY <1>5, <1>7
  <2>2. \A n \in 1..h[k] : n \in 1..H
    BY <1>1, <2>1
  <2>3. {stack'[n] : n \in 1..e[k]} = {stack[n] : n \in 1..h[k]}
    BY <1>1, <2>1, <2>2
  <2>4. \A j \in 1..k : j \in 1..L
    BY <1>1
  <2>5. \A j \in 1..k : V(frames'[j]) = Versions(frames[j])
    BY <1>3, <2>4
  <2> HIDE DEF V
  <2>6. {V(frames'[j]) : j \in 1..k} = {Versions(frames[j]) : j \in 1..k}
    BY <2>5
  <2> QED BY <1>6, <2>3, <2>6
<1>14. {stack'[n] : n \in 1..e[L + 1]}
         = (UNION {V(frames'[j]) : j \in 1..(L + 1)}) \cup Basis
  <2>1. {stack'[n] : n \in 1..(H + a)}
          = {stack'[n] : n \in 1..H} \cup (counter..(counter + a - 1))
    <3> DEFINE A == {stack'[n] : n \in 1..(H + a)}
               B == {stack'[n] : n \in 1..H}
               C == counter..(counter + a - 1)
    <3> HIDE DEF C
    <3>1. /\ \A n \in 1..H : n \in 1..(H + a)
          /\ \A i \in 1..a : H + i \in 1..(H + a) /\ stack'[H + i] \in C
          /\ \A v \in C : \E i \in 1..a : v = stack'[H + i]
      BY <1>1, <1>9 DEF C
    <3>2. \A v \in A : v \in B \/ v \in C
      BY <1>8, <3>1
    <3>3. \A v \in B : v \in A
      BY <3>1
    <3>4. \A v \in C : v \in A
      BY <3>1
    <3>5. A = B \cup C
      <4> HIDE DEF A, B
      <4> QED BY <3>2, <3>3, <3>4
    <3> QED BY <3>5 DEF C
  <2>2. {stack'[n] : n \in 1..H} = (UNION {V(frames'[j]) : j \in 1..L}) \cup Basis
    <3>1. L \in 0..L /\ e[L] = H
      BY <1>1, <1>6, <1>7
    <3> HIDE DEF V
    <3> QED BY <1>13, <3>1
  <2>3. V(frames'[L + 1]) = counter..(counter + a - 1)
    BY <1>3
  <2>4. 1..(L + 1) = 1..L \cup {L + 1}
    BY <1>20
  <2> HIDE DEF V
  <2>5. {V(frames'[j]) : j \in 1..(L + 1)}
          = {V(frames'[j]) : j \in 1..L} \cup {counter..(counter + a - 1)}
    BY <2>3, <2>4
  <2>6. (UNION {V(frames'[j]) : j \in 1..(L + 1)})
          = (UNION {V(frames'[j]) : j \in 1..L}) \cup (counter..(counter + a - 1))
    BY <2>5
  <2> QED BY <1>7, <2>1, <2>2, <2>6
<1>15. \A c \in Blocks : Versions(c)' = V(c)
  BY <1>4
<1>16. \A k \in 1..(L + 1) : frames'[k] \in Blocks
  <2>1. \A k \in 1..(L + 1) : k \in 1..L \/ k = L + 1
    BY <1>20
  <2> QED BY <1>3, <2>1
<1> HIDE DEF V
<1>17. Heights(e)'
  <2>1. e[Len(frames')] = Len(stack')
    BY <1>1, <1>3, <1>7
  <2>2. \A k \in 1..Len(frames') : e[k] = e[k - 1] + (AllAssigned(frames[k]))'
    BY <1>3, <1>4, <1>12, <1>16
  <2>3. \A k \in 0..Len(frames') :
          {stack'[n] : n \in 1..e[k]} = (UNION {(Versions(frames[j]))' : j \in 1..k}) \cup Basis'
    <3> SUFFICES ASSUME NEW k \in 0..(L + 1)
                 PROVE  {stack'[n] : n \in 1..e[k]}
                          = (UNION {(Versions(frames[j]))' : j \in 1..k}) \cup Basis'
      BY <1>3
    <3>1. \A j \in 1..k : (Versions(frames[j]))' = V(frames'[j])
      <4>1. \A j \in 1..k : j \in 1..(L + 1)
        BY <1>1
      <4> QED BY <1>15, <1>16, <4>1
    <3>2. {stack'[n] : n \in 1..e[k]} = (UNION {V(frames'[j]) : j \in 1..k}) \cup Basis
      <4>1. k \in 0..L \/ k = L + 1
        BY <1>1
      <4> QED BY <1>13, <1>14, <4>1
    <3>3. {(Versions(frames[j]))' : j \in 1..k} = {V(frames'[j]) : j \in 1..k}
      BY <3>1
    <3> QED BY <1>4, <3>2, <3>3
  <2> QED BY <2>1, <2>2, <2>3 DEF Heights
<1> QED BY <1>1, <1>3, <1>7, <1>10, <1>11, <1>17 DEF StackInv

\* What is on the stack is defined above the block that is entered next.
LEMMA StackAbove ==
    ASSUME WalkInv, StackInv, NEW b \in Blocks \ visited, Below(b),
           NEW m \in 1..Len(stack), NEW n
    PROVE  DefinedAbove(stack[m], b, n)
<1> DEFINE L == Len(frames)
<1>1. PICK h \in [0..L -> 0..Len(stack)] : Heights(h)
  BY DEF StackInv
<1>2. L \in Nat /\ frames \in Seq(visited)
  BY DEF WalkInv
<1>3. L \in 0..L /\ h[L] = Len(stack)
  BY <1>1, <1>2 DEF Heights
<1>4. stack[m] \in (UNION {Versions(frames[j]) : j \in 1..L}) \cup Basis
  <2>1. {stack[i] : i \in 1..h[L]} = (UNION {Versions(frames[j]) : j \in 1..L}) \cup Basis
    BY <1>1, <1>3, Zenon DEF Heights
  <2>2. stack[m] \in {stack[i] : i \in 1..h[L]}
    BY <1>3
  <2> QED BY <2>1, <2>2
<1>5. CASE stack[m] \in Basis
  BY <1>5 DEF Basis, DefinedAbove
<1>6. ASSUME NEW j \in 1..L, stack[m] \in Versions(frames[j])
      PROVE  DefinedAbove(stack[m], b, n)
  <2>1. frames[j] \in visited /\ frames[j] \in Up(b)
    BY <1>2 DEF Below
  <2>2. frames[j] \in Blocks /\ frames[j] # b /\ Dominates(out, entry, frames[j], b)
    BY <2>1 DEF Up
  <2>3. PICK k \in 1..Len(code[frames[j]]) : code[frames[j]][k].rd = stack[m]
    BY <1>6 DEF Versions
  <2> QED BY <2>2, <2>3 DEF DefinedAbove
<1> QED BY <1>4, <1>5, <1>6

\* A definition keeps its place while blocks are entered.
LEMMA DefinedStays ==
    ASSUME VersInv, NEW b \in Blocks \ visited, Entered(b),
           NEW v, NEW c, NEW n, DefinedAbove(v, c, n)
    PROVE  DefinedAbove(v, c, n)'
<1>1. out' = out /\ kind' = kind /\ \A d \in Blocks \ {b} : code'[d] = code[d]
  BY DEF Entered, program
<1>2. CASE v = Base \/ (kind = "param" /\ v = 0)
  BY <1>1, <1>2 DEF DefinedAbove
<1>3. ASSUME NEW d \in Blocks, NEW m \in 1..Len(code[d]), code[d][m].rd = v, v # Base,
             IF d = c THEN m < n ELSE Dominates(out, entry, d, c)
      PROVE  DefinedAbove(v, c, n)'
  <2>1. m \in 1..Len(code'[d]) /\ code'[d][m].rd = v
    <3>1. CASE d # b
      BY <1>1, <1>3, <3>1
    <3>2. CASE d = b
      <4>1. code[b] \in Seq(Raw)
        BY DEF VersInv
      <4>2. code[b][m].rd = NoVar
        BY <1>3, <3>2, <4>1 DEF Raw
      <4>3. code'[b][m].rd = NoVar /\ Len(code'[b]) = Len(code[b])
        BY <3>2, <4>2 DEF Entered, IsRenamed
      <4> QED BY <1>3, <3>2, <4>2, <4>3
    <3> QED BY <3>1, <3>2
  <2> QED BY <1>1, <1>3, <2>1 DEF DefinedAbove
<1> QED BY <1>2, <1>3 DEF DefinedAbove

LEMMA EnterUse ==
    ASSUME WalkInv, VersInv, StackInv, UseInv, NEW b \in Blocks \ visited,
           Entered(b), Below(b)
    PROVE  UseInv'
<1>1. SUFFICES ASSUME NEW c \in visited', NEW n \in 1..Len(code'[c]), NEW v,
                      v = code'[c][n].rs, v # NoVar
               PROVE  DefinedAbove(v, c, n)'
  BY DEF UseInv
<1>2. /\ visited' = visited \cup {b} /\ visited \subseteq Blocks /\ kind' = kind
      /\ \A d \in Blocks \ {b} : code'[d] = code[d]
  BY DEF Entered, WalkInv, program
<1>3. CASE c # b
  <2>1. c \in visited /\ code'[c] = code[c]
    BY <1>2, <1>3
  <2>2. DefinedAbove(v, c, n)
    BY <1>1, <2>1 DEF UseInv
  <2> QED BY <2>2, DefinedStays
<1>4. CASE c = b
  <2>1. \/ v \in {NoVar, Base}
        \/ \E m \in 1..(n - 1) : code'[b][m].rd = v
        \/ \E m \in 1..Len(stack) : v = stack[m]
    BY <1>1, <1>4 DEF Entered, IsRenamed
  <2>2. CASE v = Base
    BY <2>2 DEF DefinedAbove
  <2>3. ASSUME NEW m \in 1..(n - 1), code'[b][m].rd = v PROVE DefinedAbove(v, c, n)'
    <3>1. code' \in [Blocks -> Seq(Insns)]
      BY DEF Entered
    <3>2. m \in 1..Len(code'[b]) /\ m < n
      BY <1>4, <3>1
    <3> QED BY <1>4, <2>3, <3>2 DEF DefinedAbove
  <2>4. ASSUME NEW m \in 1..Len(stack), v = stack[m] PROVE DefinedAbove(v, c, n)'
    <3>1. DefinedAbove(v, c, n)
      BY <1>4, <2>4, StackAbove
    <3> QED BY <3>1, DefinedStays
  <2> QED BY <1>1, <2>1, <2>2, <2>3, <2>4
<1> QED BY <1>3, <1>4

LEMMA StackEmpty ==
    ASSUME WalkInv, StackInv, NEW b, Below(b), stack = <<>>
    PROVE  \A x \in Up(b) \ {b} : Versions(x) = {}
<1> DEFINE L == Len(frames)
<1>1. PICK h \in [0..L -> 0..Len(stack)] : Heights(h)
  BY DEF StackInv
<1>2. L \in 0..L
  BY DEF WalkInv
<1>3. h[L] = 0
  BY <1>1 DEF Heights
<1>4. {stack[i] : i \in 1..h[L]} = (UNION {Versions(frames[j]) : j \in 1..L}) \cup Basis
  BY <1>1, <1>2, Zenon DEF Heights
<1>5. {stack[i] : i \in 1..h[L]} = {}
  BY <1>3
<1>6. \A j \in 1..L : Versions(frames[j]) = {}
  BY <1>4, <1>5
<1> QED BY <1>6 DEF Below

LEMMA EnterOps ==
    ASSUME TreeInv, WalkInv, VersInv, StackInv, OpInv, NEW b \in Blocks \ visited,
           Enter(b), Entered(b), Below(b), WalkInv', VersInv'
    PROVE  OpInv'
<1> DEFINE operand(c) == <<b, Top(stack', code'[c][1].rd)>>
<1>1. phi_ops' = [c \in Blocks |-> IF c \in out[b] /\ HasPhi(c)
                                     THEN phi_ops[c] \cup {operand(c)} ELSE phi_ops[c]]
  BY DEF Enter
<1>2. /\ visited' = visited \cup {b} /\ visited \subseteq Blocks /\ out' = out
      /\ code' \in [Blocks -> Seq(Insns)] /\ stack' \in Seq(Nat)
      /\ \A c \in Blocks : (HasPhi(c)' <=> HasPhi(c)) /\ Len(code'[c]) = Len(code[c])
      /\ \A c \in Blocks \ {b} : code'[c] = code[c]
      /\ \A c \in Blocks \ {b} : Versions(c)' = Versions(c)
      /\ \A c : Up(c)' = Up(c)
  BY DEF Entered, WalkInv, program, IsPushed
<1>3. /\ phi_ops \in [Blocks -> SUBSET (visited \X Subscripts)]
      /\ \A c \in Blocks :
           /\ {o[1] : o \in phi_ops[c]} =
                IF HasPhi(c) THEN visited \cap Transpose(out)[c] ELSE {}
           /\ \A o, p \in phi_ops[c] : o[1] = p[1] => o = p
           /\ \A o \in phi_ops[c] :
                DefinedAbove(o[2], o[1], Len(code[o[1]]) + 1) \/ Unset(c, o)
  BY DEF OpInv
<1>4. ASSUME NEW c \in Blocks, HasPhi(c)
      PROVE  /\ code'[c] # <<>> /\ code'[c][1] \in Insns
             /\ code'[c][1].rd \in Subscripts /\ 1 \in 1..Len(code'[c])
  <2>1. HasPhi(c)'
    BY <1>2, <1>4
  <2>2. code'[c] # <<>> /\ code'[c] \in Seq(Insns)
    BY <1>2, <2>1 DEF HasPhi
  <2>3. 1 \in 1..Len(code'[c]) /\ code'[c][1] \in Insns
    BY <2>2
  <2> QED BY <2>2, <2>3 DEF Insns
<1>5. ASSUME NEW c \in Blocks, HasPhi(c) PROVE operand(c) \in visited' \X Subscripts
  <2>1. Top(stack', code'[c][1].rd) \in Subscripts
    BY <1>2, <1>4, <1>5 DEF Top, Subscripts
  <2> QED BY <1>2, <2>1
<1>6. phi_ops' \in [Blocks -> SUBSET (visited' \X Subscripts)]
  <2>1. \A c \in Blocks : phi_ops[c] \subseteq visited' \X Subscripts
    BY <1>2, <1>3
  <2> HIDE DEF operand
  <2> QED BY <1>1, <1>5, <2>1
<1>7. ASSUME NEW c \in Blocks
      PROVE  {o[1] : o \in phi_ops'[c]} =
               IF HasPhi(c)' THEN visited' \cap Transpose(out')[c] ELSE {}
  <2>1. b \in Transpose(out)[c] <=> c \in out[b]
    BY DEF Transpose
  <2>2. CASE c \in out[b] /\ HasPhi(c)
    <3>1. phi_ops'[c] = phi_ops[c] \cup {operand(c)}
      BY <1>1, <2>2
    <3>20. operand(c)[1] = b
      OBVIOUS
    <3>2. {o[1] : o \in phi_ops'[c]} = {o[1] : o \in phi_ops[c]} \cup {b}
      <4> HIDE DEF operand
      <4> QED BY <3>1, <3>20
    <3> QED BY <1>2, <1>3, <2>1, <2>2, <3>2
  <2>3. CASE ~(c \in out[b] /\ HasPhi(c))
    <3>1. phi_ops'[c] = phi_ops[c]
      BY <1>1, <2>3
    <3> QED BY <1>2, <1>3, <2>1, <2>3, <3>1
  <2> QED BY <2>2, <2>3
<1>8. ASSUME NEW c \in Blocks, NEW o \in phi_ops[c]
      PROVE  o[1] \in visited /\ o[1] # b
  BY <1>3
<1>9. ASSUME NEW c \in Blocks, NEW o \in phi_ops'[c], NEW p \in phi_ops'[c], o[1] = p[1]
      PROVE  o = p
  <2>1. \A q \in phi_ops'[c] : q \in phi_ops[c] \/ q = operand(c)
    BY <1>1
  <2>2. operand(c)[1] = b
    OBVIOUS
  <2> HIDE DEF operand
  <2> QED BY <1>3, <1>8, <1>9, <2>1, <2>2
<1>10. ASSUME NEW c \in Blocks, NEW o \in phi_ops'[c]
       PROVE  DefinedAbove(o[2], o[1], Len(code[o[1]]) + 1)' \/ Unset(c, o)'
  <2>1. CASE o \in phi_ops[c]
    <3>1. o[1] \in visited /\ o[1] # b /\ o[1] \in Blocks
      BY <1>2, <1>8, <2>1
    <3>2. CASE DefinedAbove(o[2], o[1], Len(code[o[1]]) + 1)
      <4>1. PICK n : n = Len(code[o[1]]) + 1
        OBVIOUS
      <4>2. DefinedAbove(o[2], o[1], n)'
        BY <3>2, <4>1, DefinedStays
      <4>3. n = Len(code'[o[1]]) + 1
        BY <1>2, <3>1, <4>1
      <4> QED BY <4>2, <4>3
    <3>3. CASE Unset(c, o)
      <4>1. c \in visited /\ c # b /\ code'[c] = code[c] /\ o[2] = code'[c][1].rd
        BY <1>2, <3>3 DEF Unset
      <4>2. Up(o[1]) \subseteq visited
        BY <3>1 DEF WalkInv
      <4>3. \A x \in Up(o[1]) : Versions(x)' = {}
        BY <1>2, <3>3, <4>2 DEF Unset
      <4>4. c \in visited' /\ Up(o[1])' = Up(o[1])
        BY <1>2, <4>1
      <4> QED BY <4>1, <4>3, <4>4 DEF Unset
    <3> QED BY <1>3, <2>1, <3>2, <3>3
  <2>2. CASE o \notin phi_ops[c]
    <3>1. c \in out[b] /\ HasPhi(c) /\ o = operand(c)
      BY <1>1, <2>2
    <3>2. o[1] = b /\ o[2] = Top(stack', code'[c][1].rd)
      BY <3>1
    <3> DEFINE H == Len(stack)
               a == AllAssigned(b)
    <3>3. /\ Len(stack') = H + a /\ a \in Nat /\ H \in Nat
          /\ \A n \in 1..H : stack'[n] = stack[n]
          /\ \A n \in 1..a : stack'[H + n] = counter + n - 1
          /\ Versions(b)' = counter..(counter + a - 1)
          /\ counter \in Nat
      BY DEF Entered, IsPushed, StackInv, VersInv
    <3> HIDE DEF H, a, operand
    <3>4. CASE stack' = <<>>
      <4>1. o[2] = code'[c][1].rd
        BY <3>2, <3>4 DEF Top
      <4>2. CASE c \in visited'
        <5>1. H = 0 /\ a = 0
          BY <3>3, <3>4
        <5>2. stack = <<>>
          BY <5>1 DEF StackInv, H
        <5>3. \A x \in Up(b) \ {b} : Versions(x) = {} /\ x \in Blocks
          BY <5>2, StackEmpty DEF Up
        <5>4. Versions(b)' = {}
          BY <3>3, <5>1
        <5>5. \A x \in Up(b) : Versions(x)' = {}
          BY <1>2, <5>3, <5>4
        <5> QED BY <1>2, <3>2, <4>1, <4>2, <5>5 DEF Unset
      <4>3. CASE c \notin visited'
        <5>1. c \in Blocks \ visited /\ code'[c] = code[c]
          BY <1>2, <4>3
        <5>2. code[c] \in Seq(Raw) /\ code[c] # <<>> /\ code[c][1].op = "phi"
          BY <3>1, <5>1 DEF VersInv, HasPhi
        <5>3. code[c][1] \in Raw
          BY <5>2
        <5>4. o[2] = Base
          BY <4>1, <5>1, <5>2, <5>3 DEF Raw
        <5> QED BY <5>4 DEF DefinedAbove
      <4> QED BY <4>2, <4>3
    <3>5. CASE stack' # <<>>
      <4> DEFINE K == Len(stack')
      <4>1. K \in 1..(H + a) /\ o[2] = stack'[K]
        BY <1>2, <3>2, <3>3, <3>5 DEF Top
      <4>2. PICK n : n = Len(code[b]) + 1
        OBVIOUS
      <4>20. n = Len(code'[b]) + 1 /\ code' \in [Blocks -> Seq(Insns)]
        BY <1>2, <4>2
      <4> HIDE DEF K
      <4>3. CASE K \in 1..H
        <5>1. o[2] = stack[K]
          BY <3>3, <4>1, <4>3
        <5>2. DefinedAbove(o[2], b, n)
          BY <4>3, <5>1, StackAbove DEF H
        <5>3. DefinedAbove(o[2], b, n)'
          BY <5>2, DefinedStays
        <5> QED BY <3>2, <4>20, <5>3
      <4>4. CASE K \notin 1..H
        <5>1. K - H \in 1..a /\ K = H + (K - H)
          BY <3>3, <4>1, <4>4
        <5>2. o[2] = counter + (K - H) - 1
          BY <3>3, <4>1, <5>1
        <5>3. o[2] \in counter..(counter + a - 1)
          BY <3>3, <5>1, <5>2
        <5>4. o[2] \in Versions(b)'
          BY <3>3, <5>3
        <5>5. PICK m \in 1..Len(code'[b]) : code'[b][m].rd = o[2]
          BY <5>4 DEF Versions
        <5>6. m < n
          BY <4>20, <5>5
        <5>7. DefinedAbove(o[2], b, n)'
          BY <5>5, <5>6 DEF DefinedAbove
        <5> QED BY <3>2, <4>20, <5>7
      <4> QED BY <4>3, <4>4
    <3> QED BY <3>4, <3>5
  <2> QED BY <2>1, <2>2
<1> QED BY <1>6, <1>7, <1>9, <1>10 DEF OpInv

LEMMA SsaEnter == SsaInv /\ (EnterFunction \/ EnterChild) => SsaInv'
<1> SUFFICES ASSUME SsaInv, EnterFunction \/ EnterChild PROVE SsaInv'
  OBVIOUS
<1>1. pc = "rename" /\ TreeInv /\ WalkInv /\ VersInv /\ StackInv /\ UseInv /\ OpInv
  BY DEF SsaInv, RenameInv, EnterFunction, EnterChild
<1>2. PICK b \in Blocks \ visited : Enter(b) /\ Below(b)
  BY <1>1, BelowIs
<1>3. Entered(b)
  BY <1>1, <1>2, EnterIs
<1>4. WalkInv'
  BY <1>1, <1>2, <1>3, EnterWalk
<1>5. VersInv'
  BY <1>1, <1>2, <1>3, EnterVers
<1>6. StackInv'
  BY <1>1, <1>2, <1>3, EnterStack
<1>7. UseInv'
  BY <1>1, <1>2, <1>3, EnterUse
<1>8. OpInv'
  BY <1>1, <1>2, <1>3, <1>4, <1>5, EnterOps
<1>9. TreeInv' /\ pc' = "rename"
  BY <1>1, <1>3 DEF Entered, TreeInv, program
<1> QED BY <1>4, <1>5, <1>6, <1>7, <1>8, <1>9 DEF SsaInv, RenameInv

-----------------------------------------------------------------------------
(* A block is left.                                                        *)

LEMMA SsaLeave == SsaInv /\ LeaveBlock => SsaInv'
<1> SUFFICES ASSUME SsaInv, LeaveBlock PROVE SsaInv'
  OBVIOUS
<1> DEFINE L == Len(frames)
           H == Len(stack)
           a == AllAssigned(frames[L])
<1>1. pc = "rename" /\ TreeInv /\ WalkInv /\ VersInv /\ StackInv /\ UseInv /\ OpInv
  BY DEF SsaInv, RenameInv, LeaveBlock
<1>2. /\ frames # <<>> /\ tree[frames[L]] \subseteq visited
      /\ stack' = SubSeq(stack, 1, H - a) /\ frames' = SubSeq(frames, 1, L - 1)
      /\ code' = code /\ pc' = pc /\ visited' = visited /\ counter' = counter
      /\ phi_ops' = phi_ops /\ out' = out /\ tree' = tree /\ kind' = kind
  BY DEF LeaveBlock, program
<1>20. \A c : AllAssigned(c)' = AllAssigned(c)
  BY <1>2 DEF AllAssigned, Assigned
<1>21. \A c : Versions(c)' = Versions(c)
  BY <1>2 DEF Versions
<1>22. \A c : Up(c)' = Up(c)
  BY <1>2 DEF Up
<1>23. \A c : HasPhi(c)' <=> HasPhi(c)
  BY <1>2 DEF HasPhi
<1>24. \A v, c, n : DefinedAbove(v, c, n)' <=> DefinedAbove(v, c, n)
  BY <1>2 DEF DefinedAbove
<1>25. \A c, o : Unset(c, o)' <=> Unset(c, o)
  BY <1>2, <1>21, <1>22 DEF Unset
<1>3. frames \in Seq(visited) /\ L \in Nat /\ L >= 1
  BY <1>1, <1>2 DEF WalkInv
<1>4. /\ frames' \in Seq(visited) /\ Len(frames') = L - 1
      /\ \A k \in 1..(L - 1) : frames'[k] = frames[k]
  <2>1. \A k \in 1..(L - 1) : frames[k] \in visited
    BY <1>3
  <2>2. L - 1 \in Int /\ 1 \in Int
    BY <1>3
  <2> HIDE DEF L
  <2>3. /\ frames' \in Seq(visited) /\ Len(frames') = IF 1 <= L - 1 THEN L - 1 - 1 + 1 ELSE 0
        /\ \A k \in 1..(L - 1 - 1 + 1) : frames'[k] = frames[1 + k - 1]
    BY <1>2, <2>1, <2>2, SubSeqProperties
  <2>4. L - 1 - 1 + 1 = L - 1 /\ (~(1 <= L - 1) => L - 1 = 0) /\ \A k \in 1..(L - 1) : 1 + k - 1 = k
    BY <1>3
  <2> QED BY <2>3, <2>4
<1>5. TreeInv' /\ pc' = "rename"
  BY <1>1, <1>2 DEF TreeInv
<1>6. WalkInv'
  <2>1. /\ visited' = visited /\ visited \subseteq Blocks /\ (visited # {} => entry \in visited)
        /\ \A c \in visited : \/ tree[c] \subseteq visited
                              \/ \E k \in 1..L : frames[k] = c
        /\ \A c \in visited : Up(c) \subseteq visited
        /\ \A k \in 1..L : {frames[j] : j \in 1..k} = Up(frames[k])
        /\ \A c : Up(c)' = Up(c)
    BY <1>1, <1>2 DEF WalkInv, Up
  <2>2. ASSUME NEW c \in visited, ~(tree[c] \subseteq visited)
        PROVE  \E k \in 1..(L - 1) : frames'[k] = c
    <3>1. PICK k \in 1..L : frames[k] = c
      BY <2>1, <2>2
    <3>2. k # L
      BY <1>2, <2>2, <3>1
    <3>3. k \in 1..(L - 1)
      BY <1>3, <3>2
    <3> QED BY <1>4, <3>1, <3>3
  <2>3. ASSUME NEW k \in 1..(L - 1)
        PROVE  {frames'[j] : j \in 1..k} = Up(frames'[k])
    <3>1. k \in 1..L /\ frames'[k] = frames[k] /\ \A j \in 1..k : frames'[j] = frames[j]
      BY <1>3, <1>4
    <3>2. {frames'[j] : j \in 1..k} = {frames[j] : j \in 1..k}
      BY <3>1
    <3> QED BY <2>1, <3>1, <3>2
  <2>4. \A k \in 1..Len(frames') :
          {frames'[j] : j \in 1..k} = {x \in Blocks : Dominates(out', entry, x, frames'[k])}
    BY <1>2, <1>4, <2>3 DEF Up
  <2>5. \A c \in visited' : \/ tree'[c] \subseteq visited'
                            \/ \E k \in 1..Len(frames') : frames'[k] = c
    BY <1>2, <1>4, <2>1, <2>2
  <2>6. \A c \in visited' : Up(c)' \subseteq visited'
    BY <2>1
  <2> QED BY <1>4, <2>1, <2>4, <2>5, <2>6, Zenon DEF WalkInv, Up
<1>7. VersInv'
  BY <1>1, <1>2, <1>20, <1>21 DEF VersInv
<1>8. UseInv'
  BY <1>1, <1>2, <1>24 DEF UseInv
<1>9. OpInv'
  BY <1>1, <1>2, <1>23, <1>24, <1>25 DEF OpInv
<1>10. StackInv'
  <2>1. /\ stack \in Seq(Nat) /\ H \in Nat /\ \A n \in 1..H : stack[n] \in Nat
        /\ \A n \in 1..H : stack[n] < counter
        /\ \A m, n \in 1..H : m < n => stack[m] < stack[n]
    BY <1>1 DEF StackInv
  <2>2. PICK h \in [0..L -> 0..H] : Heights(h)
    BY <1>1 DEF StackInv
  <2>3. /\ h[L] = H /\ \A k \in 1..L : h[k] = h[k - 1] + AllAssigned(frames[k])
        /\ \A k \in 0..L : {stack[n] : n \in 1..h[k]}
                             = (UNION {Versions(frames[j]) : j \in 1..k}) \cup Basis
    BY <2>2 DEF Heights
  <2>4. a \in Nat
    <3>1. code[frames[L]] \in Seq(Insns)
      BY <1>1, <1>3 DEF VersInv, WalkInv
    <3> HIDE DEF L
    <3> QED BY <3>1, AllAssignedIs DEF a
  <2> HIDE DEF a, L, H
  <2>5. PICK K : K = L - 1
    OBVIOUS
  <2>6. K \in 0..L /\ K \in Nat /\ L = K + 1 /\ L \in 1..L
    BY <1>3, <2>5
  <2>7. H - a = h[K] /\ h[K] \in 0..H
    <3>1. h[L] = h[L - 1] + a
      BY <2>3, <2>6 DEF a
    <3>2. h[K] \in 0..H
      BY <2>2, <2>6
    <3> QED BY <2>1, <2>3, <2>4, <2>5, <3>1, <3>2
  <2>8. PICK l : l = h[K]
    OBVIOUS
  <2>9. l \in 0..H /\ \A n \in 1..l : n \in 1..H
    BY <2>1, <2>7, <2>8
  <2>10. stack' \in Seq(Nat) /\ Len(stack') = l /\ \A n \in 1..l : stack'[n] = stack[n]
    <3>1. stack' = SubSeq(stack, 1, l) /\ l \in Int /\ 1 \in Int
      BY <1>2, <2>1, <2>7, <2>8
    <3>2. \A n \in 1..l : stack[n] \in Nat
      BY <2>1, <2>9
    <3>3. /\ stack' \in Seq(Nat) /\ Len(stack') = IF 1 <= l THEN l - 1 + 1 ELSE 0
          /\ \A n \in 1..(l - 1 + 1) : stack'[n] = stack[1 + n - 1]
      BY <3>1, <3>2, SubSeqProperties
    <3>4. l \in Nat /\ l - 1 + 1 = l /\ (~(1 <= l) => l = 0) /\ \A n \in 1..l : 1 + n - 1 = n
      BY <2>1, <2>9
    <3> QED BY <3>3, <3>4
  <2>11. ASSUME NEW k \in 0..K PROVE h[k] <= l /\ h[k] \in Nat
    <3> DEFINE T == {i \in Nat : i <= K => h[K - i] <= l /\ h[K - i] \in Nat}
    <3>1. 0 \in T
      BY <2>1, <2>6, <2>8, <2>9
    <3>2. ASSUME NEW i \in Nat, i \in T PROVE i + 1 \in T
      <4>1. SUFFICES ASSUME i + 1 <= K PROVE h[K - (i + 1)] <= l /\ h[K - (i + 1)] \in Nat
        OBVIOUS
      <4>2. K - i \in 1..L /\ (K - i) - 1 = K - (i + 1) /\ K - (i + 1) \in 0..L
            /\ i <= K /\ K - i \in 1..Len(frames)
        BY <1>3, <2>6, <4>1 DEF L
      <4>3. h[K - i] = h[K - (i + 1)] + AllAssigned(frames[K - i])
        BY <2>3, <4>2
      <4>4. AllAssigned(frames[K - i]) \in Nat
        <5>1. frames[K - i] \in visited
          BY <1>3, <4>2
        <5>2. code[frames[K - i]] \in Seq(Insns)
          BY <1>1, <5>1 DEF VersInv, WalkInv
        <5> QED BY <5>2, AllAssignedIs
      <4>5. h[K - i] <= l /\ h[K - i] \in Nat /\ h[K - (i + 1)] \in 0..H
        BY <2>2, <3>2, <4>2
      <4> QED BY <2>1, <2>9, <4>3, <4>4, <4>5
    <3> HIDE DEF T
    <3>20. K - k \in Nat /\ K - (K - k) = k /\ K - k <= K
      BY <2>6
    <3>3. K - k \in T /\ K - k \in Nat /\ K - (K - k) = k /\ K - k <= K
      BY <3>1, <3>2, <3>20, SetInduction
    <3> QED BY <3>3 DEF T
  <2>12. PICK g \in [0..K -> 0..l] : \A k \in 0..K : g[k] = h[k]
    <3> DEFINE f == [k \in 0..K |-> h[k]]
    <3>1. \A k \in 0..K : h[k] \in 0..l
      BY <2>1, <2>9, <2>11
    <3>2. f \in [0..K -> 0..l] /\ \A k \in 0..K : f[k] = h[k]
      BY <3>1
    <3> HIDE DEF f
    <3> QED BY <3>2
  <2>13. Heights(g)'
    <3>1. Len(frames') = K /\ K \in 0..K
      BY <1>4, <2>5, <2>6 DEF L
    <3>2. g[Len(frames')] = Len(stack')
      BY <2>8, <2>10, <2>12, <3>1
    <3>3. \A c \in Blocks : AllAssigned(c)' = AllAssigned(c) /\ Versions(c)' = Versions(c)
      BY <1>2 DEF AllAssigned, Assigned, Versions
    <3>4. \A k \in 1..K : frames'[k] = frames[k] /\ frames[k] \in Blocks /\ k \in 1..L
      <4>1. \A k \in 1..K : k \in 1..(L - 1) /\ k \in 1..L
        BY <2>5, <2>6
      <4>2. \A k \in 1..L : frames[k] \in visited
        BY <1>3 DEF L
      <4>3. visited \subseteq Blocks
        BY <1>1 DEF WalkInv
      <4> QED BY <1>4, <4>1, <4>2, <4>3
    <3>5. \A k \in 1..Len(frames') : g[k] = g[k - 1] + (AllAssigned(frames[k]))'
      <4> SUFFICES ASSUME NEW k \in 1..K
                   PROVE  g[k] = g[k - 1] + (AllAssigned(frames[k]))'
        BY <3>1
      <4>1. k \in 0..K /\ k - 1 \in 0..K
        BY <2>6
      <4>2. h[k] = h[k - 1] + AllAssigned(frames[k])
        BY <2>3, <3>4
      <4>3. (AllAssigned(frames[k]))' = AllAssigned(frames[k])
        BY <3>3, <3>4
      <4> QED BY <2>12, <4>1, <4>2, <4>3
    <3>6. \A k \in 0..Len(frames') :
            {stack'[n] : n \in 1..g[k]} = (UNION {(Versions(frames[j]))' : j \in 1..k}) \cup Basis'
      <4> SUFFICES ASSUME NEW k \in 0..K
                   PROVE  {stack'[n] : n \in 1..g[k]}
                            = (UNION {(Versions(frames[j]))' : j \in 1..k}) \cup Basis'
        BY <3>1
      <4>1. k \in 0..L /\ \A j \in 1..k : j \in 1..K
        BY <2>6
      <4>2. \A n \in 1..g[k] : n \in 1..l
        BY <2>9, <2>12, <2>1
      <4>3. {stack'[n] : n \in 1..g[k]} = {stack[n] : n \in 1..h[k]}
        BY <2>10, <2>12, <4>2
      <4>4. \A j \in 1..k : (Versions(frames[j]))' = Versions(frames[j])
        BY <3>3, <3>4, <4>1
      <4>5. {(Versions(frames[j]))' : j \in 1..k} = {Versions(frames[j]) : j \in 1..k}
        BY <4>4
      <4>6. Basis' = Basis
        BY <1>2 DEF Basis
      <4> QED BY <2>3, <4>1, <4>3, <4>5, <4>6
    <3> QED BY <3>2, <3>5, <3>6 DEF Heights
  <2>14. g \in [0..Len(frames') -> 0..Len(stack')]
    BY <1>4, <2>5, <2>10 DEF L
  <2> QED BY <1>2, <2>1, <2>9, <2>10, <2>13, <2>14 DEF StackInv
<1> QED BY <1>1, <1>5, <1>6, <1>7, <1>8, <1>9, <1>10 DEF SsaInv, RenameInv

-----------------------------------------------------------------------------
(* The theorems.                                                           *)

LEMMA SsaNext == SsaInv /\ [Next]_vars => SsaInv'
<1> SUFFICES ASSUME SsaInv, [Next]_vars PROVE SsaInv'
  OBVIOUS
<1>1. CASE SolveGlobals \/ InsertPhis \/ StartRenaming
  BY <1>1, SsaBefore
<1>2. CASE EnterFunction \/ EnterChild
  BY <1>2, SsaEnter
<1>3. CASE LeaveBlock
  BY <1>3, SsaLeave
<1>4. CASE StartUnwinding \/ Unwind \/ StartRun \/ Execute \/ Jump
  <2>1. out' = out /\ tree' = tree /\ pc' \in {"unwind", "run"}
    BY <1>4 DEF StartUnwinding, Unwind, StartRun, Execute, Jump, program
  <2>2. TreeInv'
    BY <2>1 DEF SsaInv, TreeInv
  <2> QED BY <2>1, <2>2 DEF SsaInv
<1>5. CASE UNCHANGED vars
  <2>1. /\ out' = out /\ tree' = tree /\ pc' = pc /\ kind' = kind /\ code' = code
        /\ UNCHANGED renaming
    BY <1>5 DEF vars, program
  <2>2. /\ frames' = frames /\ visited' = visited /\ stack' = stack /\ counter' = counter
        /\ phi_ops' = phi_ops
    BY <2>1 DEF renaming
  <2>3. TreeInv'
    BY <2>1 DEF SsaInv, TreeInv
  <2>4. pc \in {"globals", "phis"} => ClearInv'
    BY <2>1, <2>2 DEF SsaInv, ClearInv
  <2>5. ASSUME pc = "rename" PROVE RenameInv'
    <3>1. WalkInv /\ VersInv /\ StackInv /\ UseInv /\ OpInv
      BY <2>5 DEF SsaInv, RenameInv
    <3>2. \A c : AllAssigned(c)' = AllAssigned(c)
      BY <2>1 DEF AllAssigned, Assigned
    <3>3. \A c : Versions(c)' = Versions(c)
      BY <2>1 DEF Versions
    <3>4. \A c : Up(c)' = Up(c)
      BY <2>1 DEF Up
    <3>5. \A c : HasPhi(c)' <=> HasPhi(c)
      BY <2>1 DEF HasPhi
    <3>6. \A v, c, n : DefinedAbove(v, c, n)' <=> DefinedAbove(v, c, n)
      BY <2>1 DEF DefinedAbove
    <3>7. \A c, o : Unset(c, o)' <=> Unset(c, o)
      BY <2>1, <2>2, <3>3, <3>4 DEF Unset
    <3>8. WalkInv'
      BY <2>1, <2>2, <3>1 DEF WalkInv, Up
    <3>9. VersInv'
      BY <2>1, <2>2, <3>1, <3>2, <3>3 DEF VersInv
    <3>10. \A h : Heights(h)' <=> Heights(h)
      BY <2>1, <2>2 DEF Heights, AllAssigned, Assigned, Versions, Basis
    <3>11. StackInv'
      BY <2>2, <3>1, <3>10 DEF StackInv
    <3>12. UseInv'
      BY <2>1, <2>2, <3>1, <3>6 DEF UseInv
    <3>13. OpInv'
      BY <2>1, <2>2, <3>1, <3>5, <3>6, <3>7 DEF OpInv
    <3> QED BY <3>8, <3>9, <3>11, <3>12, <3>13 DEF RenameInv
  <2> QED BY <2>1, <2>3, <2>4, <2>5 DEF SsaInv
<1>6. CASE Return
  BY <1>5, <1>6 DEF Return
<1> QED BY <1>1, <1>2, <1>3, <1>4, <1>5, <1>6 DEF Next

\* The inductive invariant holds in every state.
THEOREM RenamingInvariance == Spec => []SsaInv
<1> QED BY SsaInit, SsaNext, PTL DEF Spec

\* rename.stack holds the versions of the blocks the walk is in, in the order in
\* which new_name() gave them out, and no others: what pop_name() takes off is
\* always what the block that is left has put there.
THEOREM StackOfPath == Spec => []StackIsPath
<1>1. SsaInv => StackIsPath
  <2> SUFFICES ASSUME SsaInv, pc = "rename" PROVE StackIsPath
    BY DEF StackIsPath
  <2>1. WalkInv /\ StackInv
    BY DEF SsaInv, RenameInv
  <2> DEFINE L == Len(frames)
  <2>2. PICK h \in [0..L -> 0..Len(stack)] : Heights(h)
    BY <2>1 DEF StackInv
  <2>3. L \in 0..L /\ h[L] = Len(stack)
    BY <2>1, <2>2 DEF WalkInv, Heights
  <2>4. {stack[i] : i \in 1..h[L]} = (UNION {Versions(frames[j]) : j \in 1..L}) \cup Basis
    BY <2>2, <2>3, Zenon DEF Heights
  <2>5. \A m, n \in 1..Len(stack) : m < n => stack[m] < stack[n]
    BY <2>1 DEF StackInv
  <2> QED BY <2>3, <2>4, <2>5, Zenon DEF StackIsPath, Basis
<1> QED BY <1>1, RenamingInvariance, PTL

\* When the walk is over it has been in every block.
LEMMA AllVisited == ASSUME SsaInv, Renaming PROVE RenameInv /\ visited = Blocks
<1>1. RenameInv /\ WalkInv /\ TreeInv /\ frames = <<>> /\ visited # {}
  BY DEF SsaInv, RenameInv, Renaming
<1>2. entry \in visited /\ visited \subseteq Blocks
  BY <1>1 DEF WalkInv
<1>3. \A a \in visited : tree[a] \subseteq visited
  BY <1>1 DEF WalkInv
<1>4. \A a \in visited \cap Blocks : \A b \in Blocks \ {entry} :
         IsIdom(out, entry, a, b) => b \in visited
  BY <1>1, <1>3 DEF TreeInv
<1>5. Connected(out, entry)
  BY <1>1 DEF TreeInv
<1>6. Blocks \subseteq visited
  BY <1>2, <1>4, <1>5, TreeSpans
<1> QED BY <1>1, <1>2, <1>6

\* The form is what its name says, in every function and for each kind of
\* variable: one assignment per version, above every use and every edge it is
\* the phi's operand for.
THEOREM OneAssignment == Spec => []SingleAssignment
<1>1. SsaInv => SingleAssignment
  <2> SUFFICES ASSUME SsaInv, Renaming PROVE SingleAssignment
    BY DEF SingleAssignment
  <2>1. VersInv /\ UseInv /\ OpInv /\ visited = Blocks
    BY AllVisited DEF RenameInv
  <2>2. \A b, c \in Blocks : b # c => Versions(b) \cap Versions(c) = {}
    BY <2>1 DEF VersInv
  <2>3. ASSUME NEW b \in Blocks PROVE Cardinality(Versions(b)) = AllAssigned(b)
    <3>1. code[b] \in Seq(Insns)
      BY <2>1 DEF VersInv
    <3>2. AllAssigned(b) \in Nat
      BY <3>1, AllAssignedIs
    <3>3. PICK f \in Nat : Versions(b) = f..(f + AllAssigned(b) - 1)
      BY <2>1 DEF VersInv
    <3>4. f \in Int /\ f + AllAssigned(b) - 1 \in Int
      BY <3>2
    <3>5. Cardinality(f..(f + AllAssigned(b) - 1))
            = IF f > f + AllAssigned(b) - 1 THEN 0
              ELSE (f + AllAssigned(b) - 1) - f + 1
      BY <3>4, FS_Interval
    <3>6. Cardinality(f..(f + AllAssigned(b) - 1)) = AllAssigned(b)
      <4> DEFINE c == AllAssigned(b)
                 C == Cardinality(f..(f + AllAssigned(b) - 1))
      <4>1. c \in Nat /\ f \in Nat /\ C = IF f > f + c - 1 THEN 0 ELSE (f + c - 1) - f + 1
        BY <3>2, <3>5
      <4> HIDE DEF c, C
      <4>2. C = c
        BY <4>1
      <4> QED BY <4>2 DEF c, C
    <3> QED BY <3>3, <3>6
  <2>4. \A b \in Blocks : \A n \in 1..Len(code[b]) :
          code[b][n].rs # NoVar => DefinedAbove(code[b][n].rs, b, n)
    BY <2>1 DEF UseInv
  <2>5. \A b \in Blocks : \A o \in phi_ops[b] :
           \/ DefinedAbove(o[2], o[1], Len(code[o[1]]) + 1)
           \/ /\ o[2] = code[b][1].rd
              /\ ~\E c \in Blocks : Versions(c) # {} /\ Dominates(out, entry, c, o[1])
    BY <2>1 DEF OpInv, Unset, Up
  <2> QED BY <2>2, <2>3, <2>4, <2>5, Zenon DEF SingleAssignment
<1> QED BY <1>1, RenamingInvariance, PTL

\* bb_solve_phi_params() gives a phi one operand for each edge into its block:
\* none is left out because its block was entered late, none is there twice.
THEOREM OperandPerEdge == Spec => []PhiOperands
<1>1. SsaInv => PhiOperands
  <2> SUFFICES ASSUME SsaInv, Renaming, NEW b \in Blocks, HasPhi(b)
               PROVE  /\ {o[1] : o \in phi_ops[b]} = Transpose(out)[b]
                      /\ Cardinality(phi_ops[b]) = Cardinality(Transpose(out)[b])
    BY DEF PhiOperands
  <2>1. OpInv /\ visited = Blocks
    BY AllVisited DEF RenameInv
  <2> DEFINE T == Transpose(out)[b]
             f == [o \in phi_ops[b] |-> o[1]]
  <2>2. T \in SUBSET Blocks
    BY DEF Transpose
  <2>3. {o[1] : o \in phi_ops[b]} = T /\ \A o, p \in phi_ops[b] : o[1] = p[1] => o = p
    BY <2>1, <2>2 DEF OpInv
  <2>4. IsFiniteSet(T)
    BY <2>2, BlocksFinite, FS_Subset
  <2> HIDE DEF T
  <2>5. f \in Bijection(phi_ops[b], T)
    BY <2>3 DEF Bijection, Injection, Surjection, IsInjective
  <2>6. f \in Injection(phi_ops[b], T)
    BY <2>5 DEF Bijection
  <2>7. IsFiniteSet(phi_ops[b])
    BY <2>4, <2>6, FS_Injection
  <2>8. ExistsBijection(phi_ops[b], T)
    BY <2>5 DEF ExistsBijection
  <2>9. Cardinality(T) = Cardinality(phi_ops[b])
    BY <2>7, <2>8, FS_Bijection
  <2> QED BY <2>3, <2>9 DEF T
<1> QED BY <1>1, RenamingInvariance, PTL
=============================================================================
