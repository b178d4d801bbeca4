------------------------------ MODULE UsesProofs -----------------------------
(***************************************************************************)
(* Every use of a variable gets the value the variable has, for every      *)
(* number of blocks: the phis that solve_phi_insertion() places are        *)
(* enough, rename_var() chooses the latest version above, and the copies   *)
(* that unwind_phi() makes of a phi leave the latest version as it is.     *)
(***************************************************************************)
EXTENDS SsaProofs

-----------------------------------------------------------------------------
(* The shape of the code, before and after it gets its versions.           *)

\* Where the variable may have a value.
Live == inside \cup {decl}

\* Assignments of the program, the declaration included.
Real(i) == i.op \in {"insn", "allocat"} /\ i.rd # NoVar
Sets(s, n) == \E m \in 1..(n - 1) : Real(s[m])

\* The two assignments to a result of && || ?: meet at j.
Met(j) ==
    /\ \E a, c \in Blocks : a # c /\ Transpose(out)[j] = {a, c}
    /\ \A p \in Transpose(out)[j] : out[p] = {j} /\ Sets(code[p], Len(code[p]) + 1)
    /\ \A b \in Blocks : \A n \in 1..Len(code[b]) :
         /\ Real(code[b][n]) => b \in Transpose(out)[j]
         /\ code[b][n].rs # NoVar => Dominates(out, entry, j, b)

KindInv ==
    /\ kind \in {"param", "local", "global", "ret"}
    /\ df = [b \in Blocks |-> Frontier(out, entry, b)]
    /\ out[exit] = {} /\ \A p \in Blocks : entry \notin out[p]
    /\ kind = "param" => decl = entry /\ inside = Blocks /\ scope = Blocks
    /\ kind = "global" => inside = Blocks
    /\ kind = "local" => decl \in Inner /\ inside \subseteq Inner /\ scope = inside \cup {decl}
    /\ kind = "ret" => decl = 0 /\ inside = Blocks /\ scope = Inner

ShapeOf(s, b, n) ==
    LET i == s[n] IN
    /\ i.op \in {"insn", "allocat", "branch", "phi"}
    /\ i.op = "phi" => n = 1 /\ i.rs = NoVar /\ i.rd # NoVar /\ kind # "global"
    /\ i.op = "branch" => n = Len(s) /\ i.rd = NoVar
    /\ i.op = "allocat" => n = 1 /\ b = decl /\ kind = "local" /\ i.rs = NoVar
    /\ i.op = "insn" /\ i.rd # NoVar => b \in Live
    /\ i.rs # NoVar => b \in Live \cap Inner
    /\ kind = "global" => i.rd \in {NoVar, Base} /\ i.rs \in {NoVar, Base}
ShapeInv ==
    /\ \A b \in Blocks : \A n \in 1..Len(code[b]) : ShapeOf(code[b], b, n)
    /\ kind = "local" => /\ Len(code[decl]) >= 1 /\ Sets(code[decl], 2)
                         /\ code[decl][1].rs = NoVar
    /\ kind = "ret" => \E j \in Inner : Met(j)

\* What Code() puts together: the declaration, the body and the branch.
CodeOf(s, f, o, d, tests, b) ==
    /\ s \in Seq(Raw)
    /\ b = d => Len(s) >= 1 /\ s[1] = Insn("allocat", Base, NoVar)
    /\ b \in Inner => \A m \in 1..Len(f[b]) : \E n \in 1..Len(s) : s[n] = f[b][m]
    /\ \A n \in 1..Len(s) :
         \/ n = 1 /\ b = d /\ s[n] = Insn("allocat", Base, NoVar)
         \/ b \in Inner /\ \E m \in 1..Len(f[b]) : s[n] = f[b][m]
         \/ /\ n = Len(s) /\ b \in Branching(o)
            /\ s[n] = Insn("branch", NoVar, IF b \in tests THEN Base ELSE NoVar)

LEMMA Joining ==
    ASSUME NEW S, NEW a \in Seq(S), NEW f \in Seq(S), NEW t \in Seq(S),
           Len(t) \in {0, 1}
    PROVE  LET s == (a \o f) \o t
           IN  /\ Len(s) = Len(a) + Len(f) + Len(t)
               /\ \A n \in 1..Len(a) : s[n] = a[n]
               /\ \A n \in 1..Len(f) : s[Len(a) + n] = f[n]
               /\ \A n \in 1..Len(s) : \/ n \in 1..Len(a)
                                       \/ n - Len(a) \in 1..Len(f)
                                       \/ n = Len(s) /\ Len(t) = 1 /\ s[n] = t[1]
<1> DEFINE u == a \o f
           s == u \o t
<1>1. u \in Seq(S) /\ Len(u) = Len(a) + Len(f)
      /\ \A n \in 1..(Len(a) + Len(f)) : u[n] = IF n <= Len(a) THEN a[n] ELSE f[n - Len(a)]
  BY ConcatProperties
<1> HIDE DEF u
<1>2. Len(s) = Len(u) + Len(t)
      /\ \A n \in 1..(Len(u) + Len(t)) : s[n] = IF n <= Len(u) THEN u[n] ELSE t[n - Len(u)]
  <2>1. u \in Seq(S) /\ t \in Seq(S)
    BY <1>1
  <2> QED BY <2>1, ConcatProperties
<1> HIDE DEF s
<1>3. Len(a) \in Nat /\ Len(f) \in Nat
  OBVIOUS
<1>4. \A n \in 1..Len(a) : s[n] = a[n]
  <2> TAKE n \in 1..Len(a)
  <2>1. n \in 1..(Len(u) + Len(t)) /\ n <= Len(u) /\ n \in 1..(Len(a) + Len(f)) /\ n <= Len(a)
    BY <1>1, <1>3
  <2> QED BY <1>1, <1>2, <2>1
<1>5. \A n \in 1..Len(f) : s[Len(a) + n] = f[n]
  <2> TAKE n \in 1..Len(f)
  <2> DEFINE k == Len(a) + n
  <2>1. /\ k \in 1..(Len(u) + Len(t)) /\ k <= Len(u) /\ k \in 1..(Len(a) + Len(f))
        /\ ~(k <= Len(a)) /\ k - Len(a) = n
    BY <1>1, <1>3
  <2> HIDE DEF k
  <2>2. s[k] = f[n]
    BY <1>1, <1>2, <2>1
  <2> QED BY <2>2 DEF k
<1>6. ASSUME NEW n \in 1..Len(s)
      PROVE  \/ n \in 1..Len(a) \/ n - Len(a) \in 1..Len(f)
             \/ n = Len(s) /\ Len(t) = 1 /\ s[n] = t[1]
  <2>1. n \in 1..(Len(u) + Len(t)) /\ Len(u) \in Nat
    BY <1>1, <1>2
  <2>2. CASE n <= Len(u)
    BY <1>1, <1>3, <2>1, <2>2
  <2>3. CASE ~(n <= Len(u))
    <3>1. Len(t) = 1 /\ n - Len(u) = 1 /\ n = Len(s)
      BY <1>2, <2>1, <2>3
    <3> QED BY <1>2, <2>1, <2>3, <3>1
  <2> QED BY <2>2, <2>3
<1>7. Len(s) = Len(a) + Len(f) + Len(t)
  BY <1>1, <1>2
<1> QED BY <1>4, <1>5, <1>6, <1>7 DEF s, u

LEMMA CodeIs ==
    ASSUME NEW f \in [Inner -> Bodies], NEW o, NEW d, NEW tests, NEW b \in Blocks
    PROVE  CodeOf(Code(f, o, d, tests)[b], f, o, d, tests, b)
<1> DEFINE A == IF b = d THEN <<Insn("allocat", Base, NoVar)>> ELSE <<>>
           F == IF b = exit THEN <<>> ELSE f[b]
           i == Insn("branch", NoVar, IF b \in tests THEN Base ELSE NoVar)
           T == IF b \notin Branching(o) THEN <<>> ELSE <<i>>
           s == (A \o F) \o T
<1>1. Code(f, o, d, tests)[b] = s
  BY DEF Code
<1>2. s \in Seq(Raw)
  <2>1. Code(f, o, d, tests) \in [Blocks -> Seq(Raw)]
    BY CodeRaw
  <2> HIDE DEF s
  <2> QED BY <1>1, <2>1
<1>3. A \in Seq(Raw) /\ F \in Seq(Raw) /\ T \in Seq(Raw)
  <2>1. Insn("allocat", Base, NoVar) \in Raw /\ i \in Raw
    BY DEF Insn, Raw, Insns, Subscripts
  <2>2. Use \in Raw /\ Def \in Raw /\ Update \in Raw
    BY DEF Use, Def, Update, Insn, Raw, Insns, Subscripts, NoVar, Base
  <2> HIDE DEF Use, Def, Update, i
  <2>3. \A body \in Bodies : body \in Seq(Raw)
    <3>1. <<>> \in Seq(Raw) /\ <<Use>> \in Seq(Raw) /\ <<Def>> \in Seq(Raw)
      BY <2>2
    <3>2. <<Update>> \in Seq(Raw) /\ <<Def, Use>> \in Seq(Raw)
      BY <2>2
    <3> QED BY <3>1, <3>2 DEF Bodies
  <2>4. F \in Seq(Raw)
    BY <2>3 DEF Inner
  <2> QED BY <2>1, <2>4
<1>4. Len(T) \in {0, 1} /\ (Len(T) = 1 => b \in Branching(o) /\ T[1] = i)
  OBVIOUS
<1>5. /\ Len(A) = IF b = d THEN 1 ELSE 0
      /\ b = d => A[1] = Insn("allocat", Base, NoVar)
  OBVIOUS
<1>6. b \in Inner => F = f[b]
  BY DEF Inner
<1>inner. Len(F) > 0 => b \in Inner
  BY DEF Inner
<1> HIDE DEF A, F, T, i
<1>7. /\ Len(s) = Len(A) + Len(F) + Len(T)
      /\ \A n \in 1..Len(A) : s[n] = A[n]
      /\ \A n \in 1..Len(F) : s[Len(A) + n] = F[n]
      /\ \A n \in 1..Len(s) : \/ n \in 1..Len(A)
                              \/ n - Len(A) \in 1..Len(F)
                              \/ n = Len(s) /\ Len(T) = 1 /\ s[n] = T[1]
  BY <1>3, <1>4, Joining
<1>8. Len(A) \in Nat /\ Len(F) \in Nat /\ Len(T) \in Nat
  BY <1>3
<1> HIDE DEF s
<1>9. b = d => Len(s) >= 1 /\ s[1] = Insn("allocat", Base, NoVar)
  <2> HAVE b = d
  <2>1. 1 \in 1..Len(A) /\ Len(s) >= 1
    BY <1>5, <1>7, <1>8
  <2> QED BY <1>5, <1>7, <2>1
<1>10. ASSUME b \in Inner, NEW m \in 1..Len(f[b]) PROVE \E n \in 1..Len(s) : s[n] = f[b][m]
  <2>1. m \in 1..Len(F) /\ F[m] = f[b][m]
    BY <1>6, <1>10
  <2>2. Len(A) + m \in 1..Len(s)
    BY <1>7, <1>8, <2>1
  <2> QED BY <1>7, <2>1, <2>2
<1>11. ASSUME NEW n \in 1..Len(s)
       PROVE  \/ n = 1 /\ b = d /\ s[n] = Insn("allocat", Base, NoVar)
              \/ b \in Inner /\ \E m \in 1..Len(f[b]) : s[n] = f[b][m]
              \/ n = Len(s) /\ b \in Branching(o) /\ s[n] = i
  <2>1. CASE n \in 1..Len(A)
    <3>1. b = d /\ n = 1
      BY <1>5, <2>1
    <3> QED BY <1>5, <1>7, <2>1, <3>1
  <2>2. CASE n - Len(A) \in 1..Len(F)
    <3>1. b \in Inner /\ n - Len(A) \in 1..Len(f[b])
      BY <1>6, <1>inner, <1>8, <2>2
    <3>2. n = Len(A) + (n - Len(A))
      BY <1>8
    <3>3. s[n] = f[b][n - Len(A)]
      BY <1>6, <1>7, <2>2, <3>1, <3>2
    <3> QED BY <3>1, <3>3
  <2>3. CASE n = Len(s) /\ Len(T) = 1 /\ s[n] = T[1]
    BY <1>4, <2>3
  <2> QED BY <1>7, <2>1, <2>2, <2>3
<1>12. s \in Seq(Raw)
  BY <1>2 DEF s
<1> QED BY <1>1, <1>9, <1>10, <1>11, <1>12 DEF CodeOf, s, i

\* The instructions of a body.
LEMMA BodyIs ==
    ASSUME NEW body \in Bodies, NEW m \in 1..Len(body)
    PROVE  body[m].op = "insn" /\ {body[m].rd, body[m].rs} \subseteq {NoVar, Base}
<1>1. \A i \in {Use, Def, Update} : i.op = "insn" /\ {i.rd, i.rs} \subseteq {NoVar, Base}
  BY DEF Use, Def, Update, Insn
<1> HIDE DEF Use, Def, Update
<1>2. body[m] \in {Use, Def, Update}
  BY DEF Bodies
<1> QED BY <1>1, <1>2

LEMMA Two ==
    ASSUME NEW S, Cardinality(S) = 2, S \subseteq Blocks
    PROVE  \E a, c \in S : a # c /\ S = {a, c}
<1>1. IsFiniteSet(S)
  BY BlocksFinite, FS_Subset
<1>2. PICK a : a \in S
  BY FS_EmptySet
<1>3. IsFiniteSet(S \ {a}) /\ Cardinality(S \ {a}) = 1
  BY <1>1, <1>2, FS_RemoveElement
<1>4. PICK c : c \in S \ {a}
  BY <1>3, FS_EmptySet
<1>5. IsFiniteSet((S \ {a}) \ {c}) /\ Cardinality((S \ {a}) \ {c}) = 0
  BY <1>3, <1>4, FS_RemoveElement
<1>6. (S \ {a}) \ {c} = {}
  BY <1>5, FS_EmptySet
<1> QED BY <1>2, <1>4, <1>6

\* The variable and its code as the parser leaves them.
LEMMA UsesInit ==
    ASSUME Reopened = FALSE, Init
    PROVE  KindInv /\ ShapeInv /\ \A b \in Blocks : ~HasPhi(b)
<1>0. out \in FlowGraphs /\ df = [b \in Blocks |-> Frontier(out, entry, b)]
  BY DEF Init, Graphs
<1>1. IsGraph(out) /\ out[exit] = {} /\ \A p \in Blocks : entry \notin out[p]
  BY <1>0, FlowRooted
<1>2. \A b \in Branching(out) : b \in Inner
  <2>1. Cardinality(out[exit]) = 0
    BY <1>1, FS_EmptySet
  <2> QED BY <2>1 DEF Branching, Inner
<1>3. Inner \subseteq Blocks
  BY DEF Inner
<1> DEFINE Param(f, tests) ==
             /\ kind \in {"param", "global"}
             /\ decl = (IF kind = "param" THEN entry ELSE 0)
             /\ inside = Blocks /\ scope = (IF kind = "param" THEN Blocks ELSE {})
             /\ code = Code(f, out, 0, tests)
           Ret(f, tests) ==
             /\ kind = "ret" /\ \E j \in Inner : MeetAt(out, f, j)
             /\ tests = {}
             /\ decl = 0 /\ inside = Blocks /\ scope = Inner
             /\ code = Code(f, out, 0, tests)
           Local(f, tests) ==
             /\ kind = "local" /\ decl \in Inner
             /\ inside \in Regions(out, decl)
             /\ Refs(f) \cup tests \subseteq inside \cup {decl}
             /\ scope = inside \cup {decl}
             /\ code = Code(f, out, decl, tests)
<1>4. \E f \in Functions(kind), tests \in SUBSET Branching(out) :
         Param(f, tests) \/ Ret(f, tests) \/ Local(f, tests)
  BY Zenon DEF Init
<1>5. PICK f \in Functions(kind), tests \in SUBSET Branching(out) :
         Param(f, tests) \/ Ret(f, tests) \/ Local(f, tests)
  BY <1>4
<1>6. f \in [Inner -> Bodies] /\ tests \subseteq Inner
  BY <1>2 DEF Functions
<1> DEFINE d == IF kind = "local" THEN decl ELSE 0
<1>7. code = Code(f, out, d, tests)
  BY <1>5
<1> HIDE DEF Param, Ret, Local, d
<1>8. ASSUME NEW b \in Blocks PROVE CodeOf(code[b], f, out, d, tests, b)
  BY <1>6, <1>7, CodeIs
<1>9. d \in Blocks => kind = "local" /\ d = decl
  BY DEF d, Blocks
<1>10. ASSUME NEW b \in Inner, NEW m \in 1..Len(f[b])
       PROVE  f[b][m].op = "insn" /\ {f[b][m].rd, f[b][m].rs} \subseteq {NoVar, Base}
  BY <1>6, <1>10, BodyIs
<1>11. ASSUME NEW b \in Blocks, NEW n \in 1..Len(code[b])
       PROVE  LET i == code[b][n] IN
              \/ /\ n = 1 /\ b = d /\ i.op = "allocat" /\ i.rd = Base /\ i.rs = NoVar
              \/ /\ b \in Inner /\ i.op = "insn" /\ {i.rd, i.rs} \subseteq {NoVar, Base}
                 /\ b \in Refs(f) /\ \E m \in 1..Len(f[b]) : i = f[b][m]
              \/ /\ n = Len(code[b]) /\ b \in Inner /\ i.op = "branch" /\ i.rd = NoVar
                 /\ i.rs = IF b \in tests THEN Base ELSE NoVar
  <2>1. CASE n = 1 /\ b = d /\ code[b][n] = Insn("allocat", Base, NoVar)
    BY <2>1 DEF Insn
  <2>2. CASE b \in Inner /\ \E m \in 1..Len(f[b]) : code[b][n] = f[b][m]
    <3>1. PICK m \in 1..Len(f[b]) : code[b][n] = f[b][m]
      BY <2>2
    <3>2. b \in Refs(f)
      <4>1. f[b] # <<>>
        BY <3>1
      <4> QED BY <2>2, <4>1 DEF Refs
    <3> QED BY <1>10, <2>2, <3>1, <3>2
  <2>3. CASE /\ n = Len(code[b]) /\ b \in Branching(out)
             /\ code[b][n] = Insn("branch", NoVar, IF b \in tests THEN Base ELSE NoVar)
    BY <1>2, <2>3 DEF Insn
  <2> QED BY <1>8, <2>1, <2>2, <2>3 DEF CodeOf
<1>12. KindInv
  <2>1. CASE Param(f, tests)
    BY <1>0, <1>1, <2>1 DEF KindInv, Param
  <2>2. CASE Ret(f, tests)
    BY <1>0, <1>1, <2>2 DEF KindInv, Ret
  <2>3. CASE Local(f, tests)
    <3>1. inside \subseteq Inner
      BY <2>3 DEF Local, Regions, Under
    <3> QED BY <1>0, <1>1, <2>3, <3>1 DEF KindInv, Local
  <2> QED BY <1>5, <2>1, <2>2, <2>3
<1>13. Refs(f) \cup tests \subseteq Live
  <2>1. Refs(f) \cup tests \subseteq Blocks
    BY <1>3, <1>6 DEF Refs
  <2>2. CASE Local(f, tests)
    BY <2>2 DEF Live, Local
  <2>3. CASE inside = Blocks
    BY <2>1, <2>3 DEF Live
  <2> QED BY <1>5, <2>2, <2>3 DEF Param, Ret
<1>14. ASSUME NEW b \in Blocks, NEW n \in 1..Len(code[b])
       PROVE  ShapeOf(code[b], b, n)
  <2>1. NoVar # Base
    BY DEF NoVar, Base
  <2> QED BY <1>6, <1>9, <1>11, <1>13, <2>1 DEF ShapeOf
<1>15. ASSUME kind = "local" 
       PROVE  Len(code[decl]) >= 1 /\ Sets(code[decl], 2) /\ code[decl][1].rs = NoVar
  <2>1. decl \in Blocks /\ d = decl
    BY <1>3, <1>12, <1>15 DEF KindInv, d
  <2>2. Len(code[decl]) >= 1 /\ code[decl][1] = Insn("allocat", Base, NoVar)
    BY <1>8, <2>1 DEF CodeOf
  <2>3. Real(code[decl][1]) /\ 1 \in 1..(2 - 1) /\ code[decl][1].rs = NoVar
    BY <2>2 DEF Real, Insn, Base, NoVar
  <2> QED BY <2>2, <2>3 DEF Sets
<1>16. ASSUME kind = "ret" PROVE \E j \in Inner : Met(j)
  <2>0. Ret(f, tests)
    BY <1>5, <1>16 DEF Param, Local
  <2>1. PICK j \in Inner : MeetAt(out, f, j)
    BY <2>0 DEF Ret
  <2> DEFINE A == {b \in Inner : Defs(f[b])}
  <2>2. /\ A = Transpose(out)[j] /\ Cardinality(A) = 2 /\ A \subseteq Blocks
        /\ \A a \in A : out[a] = {j} /\ f[a] = <<Def>>
        /\ \A b \in Refs(f) \ A : Dominates(out, entry, j, b)
    <3>1. j \in Blocks
      BY <1>3
    <3> QED BY <1>3, <2>1, <3>1 DEF MeetAt, Transpose
  <2>3. \E a, c \in Blocks : a # c /\ A = {a, c}
    <3> HIDE DEF A
    <3> QED BY <2>2, Two
  <2>4. ASSUME NEW a \in A PROVE Sets(code[a], Len(code[a]) + 1)
    <3>1. a \in Inner /\ a \in Blocks /\ f[a] = <<Def>>
      BY <1>3, <2>2
    <3>2. 1 \in 1..Len(f[a]) /\ f[a][1] = Def
      BY <3>1
    <3>3. PICK n \in 1..Len(code[a]) : code[a][n] = Def
      BY <1>8, <3>1, <3>2 DEF CodeOf
    <3>4. Real(code[a][n])
      BY <3>3 DEF Real, Def, Insn, Base, NoVar
    <3>5. n \in 1..((Len(code[a]) + 1) - 1)
      OBVIOUS
    <3> QED BY <3>4, <3>5 DEF Sets
  <2>5. ASSUME NEW b \in Blocks, NEW n \in 1..Len(code[b]), Real(code[b][n])
        PROVE  b \in A
    <3>1. d \notin Blocks
      BY <1>9, <1>16
    <3>2. b \in Inner /\ \E m \in 1..Len(f[b]) : code[b][n] = f[b][m]
      BY <1>11, <2>5, <3>1 DEF Real
    <3> QED BY <2>5, <3>2 DEF Defs, Real
  <2>6. ASSUME NEW b \in Blocks, NEW n \in 1..Len(code[b]), code[b][n].rs # NoVar
        PROVE  Dominates(out, entry, j, b)
    <3>1. tests = {} /\ d \notin Blocks
      BY <1>9, <1>16, <2>0 DEF Ret
    <3>2. PICK m \in 1..Len(f[b]) : b \in Inner /\ b \in Refs(f) /\ code[b][n] = f[b][m]
      BY <1>11, <2>6, <3>1
    <3>3. CASE b \in A
      <4>1. f[b] = <<Def>>
        BY <2>2, <3>3
      <4>2. f[b][m] = Def
        BY <4>1
      <4> QED BY <2>6, <3>2, <4>2 DEF Def, Insn
    <3> QED BY <2>2, <3>2, <3>3
  <2>7. Met(j)
    <3> HIDE DEF A
    <3> QED BY <2>2, <2>3, <2>4, <2>5, <2>6 DEF Met
  <2> QED BY <2>7
<1>17. ASSUME NEW b \in Blocks PROVE ~HasPhi(b)
  <2> SUFFICES ASSUME code[b] # <<>>, code[b][1].op = "phi" PROVE FALSE
    BY DEF HasPhi
  <2>1. code[b] \in Seq(Raw)
    BY <1>8 DEF CodeOf
  <2>2. 1 \in 1..Len(code[b])
    BY <2>1
  <2> QED BY <1>11, <2>2
<1> QED BY <1>12, <1>14, <1>15, <1>16, <1>17 DEF ShapeInv

-----------------------------------------------------------------------------
(* Where the phis are.                                                     *)

\* Blocks behind whose dominance the work list has to look.
Defined(b) ==
    \/ Sets(code[b], Len(code[b]) + 1)
    \/ kind = "param" /\ b = entry
    \/ kind # "ret" /\ HasPhi(b)

\* Blocks that may get a phi.
Findable(f) == f \in scope \ {decl, exit} /\ kind # "global"

PlaceInv ==
    /\ solved \subseteq worklist /\ worklist \subseteq Blocks
    /\ \A b \in Blocks : HasPhi(b) => Findable(b) /\ \E a \in solved : b \in df[a]
    /\ kind = "ret" => \A a \in worklist : Sets(code[a], Len(code[a]) + 1)
    /\ \/ /\ worklist = {}
          /\ \A b \in Blocks : \A n \in 1..Len(code[b]) :
               code[b][n].rs # NoVar => Sets(code[b], n)
       \/ \A b \in Blocks : Defined(b) => b \in worklist
    /\ \A a \in solved : \A f \in df[a] : Findable(f) => HasPhi(f)

LEMMA PlaceSolve ==
    ASSUME ClearInv, KindInv, ShapeInv, \A b \in Blocks : ~HasPhi(b), solved = {},
           SolveGlobals
    PROVE  PlaceInv'
<1>1. /\ UNCHANGED <<code, solved, kind, scope, decl, df>>
      /\ worklist' = IF Exposed THEN RefBlocks ELSE {}
  BY DEF SolveGlobals, program
<1>2. ASSUME NEW b \in Blocks, NEW n \in 1..Len(code[b]), code[b][n].rd # NoVar
      PROVE  Real(code[b][n])
  <2>1. code[b][n].op # "phi"
    <3>1. code[b] \in Seq(Raw) /\ ~HasPhi(b)
      BY DEF ClearInv
    <3>2. code[b][n].op = "phi" => n = 1
      BY DEF ShapeInv, ShapeOf
    <3>3. code[b] # <<>>
      BY <3>1
    <3> QED BY <3>1, <3>2, <3>3 DEF HasPhi
  <2> QED BY <1>2, <2>1 DEF ShapeInv, ShapeOf, Real
<1>3. \A b \in Blocks : Defs(code[b]) <=> Sets(code[b], Len(code[b]) + 1)
  <2> TAKE b \in Blocks
  <2>1. code[b] \in Seq(Raw)
    BY DEF ClearInv
  <2>2. Len(code[b]) + 1 - 1 = Len(code[b])
    BY <2>1
  <2> QED BY <1>2, <2>2 DEF Defs, Sets, Real
<1>4. solved' = {} /\ worklist' \subseteq Blocks
  <2>1. RefBlocks \subseteq Blocks
    BY BlocksFinite DEF RefBlocks
  <2> QED BY <1>1, <2>1
<1>5. \A b \in Blocks : ~HasPhi(b)' /\ (Defined(b)' <=> Defined(b))
  BY <1>1 DEF HasPhi, Defined, Sets
<1>6. kind' = "ret" => \A a \in worklist' : Sets(code'[a], Len(code'[a]) + 1)
  <2>1. kind = "ret" => \A a \in RefBlocks : Sets(code[a], Len(code[a]) + 1)
    BY <1>3 DEF RefBlocks
  <2> QED BY <1>1, <2>1
<1>7. CASE Exposed
  <2>1. \A b \in Blocks : Defined(b) => b \in RefBlocks
    BY <1>3 DEF Defined, RefBlocks
  <2> QED BY <1>1, <1>4, <1>5, <1>6, <1>7, <2>1 DEF PlaceInv
<1>8. CASE ~Exposed
  <2>1. ASSUME NEW b \in Blocks, NEW n \in 1..Len(code[b]), code[b][n].rs # NoVar
        PROVE  Sets(code[b], n)
    <3>1. PICK m \in 1..(n - 1) : code[b][m].rd # NoVar
      BY <1>8, <2>1 DEF Exposed
    <3>2. m \in 1..Len(code[b])
      <4>1. code[b] \in Seq(Raw)
        BY DEF ClearInv
      <4> QED BY <4>1
    <3> QED BY <1>2, <3>1, <3>2 DEF Sets
  <2> QED BY <1>1, <1>4, <1>5, <1>6, <1>8, <2>1 DEF PlaceInv
<1> QED BY <1>7, <1>8

\* A phi moves what follows it by one.
LEMMA Prepended ==
    ASSUME NEW S, NEW s \in Seq(S), NEW i \in S
    PROVE  LET t == <<i>> \o s
           IN  /\ t # <<>> /\ Len(t) = Len(s) + 1 /\ t[1] = i
               /\ \A n \in 1..Len(s) : n + 1 \in 1..Len(t) /\ t[n + 1] = s[n]
               /\ \A n \in 1..Len(t) : n = 1 \/ (n - 1 \in 1..Len(s) /\ t[n] = s[n - 1])
<1> DEFINE t == <<i>> \o s
<1>1. <<i>> \in Seq(S) /\ Len(<<i>>) = 1 /\ <<i>>[1] = i /\ Len(s) \in Nat
  OBVIOUS
<1>2. /\ t \in Seq(S) /\ Len(t) = 1 + Len(s)
      /\ \A n \in 1..(1 + Len(s)) : t[n] = IF n <= 1 THEN <<i>>[n] ELSE s[n - 1]
  <2> HIDE DEF t
  <2>1. <<i>> \o s \in Seq(S) /\ Len(<<i>> \o s) = Len(<<i>>) + Len(s)
        /\ \A n \in 1..(Len(<<i>>) + Len(s)) :
             (<<i>> \o s)[n] = IF n <= Len(<<i>>) THEN <<i>>[n] ELSE s[n - Len(<<i>>)]
    BY <1>1, ConcatProperties
  <2> QED BY <1>1, <2>1 DEF t
<1> HIDE DEF t
<1>3. t[1] = i
  <2>1. 1 \in 1..(1 + Len(s)) /\ 1 <= 1
    BY <1>1
  <2> QED BY <1>1, <1>2, <2>1
<1>4. ASSUME NEW n \in 1..Len(s) PROVE n + 1 \in 1..Len(t) /\ t[n + 1] = s[n]
  <2>1. n + 1 \in 1..(1 + Len(s)) /\ ~(n + 1 <= 1) /\ (n + 1) - 1 = n
    BY <1>1
  <2> QED BY <1>2, <2>1
<1>5. ASSUME NEW n \in 1..Len(t), n # 1 PROVE n - 1 \in 1..Len(s) /\ t[n] = s[n - 1]
  <2>1. n \in 1..(1 + Len(s)) /\ ~(n <= 1) /\ n - 1 \in 1..Len(s)
    BY <1>1, <1>2, <1>5
  <2> QED BY <1>2, <2>1
<1>6. Len(t) = Len(s) + 1
  BY <1>1, <1>2
<1>7. t # <<>>
  BY <1>1, <1>6
<1> QED BY <1>3, <1>4, <1>5, <1>6, <1>7 DEF t

\* The code of a block before and after a round of InsertPhis.
Grown(s, t) ==
    /\ t # <<>> /\ Len(t) = Len(s) + 1 /\ t[1] = Phi
    /\ \A n \in 1..Len(s) : n + 1 \in 1..Len(t) /\ t[n + 1] = s[n]
    /\ \A n \in 1..Len(t) : n = 1 \/ (n - 1 \in 1..Len(s) /\ t[n] = s[n - 1])

LEMMA GrownSets ==
    ASSUME NEW S, NEW s \in Seq(S), NEW t, Grown(s, t)
    PROVE  /\ Sets(t, Len(t) + 1) <=> Sets(s, Len(s) + 1)
           /\ \A n \in 1..Len(s) : Sets(s, n) => Sets(t, n + 1)
<1>0. Len(s) \in Nat /\ (Len(s) + 1) - 1 = Len(s) /\ Len(t) = Len(s) + 1
      /\ (Len(t) + 1) - 1 = Len(t)
  BY DEF Grown
<1>1. ~Real(Phi)
  BY DEF Real, Phi, Insn
<1>2. ASSUME Sets(s, Len(s) + 1) PROVE Sets(t, Len(t) + 1)
  <2>1. PICK m \in 1..Len(s) : Real(s[m])
    BY <1>0, <1>2 DEF Sets
  <2> QED BY <1>0, <2>1 DEF Sets, Grown
<1>3. ASSUME Sets(t, Len(t) + 1) PROVE Sets(s, Len(s) + 1)
  <2>1. PICK m \in 1..Len(t) : Real(t[m])
    BY <1>0, <1>3 DEF Sets
  <2>2. m # 1
    BY <1>1, <2>1 DEF Grown
  <2>3. m - 1 \in 1..Len(s) /\ t[m] = s[m - 1]
    BY <2>2 DEF Grown
  <2> QED BY <1>0, <2>1, <2>3 DEF Sets
<1>4. ASSUME NEW n \in 1..Len(s), Sets(s, n) PROVE Sets(t, n + 1)
  <2>1. PICK m \in 1..(n - 1) : Real(s[m])
    BY <1>4 DEF Sets
  <2>2. m \in 1..Len(s) /\ m + 1 \in 1..((n + 1) - 1)
    BY <1>0
  <2>3. t[m + 1] = s[m]
    BY <2>2 DEF Grown
  <2> QED BY <2>1, <2>2, <2>3 DEF Sets
<1> QED BY <1>2, <1>3, <1>4

LEMMA InsertIs ==
    ASSUME ClearInv, InsertPhis
    PROVE  \E b \in worklist \ solved :
             LET P == {f \in df[b] : Findable(f) /\ ~HasPhi(f)} IN
             /\ solved' = solved \cup {b}
             /\ worklist' = IF kind = "ret" THEN worklist ELSE worklist \cup P
             /\ \A c \in Blocks : IF c \in P THEN Grown(code[c], code'[c])
                                  ELSE code'[c] = code[c]
             /\ \A c \in Blocks : HasPhi(c)' <=> HasPhi(c) \/ c \in P
             /\ pc' = pc /\ UNCHANGED <<program, renaming>>
<1>1. PICK b \in worklist \ solved : \E P \in {Wanted(b)} :
         /\ code' = [c \in Blocks |-> IF c \in P THEN <<Phi>> \o code[c] ELSE code[c]]
         /\ worklist' = IF kind = "ret" THEN worklist ELSE worklist \cup P
         /\ solved' = solved \cup {b}
  BY DEF InsertPhis
<1> DEFINE P == {f \in df[b] : Findable(f) /\ ~HasPhi(f)}
<1>2. Wanted(b) = P
  BY DEF Wanted, Findable
<1>3. /\ code' = [c \in Blocks |-> IF c \in P THEN <<Phi>> \o code[c] ELSE code[c]]
      /\ worklist' = IF kind = "ret" THEN worklist ELSE worklist \cup P
      /\ solved' = solved \cup {b}
      /\ pc' = pc /\ UNCHANGED <<program, renaming>>
  BY <1>1, <1>2 DEF InsertPhis
<1> HIDE DEF P
<1>4. Phi \in Raw
  BY DEF Phi, Insn, Raw, Insns, Subscripts, NoVar, Base
<1>5. ASSUME NEW c \in Blocks, c \in P PROVE Grown(code[c], code'[c])
  <2>1. code[c] \in Seq(Raw) /\ code'[c] = <<Phi>> \o code[c]
    BY <1>3, <1>5 DEF ClearInv
  <2> HIDE DEF Phi
  <2> QED BY <1>4, <2>1, Prepended DEF Grown
<1>6. ASSUME NEW c \in Blocks, c \notin P PROVE code'[c] = code[c]
  BY <1>3, <1>6
<1>7. ASSUME NEW c \in Blocks PROVE HasPhi(c)' <=> HasPhi(c) \/ c \in P
  <2>1. CASE c \in P
    BY <1>5, <2>1 DEF Grown, HasPhi, Phi, Insn
  <2>2. CASE c \notin P
    BY <1>6, <2>2 DEF HasPhi
  <2> QED BY <2>1, <2>2
<1> QED BY <1>3, <1>5, <1>6, <1>7 DEF P

LEMMA PlaceInsert ==
    ASSUME ClearInv, KindInv, ShapeInv, PlaceInv, InsertPhis
    PROVE  ShapeInv' /\ PlaceInv'
<1>1. PICK b \in worklist \ solved :
             LET P == {f \in df[b] : Findable(f) /\ ~HasPhi(f)} IN
             /\ solved' = solved \cup {b}
             /\ worklist' = IF kind = "ret" THEN worklist ELSE worklist \cup P
             /\ \A c \in Blocks : IF c \in P THEN Grown(code[c], code'[c])
                                  ELSE code'[c] = code[c]
             /\ \A c \in Blocks : HasPhi(c)' <=> HasPhi(c) \/ c \in P
             /\ pc' = pc /\ UNCHANGED <<program, renaming>>
  BY InsertIs
<1> DEFINE P == {f \in df[b] : Findable(f) /\ ~HasPhi(f)}
<1>2. /\ solved' = solved \cup {b}
      /\ worklist' = IF kind = "ret" THEN worklist ELSE worklist \cup P
      /\ \A c \in Blocks : IF c \in P THEN Grown(code[c], code'[c]) ELSE code'[c] = code[c]
      /\ \A c \in Blocks : HasPhi(c)' <=> HasPhi(c) \/ c \in P
      /\ UNCHANGED <<program, renaming>>
  BY <1>1
<1>3. /\ UNCHANGED <<out, df, kind, decl, inside, scope>>
      /\ Live' = Live /\ \A f : Findable(f)' = Findable(f)
      /\ code \in [Blocks -> Seq(Raw)] /\ b \in Blocks /\ b \in worklist
      /\ b \notin solved /\ df[b] \subseteq Blocks
  BY <1>2 DEF program, ClearInv, PlaceInv, KindInv, Live, Findable, Frontier
<1>4. P \subseteq df[b] /\ \A c \in P : Findable(c) /\ ~HasPhi(c) /\ c \in Blocks
  BY <1>3
<1>wanted. \A f \in df[b] : Findable(f) => HasPhi(f) \/ f \in P
  OBVIOUS
<1> HIDE DEF P
<1>5. ASSUME NEW c \in Blocks
      PROVE  /\ Sets(code'[c], Len(code'[c]) + 1) <=> Sets(code[c], Len(code[c]) + 1)
             /\ \A n \in 1..Len(code'[c]) :
                  \/ n = 1 /\ code'[c][n] = Phi /\ c \in P
                  \/ \E m \in 1..Len(code[c]) :
                       /\ code'[c][n] = code[c][m]
                       /\ c \in P => n = m + 1 /\ Len(code'[c]) = Len(code[c]) + 1
                       /\ c \notin P => n = m /\ code'[c] = code[c]
  <2>0. code[c] \in Seq(Raw)
    BY <1>3
  <2>1. CASE c \in P
    <3>1. Grown(code[c], code'[c])
      BY <1>2, <2>1
    <3>2. Sets(code'[c], Len(code'[c]) + 1) <=> Sets(code[c], Len(code[c]) + 1)
      BY <2>0, <3>1, GrownSets
    <3>3. ASSUME NEW n \in 1..Len(code'[c]), n # 1
          PROVE  n - 1 \in 1..Len(code[c]) /\ code'[c][n] = code[c][n - 1] /\ n = (n - 1) + 1
      BY <3>1, <3>3 DEF Grown
    <3>4. Len(code'[c]) = Len(code[c]) + 1 /\ code'[c][1] = Phi
      BY <3>1 DEF Grown
    <3> QED BY <2>1, <3>2, <3>3, <3>4
  <2>2. CASE c \notin P
    <3>1. code'[c] = code[c]
      BY <1>2, <2>2
    <3> QED BY <2>2, <3>1
  <2> QED BY <2>1, <2>2
<1>6. ASSUME NEW c \in Blocks, NEW n \in 1..Len(code'[c])
      PROVE  ShapeOf(code[c], c, n)' 
  <2>1. CASE n = 1 /\ code'[c][n] = Phi /\ c \in P
    <3>1. kind # "global"
      BY <1>4, <2>1 DEF Findable
    <3> QED BY <1>3, <2>1, <3>1 DEF ShapeOf, Phi, Insn, NoVar, Base
  <2>2. ASSUME NEW m \in 1..Len(code[c]), code'[c][n] = code[c][m],
               c \in P => n = m + 1 /\ Len(code'[c]) = Len(code[c]) + 1,
               c \notin P => n = m /\ code'[c] = code[c]
        PROVE  ShapeOf(code[c], c, n)'
    <3>1. ShapeOf(code[c], c, m)
      BY <2>2 DEF ShapeInv
    <3>2. CASE c \in P
      <4>1. c # decl /\ code[c][m].op # "phi"
        <5>1. code[c] # <<>>
          BY <1>3, <2>2
        <5> QED BY <1>4, <3>1, <3>2, <5>1 DEF Findable, HasPhi, ShapeOf
      <4> QED BY <1>3, <2>2, <3>1, <3>2, <4>1 DEF ShapeOf
    <3>3. CASE c \notin P
      BY <1>3, <2>2, <3>1, <3>3 DEF ShapeOf
    <3> QED BY <3>2, <3>3
  <2> QED BY <1>5, <2>1, <2>2
<1>7. ASSUME kind = "local"
      PROVE  Len(code'[decl]) >= 1 /\ Sets(code'[decl], 2) /\ code'[decl][1].rs = NoVar
  <2>1. decl \in Blocks /\ decl \notin P
    BY <1>4, <1>7 DEF KindInv, Inner, Findable
  <2>2. code'[decl] = code[decl]
    BY <1>2, <2>1
  <2> QED BY <1>7, <2>2 DEF ShapeInv
<1>8. ASSUME kind = "ret", NEW j \in Inner, Met(j) PROVE Met(j)'
  <2>1. \A p \in Transpose(out)[j] : p \in Blocks
    BY <1>8 DEF Transpose, Inner
  <2>2. ~Real(Phi) /\ Phi.rs = NoVar
    BY DEF Real, Phi, Insn
  <2>3. \A c \in Blocks : \A n \in 1..Len(code'[c]) :
           code'[c][n] = Phi \/ \E m \in 1..Len(code[c]) : code'[c][n] = code[c][m]
    BY <1>5
  <2>4. \A c \in Blocks : \A n \in 1..Len(code'[c]) :
          /\ Real(code'[c][n]) => c \in Transpose(out)[j]
          /\ code'[c][n].rs # NoVar => Dominates(out, entry, j, c)
    <3> TAKE c \in Blocks
    <3> TAKE n \in 1..Len(code'[c])
    <3>1. CASE code'[c][n] = Phi
      BY <2>2, <3>1
    <3>2. ASSUME NEW m \in 1..Len(code[c]), code'[c][n] = code[c][m]
          PROVE  /\ Real(code'[c][n]) => c \in Transpose(out)[j]
                 /\ code'[c][n].rs # NoVar => Dominates(out, entry, j, c)
      BY <1>8, <3>2 DEF Met
    <3> QED BY <2>3, <3>1, <3>2
  <2>5. \A p \in Transpose(out)[j] : out[p] = {j} /\ Sets(code'[p], Len(code'[p]) + 1)
    BY <1>5, <1>8, <2>1 DEF Met
  <2> HIDE DEF Transpose, Dominates
  <2>6. out' = out /\ \E a, c \in Blocks : a # c /\ Transpose(out)[j] = {a, c}
    BY <1>3, <1>8 DEF Met
  <2>7. Transpose(out') = Transpose(out) /\ \A c : Dominates(out', entry, j, c) = Dominates(out, entry, j, c)
    BY <2>6
  <2> QED BY <2>4, <2>5, <2>6, <2>7 DEF Met
<1>9. ShapeInv'
  <2>1. kind' = "ret" => \E j \in Inner : Met(j)'
    BY <1>3, <1>8 DEF ShapeInv
  <2>2. kind' = "local" => /\ Len(code'[decl']) >= 1 /\ Sets(code'[decl'], 2)
                           /\ code'[decl'][1].rs = NoVar
    BY <1>3, <1>7
  <2> QED BY <1>6, <2>1, <2>2 DEF ShapeInv
<1>10. solved' \subseteq worklist' /\ worklist' \subseteq Blocks
  BY <1>2, <1>3, <1>4 DEF PlaceInv
<1>11. \A c \in Blocks : HasPhi(c)' => Findable(c)' /\ \E a \in solved' : c \in df'[a]
  BY <1>2, <1>3, <1>4 DEF PlaceInv
<1>12. kind' = "ret" => \A a \in worklist' : Sets(code'[a], Len(code'[a]) + 1)
  BY <1>2, <1>3, <1>5 DEF PlaceInv
<1>13. \A c \in Blocks : Defined(c)' => c \in worklist'
  <2> SUFFICES ASSUME NEW c \in Blocks, Defined(c)' PROVE c \in worklist'
    OBVIOUS
  <2>1. Defined(c) => c \in worklist
    BY <1>3 DEF PlaceInv
  <2>2. Defined(c) \/ (kind # "ret" /\ c \in P)
    BY <1>2, <1>3, <1>5 DEF Defined
  <2> QED BY <1>2, <2>1, <2>2
<1>14. \A a \in solved' : \A f \in df'[a] : Findable(f)' => HasPhi(f)'
  <2> SUFFICES ASSUME NEW a \in solved', NEW f \in df[a], Findable(f) PROVE HasPhi(f)'
    BY <1>3
  <2>1. a \in Blocks
    BY <1>2, <1>3 DEF PlaceInv
  <2>2. f \in Blocks
    BY <2>1 DEF KindInv, Frontier
  <2>3. HasPhi(f) \/ f \in P
    BY <1>2, <1>wanted DEF PlaceInv
  <2> QED BY <1>2, <2>2, <2>3
<1>15. PlaceInv'
  BY <1>10, <1>11, <1>12, <1>13, <1>14 DEF PlaceInv
<1> QED BY <1>9, <1>15

-----------------------------------------------------------------------------
(* The versions: each is later than all there are before it.               *)

Above(b) == {Base} \cup Basis \cup UNION {Versions(x) : x \in Up(b) \ {b}}
Latest(v, S) == v \in S /\ \A u \in S : u <= v
Named(b, n) == Above(b) \cup ({code[b][m].rd : m \in 1..(n - 1)} \ {NoVar, Base})
AtEnd(b) == Named(b, Len(code[b]) + 1)

OrderOf(b) ==
    /\ \E v \in Above(b) : Latest(v, Above(b))
    /\ \E v \in AtEnd(b) : Latest(v, AtEnd(b))
    /\ \A n \in 1..Len(code[b]) :
         /\ code[b][n].rd # NoVar => /\ code[b][n].rd \in Nat
                                     /\ \A u \in Named(b, n) : u < code[b][n].rd
         /\ code[b][n].rs # NoVar => Latest(code[b][n].rs, Named(b, n))
OpOf(o) == Latest(o[2], AtEnd(o[1])) \/ AtEnd(o[1]) = {Base}
OrderInv == /\ \A b \in visited : OrderOf(b)
            /\ \A c \in Blocks : \A o \in phi_ops[c] : OpOf(o)

\* What rename_var() can choose from after c assignments of a block.
Given(c) == {Base} \cup {stack[n] : n \in 1..Len(stack)} \cup (counter..(counter + c - 1))

LEMMA TopLatest ==
    ASSUME StackInv, counter \in Nat, NEW b, NEW u, IsPushed(u, b),
           AllAssigned(b) \in Nat, NEW c \in 0..AllAssigned(b)
    PROVE  LET w == SubSeq(u, 1, Len(stack) + c)
           IN  /\ Latest(Top(w, Base), Given(c))
               /\ \A x : Top(w, x) = Top(w, Base) \/ Given(c) = {Base}
<1> DEFINE h == Len(stack)
           L == h + c
           w == SubSeq(u, 1, L)
           a == AllAssigned(b)
<1>1. /\ h \in Nat /\ c \in Nat /\ a \in Nat /\ c <= a /\ L \in Nat
      /\ u \in Seq(Nat) /\ Len(u) = h + a
      /\ \A n \in 1..h : u[n] = stack[n]
      /\ \A n \in 1..a : u[h + n] = counter + n - 1
      /\ \A n \in 1..h : stack[n] \in Nat /\ stack[n] < counter
      /\ \A m, n \in 1..h : m < n => stack[m] < stack[n]
  <2>1. h \in Nat /\ \A n \in 1..h : stack[n] \in Nat
    BY DEF StackInv
  <2>2. c \in Nat /\ a \in Nat /\ c <= a /\ L \in Nat
    BY <2>1
  <2>3. /\ u \in Seq(Nat) /\ Len(u) = h + a
        /\ \A n \in 1..h : u[n] = stack[n]
        /\ \A n \in 1..a : u[h + n] = counter + n - 1
    BY DEF IsPushed
  <2>4. /\ \A n \in 1..h : stack[n] < counter
        /\ \A m, n \in 1..h : m < n => stack[m] < stack[n]
    BY DEF StackInv
  <2> QED BY <2>1, <2>2, <2>3, <2>4
<1> HIDE DEF a, h
<1>2. \A k \in 1..L : u[k] \in Nat
  <2>1. \A k \in 1..L : k \in 1..Len(u)
    BY <1>1
  <2> QED BY <1>1, <2>1
<1>3. Len(w) = L /\ w \in Seq(Nat) /\ \A k \in 1..L : w[k] = u[k]
  <2> HIDE DEF L
  <2>1. L \in Int /\ 1 \in Int
    BY <1>1
  <2>2. /\ w \in Seq(Nat) /\ Len(w) = IF 1 <= L THEN L - 1 + 1 ELSE 0
        /\ \A k \in 1..(L - 1 + 1) : w[k] = u[1 + k - 1]
    BY <1>2, <2>1, SubSeqProperties
  <2>3. L - 1 + 1 = L /\ (~(1 <= L) => L = 0) /\ \A k \in 1..L : 1 + k - 1 = k
    BY <1>1
  <2> QED BY <2>2, <2>3
<1> HIDE DEF w
<1>4. Base < 0 /\ Base \in Int
  BY DEF Base
<1>5. CASE L = 0
  <2>1. w = <<>>
    BY <1>3, <1>5
  <2>2. 1..h = {} /\ counter..(counter + c - 1) = {}
    BY <1>1, <1>5
  <2>3. Given(c) = {Base}
    BY <2>2 DEF Given, h
  <2> QED BY <1>4, <2>1, <2>3 DEF Top, Latest, w, L, h
<1>6. CASE L # 0
  <2>1. w # <<>> /\ L \in 1..L
    BY <1>1, <1>3, <1>6
  <2>2. \A x : Top(w, x) = u[L]
    BY <1>3, <2>1 DEF Top
  <2>3. Latest(u[L], Given(c))
    <3>1. CASE c = 0
      <4>1. u[L] = stack[h] /\ h \in 1..h
        BY <1>1, <1>6, <3>1
      <4>2. counter..(counter + c - 1) = {}
        BY <3>1
      <4>3. \A n \in 1..h : stack[n] <= stack[h]
        <5> TAKE n \in 1..h
        <5>1. n = h \/ n < h
          BY <1>1
        <5>2. stack[n] \in Nat /\ stack[h] \in Nat
          BY <1>1, <4>1
        <5> QED BY <1>1, <4>1, <5>1, <5>2
      <4>4. Base <= stack[h]
        BY <1>1, <1>4, <4>1
      <4> QED BY <4>1, <4>2, <4>3, <4>4 DEF Latest, Given, h
    <3>2. CASE c # 0
      <4>1. c \in 1..a
        BY <1>1, <3>2
      <4>2. u[L] = counter + c - 1
        BY <1>1, <4>1
      <4>3. counter + c - 1 \in counter..(counter + c - 1)
        BY <1>1, <4>1
      <4>4. \A v \in counter..(counter + c - 1) : v <= counter + c - 1
        BY <1>1
      <4>5. \A n \in 1..h : stack[n] <= counter + c - 1
        BY <1>1, <4>1
      <4>6. Base <= counter + c - 1
        BY <1>1, <1>4, <4>1
      <4> QED BY <4>2, <4>3, <4>4, <4>5, <4>6 DEF Latest, Given, h
    <3> QED BY <3>1, <3>2
  <2> QED BY <2>2, <2>3 DEF w, L, h
<1> QED BY <1>5, <1>6

\* The instructions of a block get their versions.
LEMMA RenamedTo ==
    ASSUME NEW b, code[b] \in Seq(Raw), counter \in Nat, kind # "global",
           NEW n \in 1..Len(code[b])
    PROVE  LET s == code[b]  r == Renamed(b)
           IN  /\ Count(s, n) \in 0..AllAssigned(b)
               /\ r[n].rd = IF s[n].rd = NoVar THEN NoVar ELSE counter + Count(s, n)
               /\ r[n].rs = IF s[n].rs = NoVar THEN NoVar
                            ELSE Top(SubSeq(Pushed(b), 1, Len(stack) + Count(s, n)), Base)
<1> DEFINE s == code[b]
           r == Renamed(b)
           t(k) == Top(SubSeq(Pushed(b), 1, Len(stack) + Count(s, k)), Base)
<1>1. r = [k \in 1..Len(s) |->
             [s[k] EXCEPT !.rs = IF @ = NoVar THEN NoVar ELSE t(k),
                          !.rd = IF @ = NoVar THEN NoVar ELSE counter + Count(s, k)]]
  BY DEF Renamed, Assigned, Count, Assigning
<1> HIDE DEF t
<1>2. s[n] \in Raw /\ s[n] = [op |-> s[n].op, rd |-> s[n].rd, rs |-> s[n].rs]
  BY DEF Raw, Insns
<1>3. r[n] = [s[n] EXCEPT !.rs = IF @ = NoVar THEN NoVar ELSE t(n),
                          !.rd = IF @ = NoVar THEN NoVar ELSE counter + Count(s, n)]
  BY <1>1
<1>4. Count(s, n) \in 0..AllAssigned(b)
  <2>1. n \in Nat \ {0} /\ Len(s) + 1 \in Nat \ {0} /\ Len(s) \in Nat
    OBVIOUS
  <2>2. Assigning(s, n) \in SUBSET Assigning(s, Len(s) + 1)
    BY <2>1 DEF Assigning
  <2>3. /\ Count(s, n) \in Nat /\ Count(s, Len(s) + 1) \in Nat
        /\ Count(s, n) <= Count(s, Len(s) + 1)
    BY <2>1, <2>2, CountStep, FS_Subset DEF Count
  <2>4. AllAssigned(b) = Count(s, Len(s) + 1)
    BY AllAssignedIs
  <2> QED BY <2>3, <2>4
<1> HIDE DEF r
<1>5. /\ r[n].rd = IF s[n].rd = NoVar THEN NoVar ELSE counter + Count(s, n)
      /\ r[n].rs = IF s[n].rs = NoVar THEN NoVar ELSE t(n)
  BY <1>2, <1>3
<1> QED BY <1>4, <1>5 DEF t, r

\* The versions of the assignments before n.
LEMMA RenamedUpTo ==
    ASSUME NEW b, code[b] \in Seq(Raw), counter \in Nat, kind # "global",
           NEW n \in 1..(Len(code[b]) + 1)
    PROVE  {Renamed(b)[m].rd : m \in 1..(n - 1)} \ {NoVar, Base}
             = counter..(counter + Count(code[b], n) - 1)
<1> DEFINE s == code[b]
           r == Renamed(b)
           c == Count(s, n)
<1>0. n \in Nat \ {0} /\ Len(s) \in Nat /\ \A m \in 1..(n - 1) : m \in 1..Len(s) /\ m \in Nat \ {0}
  OBVIOUS
<1>1. /\ c \in Nat /\ \A m \in 1..(n - 1) : s[m].rd # NoVar => Count(s, m) < c
      /\ \A i \in Nat : i < c => \E m \in 1..(n - 1) : s[m].rd # NoVar /\ Count(s, m) = i
      /\ \A m \in 1..(n - 1) : Count(s, m) \in Nat
  BY <1>0, CountStep, CountOnto
<1>2. ASSUME NEW m \in 1..(n - 1)
      PROVE  r[m].rd = IF s[m].rd = NoVar THEN NoVar ELSE counter + Count(s, m)
  BY <1>0, RenamedTo
<1> HIDE DEF r, c, s
<1>3. ASSUME NEW v \in {r[m].rd : m \in 1..(n - 1)} \ {NoVar, Base}
      PROVE  v \in counter..(counter + c - 1)
  <2>1. PICK m \in 1..(n - 1) : v = r[m].rd /\ v # NoVar
    BY <1>3
  <2>2. v = counter + Count(s, m) /\ Count(s, m) < c /\ Count(s, m) \in Nat
    BY <1>1, <1>2, <2>1
  <2> QED BY <1>1, <2>2
<1>4. ASSUME NEW v \in counter..(counter + c - 1)
      PROVE  v \in {r[m].rd : m \in 1..(n - 1)} \ {NoVar, Base}
  <2>1. v - counter \in Nat /\ v - counter < c
    BY <1>1
  <2>2. PICK m \in 1..(n - 1) : s[m].rd # NoVar /\ Count(s, m) = v - counter
    BY <1>1, <2>1
  <2>3. r[m].rd = v
    BY <1>2, <2>2
  <2>4. v \notin {NoVar, Base}
    BY DEF NoVar, Base
  <2> QED BY <2>3, <2>4
<1>5. {r[m].rd : m \in 1..(n - 1)} \ {NoVar, Base} = counter..(counter + c - 1)
  BY <1>3, <1>4
<1> QED BY <1>5 DEF r, c, s

\* The stack has what is above the block that is entered next.
LEMMA AboveIs ==
    ASSUME WalkInv, StackInv, VersInv, NEW b \in Blocks \ visited, Below(b)
    PROVE  Above(b) = Given(0)
<1> DEFINE L == Len(frames)
<1>1. PICK h \in [0..L -> 0..Len(stack)] : Heights(h)
  BY DEF StackInv
<1>2. L \in Nat /\ L \in 0..L /\ frames \in Seq(visited)
  BY DEF WalkInv
<1>3. h[L] = Len(stack)
  BY <1>1 DEF Heights
<1>4. {stack[i] : i \in 1..Len(stack)} = (UNION {Versions(frames[j]) : j \in 1..L}) \cup Basis
  BY <1>1, <1>2, <1>3, Zenon DEF Heights
<1>5. Up(b) \ {b} = {frames[j] : j \in 1..L}
  <2>1. \A j \in 1..L : frames[j] # b
    BY <1>2
  <2> QED BY <2>1 DEF Below
<1>6. UNION {Versions(x) : x \in Up(b) \ {b}} = UNION {Versions(frames[j]) : j \in 1..L}
  BY <1>5
<1>7. counter..(counter + 0 - 1) = {}
  BY DEF VersInv
<1> QED BY <1>4, <1>6, <1>7 DEF Above, Given

LEMMA EnterOrder ==
    ASSUME WalkInv, VersInv, StackInv, OpInv, OrderInv, kind # "global",
           NEW b \in Blocks \ visited, Enter(b), Entered(b), Below(b)
    PROVE  OrderInv'
<1> DEFINE s == code[b]
           a == AllAssigned(b)
<1>1. /\ code[b] \in Seq(Raw) /\ counter \in Nat /\ a \in Nat
      /\ code \in [Blocks -> Seq(Insns)] /\ visited \subseteq Blocks
      /\ code' = [code EXCEPT ![b] = Renamed(b)] /\ stack' = Pushed(b)
      /\ visited' = visited \cup {b}
  BY DEF Entered, VersInv, Enter, WalkInv
<1>2. /\ code'[b] = Renamed(b) /\ Len(code'[b]) = Len(s) /\ Len(s) \in Nat
      /\ \A c \in Blocks \ {b} : code'[c] = code[c]
  BY <1>1 DEF Entered
<1>3. /\ \A c \in Blocks \ {b} : Versions(c)' = Versions(c)
      /\ Basis' = Basis /\ \A c : Up(c)' = Up(c)
  BY DEF Entered
<1>4. ASSUME NEW c \in visited \cup {b} PROVE Above(c)' = Above(c)
  <2>1. \A x \in Up(c) \ {c} : x \in Blocks \ {b}
    <3>1. Up(c) \subseteq Blocks
      BY DEF Up
    <3>2. c # b => Up(c) \subseteq visited
      BY DEF WalkInv
    <3> QED BY <3>1, <3>2
  <2>2. UNION {Versions(x)' : x \in Up(c) \ {c}} = UNION {Versions(x) : x \in Up(c) \ {c}}
    BY <1>3, <2>1
  <2>3. Above(c)' = {Base} \cup Basis' \cup UNION {Versions(x)' : x \in Up(c)' \ {c}}
    BY Zenon DEF Above
  <2> QED BY <1>3, <2>2, <2>3 DEF Above
<1>5. ASSUME NEW c \in visited
      PROVE  code'[c] = code[c] /\ AtEnd(c)' = AtEnd(c) /\ \A n : Named(c, n)' = Named(c, n)
  <2>1. code'[c] = code[c] /\ Above(c)' = Above(c)
    BY <1>1, <1>2, <1>4
  <2>2. \A n : Named(c, n)' = Named(c, n)
    BY <2>1 DEF Named
  <2>3. AtEnd(c)' = Named(c, Len(code[c]) + 1)'
    BY DEF AtEnd
  <2> QED BY <2>1, <2>2 DEF AtEnd, Named
<1>6. Above(b) = Given(0)
  BY AboveIs
<1>7. ASSUME NEW n \in 1..(Len(s) + 1)
      PROVE  Named(b, n)' = Given(Count(s, n))
  <2>1. {code'[b][m].rd : m \in 1..(n - 1)} \ {NoVar, Base}
          = counter..(counter + Count(s, n) - 1)
    BY <1>1, <1>2, RenamedUpTo
  <2>2. Named(b, n)' = Above(b)' \cup ({code'[b][m].rd : m \in 1..(n - 1)} \ {NoVar, Base})
    BY Zenon DEF Named
  <2>3. counter..(counter + 0 - 1) = {}
    BY <1>1
  <2> QED BY <1>4, <1>6, <2>1, <2>2, <2>3 DEF Given
<1>8. IsPushed(Pushed(b), b) /\ IsPushed(stack', b)
  BY <1>1 DEF Entered
<1>9. ASSUME NEW c \in 0..a
      PROVE  /\ Latest(Top(SubSeq(Pushed(b), 1, Len(stack) + c), Base), Given(c))
             /\ \A x : \/ Top(SubSeq(Pushed(b), 1, Len(stack) + c), x)
                            = Top(SubSeq(Pushed(b), 1, Len(stack) + c), Base)
                       \/ Given(c) = {Base}
  BY <1>1, <1>8, TopLatest
<1>10. a = Count(s, Len(s) + 1) /\ Len(s) + 1 \in 1..(Len(s) + 1)
  BY <1>1, <1>2, AllAssignedIs
<1>11. AtEnd(b)' = Given(a)
  <2>1. PICK l : l = Len(s) + 1
    OBVIOUS
  <2>2. Named(b, l)' = Given(a)
    BY <1>7, <1>10, <2>1
  <2>3. AtEnd(b)' = Above(b)' \cup ({code'[b][m].rd : m \in 1..((Len(code'[b]) + 1) - 1)} \ {NoVar, Base})
    BY Zenon DEF AtEnd, Named
  <2>4. Named(b, l)' = Above(b)' \cup ({code'[b][m].rd : m \in 1..(l - 1)} \ {NoVar, Base})
    BY Zenon DEF Named
  <2> QED BY <1>2, <2>1, <2>2, <2>3, <2>4
<1>12. SubSeq(Pushed(b), 1, Len(stack) + a) = stack'
  <2>1. stack' \in Seq(Nat) /\ Len(stack') = Len(stack) + a
    BY <1>8 DEF IsPushed
  <2> QED BY <1>1, <2>1
<1>13. 0 \in 0..a /\ a \in 0..a
  BY <1>1
<1>14. \E v \in Above(b)' : Latest(v, Above(b)')
  <2>1. Above(b)' = Given(0)
    BY <1>4, <1>6
  <2> QED BY <1>9, <1>13, <2>1 DEF Latest
<1>15. \E v \in AtEnd(b)' : Latest(v, AtEnd(b)')
  BY <1>9, <1>11, <1>13 DEF Latest
<1>16. ASSUME NEW n \in 1..Len(s), code'[b][n].rd # NoVar
       PROVE  code'[b][n].rd \in Nat /\ \A u \in Named(b, n)' : u < code'[b][n].rd
  <2>1. Count(s, n) \in Nat /\ code'[b][n].rd = counter + Count(s, n)
    BY <1>1, <1>2, <1>16, RenamedTo
  <2>2. n \in 1..(Len(s) + 1)
    BY <1>2
  <2>3. Named(b, n)' = Given(Count(s, n))
    BY <1>7, <2>2
  <2>4. Base < counter + Count(s, n)
    BY <1>1, <2>1 DEF Base
  <2>5. \A m \in 1..Len(stack) : stack[m] < counter + Count(s, n)
    BY <1>1, <2>1 DEF StackInv
  <2>6. \A v \in counter..(counter + Count(s, n) - 1) : v < counter + Count(s, n)
    BY <1>1, <2>1
  <2>7. counter + Count(s, n) \in Nat
    BY <1>1, <2>1
  <2> QED BY <2>1, <2>3, <2>4, <2>5, <2>6, <2>7 DEF Given
<1>17. ASSUME NEW n \in 1..Len(s), code'[b][n].rs # NoVar
       PROVE  Latest(code'[b][n].rs, Named(b, n)')
  <2>1. /\ Count(s, n) \in 0..a
        /\ code'[b][n].rs = Top(SubSeq(Pushed(b), 1, Len(stack) + Count(s, n)), Base)
    BY <1>1, <1>2, <1>17, RenamedTo
  <2>2. n \in 1..(Len(s) + 1)
    BY <1>2
  <2> QED BY <1>7, <1>9, <2>1, <2>2
<1>18. OrderOf(b)'
  BY <1>2, <1>14, <1>15, <1>16, <1>17 DEF OrderOf, Latest
<1>19. ASSUME NEW c \in visited PROVE OrderOf(c)'
  <2>1. OrderOf(c)
    BY DEF OrderInv
  <2>2. Above(c)' = Above(c)
    BY <1>4
  <2> QED BY <1>5, <2>1, <2>2 DEF OrderOf, Latest
<1>20. ASSUME NEW c \in Blocks, NEW o \in phi_ops'[c] PROVE OpOf(o)'
  <2>1. CASE o \in phi_ops[c]
    <3>1. o[1] \in visited /\ OpOf(o)
      BY <2>1 DEF OpInv, OrderInv
    <3>2. AtEnd(o[1])' = AtEnd(o[1])
      BY <1>5, <3>1
    <3> QED BY <3>1, <3>2 DEF OpOf, Latest
  <2>2. CASE o \notin phi_ops[c]
    <3>1. o = <<b, Top(stack', code'[c][1].rd)>>
      BY <2>2 DEF Enter
    <3>2. o[1] = b /\ o[2] = Top(stack', code'[c][1].rd)
      BY <3>1
    <3>3. Latest(o[2], Given(a)) \/ Given(a) = {Base}
      BY <1>9, <1>12, <1>13, <3>2
    <3> QED BY <1>11, <3>2, <3>3 DEF OpOf, Latest
  <2> QED BY <2>1, <2>2
<1> QED BY <1>1, <1>18, <1>19, <1>20 DEF OrderInv

\* What the shape of the code depends on.
Alike(c, d) ==
    \A b \in Blocks :
      /\ Len(d[b]) = Len(c[b]) /\ Len(c[b]) \in Nat
      /\ \A n \in 1..Len(c[b]) :
           /\ d[b][n].op = c[b][n].op
           /\ d[b][n].rd = NoVar <=> c[b][n].rd = NoVar
           /\ d[b][n].rs = NoVar <=> c[b][n].rs = NoVar
           /\ kind = "global" => d[b][n].rd = c[b][n].rd /\ d[b][n].rs = c[b][n].rs

LEMMA EnterAlike ==
    ASSUME VersInv, StackInv, NEW b \in Blocks \ visited, Enter(b), Entered(b)
    PROVE  Alike(code, code')
<1>1. /\ code[b] \in Seq(Raw) /\ counter \in Nat /\ AllAssigned(b) \in Nat
      /\ code \in [Blocks -> Seq(Insns)] /\ code' = [code EXCEPT ![b] = Renamed(b)]
      /\ IsRenamed(code'[b], code[b], b) /\ IsPushed(Pushed(b), b)
  BY DEF Entered, VersInv, Enter
<1>2. \A c \in Blocks : Len(code[c]) \in Nat
  BY <1>1
<1>3. code'[b] = Renamed(b) /\ \A c \in Blocks \ {b} : code'[c] = code[c]
  BY <1>1
<1>4. ASSUME NEW n \in 1..Len(code[b])
      PROVE  /\ code'[b][n].op = code[b][n].op
             /\ code'[b][n].rd = NoVar <=> code[b][n].rd = NoVar
             /\ code'[b][n].rs = NoVar <=> code[b][n].rs = NoVar
             /\ kind = "global" => code'[b][n].rd = code[b][n].rd /\ code'[b][n].rs = code[b][n].rs
  <2>1. code'[b][n].op = code[b][n].op /\ (code'[b][n].rd = NoVar <=> code[b][n].rd = NoVar)
    BY <1>1 DEF IsRenamed
  <2>2. CASE kind = "global"
    <3>1. code'[b][n] = code[b][n]
      BY <1>3, <2>2 DEF Renamed
    <3> QED BY <3>1
  <2>3. CASE kind # "global"
    <3> DEFINE c == Count(code[b], n)
               t == Top(SubSeq(Pushed(b), 1, Len(stack) + c), Base)
    <3>1. /\ c \in 0..AllAssigned(b)
          /\ code'[b][n].rs = IF code[b][n].rs = NoVar THEN NoVar ELSE t
      BY <1>1, <1>3, <2>3, RenamedTo
    <3>2. Latest(t, Given(c))
      BY <1>1, <3>1, TopLatest
    <3>3. NoVar \notin Given(c)
      BY <1>1 DEF Given, NoVar, Base, StackInv
    <3> QED BY <2>1, <2>3, <3>1, <3>2, <3>3 DEF Latest
  <2> QED BY <2>1, <2>2, <2>3
<1>5. Len(code'[b]) = Len(code[b])
  BY <1>1 DEF IsRenamed
<1> QED BY <1>2, <1>3, <1>4, <1>5 DEF Alike

LEMMA AlikeKeeps ==
    ASSUME Alike(code, code'), UNCHANGED <<program, worklist, solved>>,
           \A b \in Blocks : HasPhi(b)' <=> HasPhi(b), KindInv, ShapeInv, PlaceInv
    PROVE  ShapeInv' /\ PlaceInv'
<1>1. /\ UNCHANGED <<out, df, kind, decl, inside, scope, worklist, solved>>
      /\ Live' = Live /\ \A f : Findable(f)' = Findable(f)
  BY DEF program, Live, Findable
<1>2. ASSUME NEW b \in Blocks
      PROVE  /\ Len(code'[b]) = Len(code[b]) /\ Len(code[b]) \in Nat
             /\ \A n \in 1..Len(code[b]) :
                  /\ code'[b][n].op = code[b][n].op
                  /\ code'[b][n].rd = NoVar <=> code[b][n].rd = NoVar
                  /\ code'[b][n].rs = NoVar <=> code[b][n].rs = NoVar
                  /\ kind = "global" => /\ code'[b][n].rd = code[b][n].rd
                                        /\ code'[b][n].rs = code[b][n].rs
                  /\ Real(code'[b][n]) <=> Real(code[b][n])
  BY DEF Alike, Real
<1>3. ASSUME NEW b \in Blocks, NEW n \in 1..(Len(code[b]) + 1)
      PROVE  Sets(code'[b], n) <=> Sets(code[b], n)
  <2>1. \A m \in 1..(n - 1) : m \in 1..Len(code[b])
    BY <1>2
  <2> QED BY <1>2, <2>1 DEF Sets
<1>4. ASSUME NEW b \in Blocks
      PROVE  Sets(code'[b], Len(code'[b]) + 1) <=> Sets(code[b], Len(code[b]) + 1)
  <2>1. Len(code[b]) + 1 \in 1..(Len(code[b]) + 1)
    BY <1>2
  <2> QED BY <1>2, <1>3, <2>1
<1>5. \A b \in Blocks : \A n \in 1..Len(code'[b]) : ShapeOf(code[b], b, n)'
  <2> SUFFICES ASSUME NEW b \in Blocks, NEW n \in 1..Len(code[b]) PROVE ShapeOf(code[b], b, n)'
    BY <1>2
  <2>1. ShapeOf(code[b], b, n)
    BY DEF ShapeInv
  <2> QED BY <1>1, <1>2, <2>1 DEF ShapeOf
<1>6. ASSUME kind = "local"
      PROVE  Len(code'[decl]) >= 1 /\ Sets(code'[decl], 2) /\ code'[decl][1].rs = NoVar
  <2>1. decl \in Blocks
    BY <1>6 DEF KindInv, Inner
  <2>2. Len(code[decl]) >= 1 /\ Sets(code[decl], 2) /\ code[decl][1].rs = NoVar
    BY <1>6 DEF ShapeInv
  <2>3. 2 \in 1..(Len(code[decl]) + 1) /\ 1 \in 1..Len(code[decl])
    BY <1>2, <2>1, <2>2
  <2> QED BY <1>2, <1>3, <2>1, <2>2, <2>3
<1>7. ASSUME NEW j \in Inner, Met(j) PROVE Met(j)'
  <2>1. \A p \in Transpose(out)[j] : p \in Blocks
    BY DEF Transpose, Inner
  <2>2. \A c \in Blocks : \A n \in 1..Len(code'[c]) :
          /\ Real(code'[c][n]) => c \in Transpose(out)[j]
          /\ code'[c][n].rs # NoVar => Dominates(out, entry, j, c)
    BY <1>2, <1>7 DEF Met
  <2>3. \A p \in Transpose(out)[j] : out[p] = {j} /\ Sets(code'[p], Len(code'[p]) + 1)
    BY <1>4, <1>7, <2>1 DEF Met
  <2> HIDE DEF Transpose, Dominates
  <2>4. out' = out /\ \E a, c \in Blocks : a # c /\ Transpose(out)[j] = {a, c}
    BY <1>1, <1>7 DEF Met
  <2>5. Transpose(out') = Transpose(out) /\ \A c : Dominates(out', entry, j, c) = Dominates(out, entry, j, c)
    BY <2>4
  <2> QED BY <2>2, <2>3, <2>4, <2>5 DEF Met
<1>8. ShapeInv'
  <2>1. kind' = "ret" => \E j \in Inner : Met(j)'
    BY <1>1, <1>7 DEF ShapeInv
  <2>2. kind' = "local" => /\ Len(code'[decl']) >= 1 /\ Sets(code'[decl'], 2)
                           /\ code'[decl'][1].rs = NoVar
    BY <1>1, <1>6
  <2> QED BY <1>5, <2>1, <2>2 DEF ShapeInv
<1>9. \A b \in Blocks : Defined(b)' <=> Defined(b)
  BY <1>1, <1>4 DEF Defined
<1>10. ASSUME \A b \in Blocks : \A n \in 1..Len(code[b]) : code[b][n].rs # NoVar => Sets(code[b], n),
              NEW b \in Blocks, NEW n \in 1..Len(code'[b]), code'[b][n].rs # NoVar
       PROVE  Sets(code'[b], n)
  <2>1. n \in 1..Len(code[b]) /\ n \in 1..(Len(code[b]) + 1)
    BY <1>2
  <2> QED BY <1>2, <1>3, <1>10, <2>1
<1>11. \A b \in Blocks : HasPhi(b)' => Findable(b)' /\ \E a \in solved' : b \in df'[a]
  BY <1>1 DEF PlaceInv
<1>12. kind' = "ret" => \A a \in worklist' : Sets(code'[a], Len(code'[a]) + 1)
  BY <1>1, <1>4 DEF PlaceInv
<1>13. \A a \in solved' : \A f \in df'[a] : Findable(f)' => HasPhi(f)'
  <2> SUFFICES ASSUME NEW a \in solved, NEW f \in df[a], Findable(f) PROVE HasPhi(f)'
    BY <1>1
  <2>1. f \in Blocks
    BY DEF PlaceInv, KindInv, Frontier
  <2> QED BY <2>1 DEF PlaceInv
<1>14. PlaceInv'
  BY <1>1, <1>9, <1>10, <1>11, <1>12, <1>13 DEF PlaceInv
<1> QED BY <1>8, <1>14

-----------------------------------------------------------------------------
(* Code with versions: what has to hold while the phis are unwound.        *)

\* v is the version of the last assignment before n, or i if there is none.
Reaches(s, n, v, i) ==
    \/ ~Sets(s, n) /\ v = i
    \/ \E m \in 1..(n - 1) : /\ Real(s[m]) /\ s[m].rd = v
                             /\ \A k \in (m + 1)..(n - 1) : ~Real(s[k])

\* Where the version is known to be the right one: in the blocks K that begin
\* with the right one, and behind an assignment.
Valid(s, b, n, K) == b \in K \/ Sets(s, n)

\* A block that begins with the version i and ends with o.
InsnOf(s, b, i, o, K, n) ==
    /\ s[n].op = "phi" => n = 1 /\ s[n].rs = NoVar /\ s[n].rd = i /\ i \in Nat /\ kind # "global"
    /\ s[n].op = "branch" => n = Len(s) /\ s[n].rd = NoVar
    /\ s[n].op = "insn" /\ s[n].rd # NoVar => b \in Live
    /\ s[n].op = "copy" => /\ kind # "global" /\ s[n].rd \in Nat
                           /\ \A m \in (n + 1)..Len(s) : ~Real(s[m])
                           /\ s[n].rs = o \/ o = Base
    /\ Real(s[n]) => s[n].rd \in (IF kind = "global" THEN {Base} ELSE Nat)
    /\ s[n].op \notin {"copy", "phi"} /\ s[n].rs # NoVar =>
         Valid(s, b, n, K) /\ Reaches(s, n, s[n].rs, i)
BlockOf(s, b, i, o, K) ==
    /\ Len(s) \in Nat /\ \A n \in 1..Len(s) : InsnOf(s, b, i, o, K, n)
    /\ Reaches(s, Len(s) + 1, o, i)

\* The version at the end of p is that at the beginning of b, or there is a copy.
Copies(s, v) == \E n \in 1..Len(s) : s[n].op = "copy" /\ s[n].rd = v
Link(p, b, I, O) == HasPhi(b) \/ O[p] = I[b] \/ Copies(code[p], I[b])

Coded == [op : {"insn", "allocat", "branch", "phi", "copy"}, rd : Subscripts, rs : Subscripts]
Stands(I, O, K) ==
    /\ code \in [Blocks -> Seq(Coded)]
    /\ \A b \in Blocks : BlockOf(code[b], b, I[b], O[b], K)
    /\ \A p \in Blocks : \A b \in out[p] : b \in K \cap inside =>
         /\ p \in Live => Valid(code[p], p, Len(code[p]) + 1, K)
         /\ Link(p, b, I, O)
    /\ \A b \in Blocks : HasPhi(b) =>
         /\ Transpose(out)[b] \subseteq {o[1] : o \in phi_ops[b]}
         /\ \A o \in phi_ops[b] :
              o[1] \in Blocks /\ o[2] \in Subscripts /\ (o[2] = O[o[1]] \/ O[o[1]] = Base)
    /\ kind = "param" => I[entry] = 0
    /\ kind = "global" => I[entry] = Base

LEMMA LastReal ==
    ASSUME NEW s, NEW n \in Nat \ {0}, Sets(s, n)
    PROVE  \E m \in 1..(n - 1) : Real(s[m]) /\ \A k \in (m + 1)..(n - 1) : ~Real(s[k])
<1> DEFINE T == {d \in Nat : d < n /\ n - d \in 1..(n - 1) /\ Real(s[n - d])}
<1>1. PICK m \in 1..(n - 1) : Real(s[m])
  BY DEF Sets
<1>2. n - m \in Nat /\ n - m < n /\ n - (n - m) = m
  OBVIOUS
<1>3. n - m \in T
  BY <1>1, <1>2
<1>4. PICK d \in T : \A e \in T : d <= e
  BY <1>3, LeastNat
<1>5. n - d \in 1..(n - 1) /\ Real(s[n - d]) /\ d \in Nat
  BY <1>4
<1>6. ASSUME NEW k \in ((n - d) + 1)..(n - 1), Real(s[k]) PROVE FALSE
  <2>1. n - k \in Nat /\ n - k < n /\ n - (n - k) = k /\ k \in 1..(n - 1) /\ n - k < d
    BY <1>5
  <2>2. n - k \in T
    BY <1>6, <2>1
  <2> QED BY <1>4, <1>5, <2>1, <2>2
<1> QED BY <1>5, <1>6

\* Before it is unwound a block begins with its phi's version, or the latest of
\* those above, and every use has the version that reaches it.
Last(S) == CHOOSE v : Latest(v, S)
Begun(b) == IF kind = "global" THEN Base
            ELSE IF HasPhi(b) THEN code[b][1].rd ELSE Last(Above(b))
Ended(b) == IF kind = "global" THEN Base ELSE Last(AtEnd(b))

LEMMA LastIs ==
    ASSUME NEW S, S \subseteq Int, NEW v, Latest(v, S)
    PROVE  Last(S) = v
<1>1. Latest(Last(S), S)
  BY DEF Last
<1>2. v \in Int /\ Last(S) \in Int /\ v <= Last(S) /\ Last(S) <= v
  BY <1>1 DEF Latest
<1> QED BY <1>2

\* An assignment that is not the program's is a phi.
LEMMA NotReal ==
    ASSUME NEW b \in Blocks, ShapeInv, NEW n \in 1..Len(code[b]),
           code[b][n].rd # NoVar, ~Real(code[b][n])
    PROVE  n = 1 /\ HasPhi(b)
<1>1. n = 1 /\ code[b][n].op = "phi"
  BY DEF ShapeInv, ShapeOf, Real
<1>2. code[b] # <<>>
  BY <1>1
<1> QED BY <1>1, <1>2 DEF HasPhi

LEMMA NamedInt ==
    ASSUME WalkInv, VersInv, NEW b \in Blocks
    PROVE  Above(b) \subseteq Int /\ \A n : n \in 1..(Len(code[b]) + 1) => Named(b, n) \subseteq Int
<1>1. \A c \in Blocks : Versions(c) \subseteq Int
  BY OldVersions
<1>2. Above(b) \subseteq Int
  <2>1. \A x \in Up(b) : x \in Blocks
    BY DEF Up
  <2> QED BY <1>1, <2>1 DEF Above, Base, Basis
<1>3. ASSUME NEW n \in 1..(Len(code[b]) + 1)
      PROVE  {code[b][m].rd : m \in 1..(n - 1)} \ {NoVar, Base} \subseteq Versions(b)
  <2>1. \A m \in 1..(n - 1) : m \in 1..Len(code[b])
    BY DEF VersInv
  <2> QED BY <2>1 DEF Versions
<1> QED BY <1>1, <1>2, <1>3 DEF Named

LEMMA LatestReaches ==
    ASSUME WalkInv, VersInv, ShapeInv, NEW b \in Blocks, OrderOf(b), kind # "global",
           NEW n \in 1..(Len(code[b]) + 1), HasPhi(b) => n # 1,
           NEW v, Latest(v, Named(b, n))
    PROVE  Reaches(code[b], n, v, Begun(b))
<1> DEFINE s == code[b]
<1>1. Len(s) \in Nat /\ n \in Nat \ {0} /\ \A m \in 1..(n - 1) : m \in 1..Len(s)
  BY DEF VersInv
<1>2. Named(b, n) \subseteq Int /\ Above(b) \subseteq Int
  BY NamedInt
<1>3. v \in Named(b, n) /\ v \in Int /\ \A u \in Named(b, n) : u <= v
  BY <1>2 DEF Latest
<1>4. ASSUME NEW m \in 1..(n - 1), s[m].rd # NoVar
      PROVE  /\ s[m].rd \in Nat /\ s[m].rd \in Named(b, n)
             /\ \A u \in Above(b) : u < s[m].rd
             /\ \A k \in 1..(m - 1) : s[k].rd \notin {NoVar, Base} => s[k].rd < s[m].rd
  <2>1. s[m].rd \in Nat /\ \A u \in Named(b, m) : u < s[m].rd
    BY <1>1, <1>4 DEF OrderOf
  <2>2. s[m].rd \notin {NoVar, Base}
    BY <2>1 DEF NoVar, Base
  <2> QED BY <2>1, <2>2 DEF Named
<1>5. CASE Sets(s, n)
  <2>1. PICK m \in 1..(n - 1) : Real(s[m]) /\ \A k \in (m + 1)..(n - 1) : ~Real(s[k])
    BY <1>1, <1>5, LastReal
  <2>2. s[m].rd # NoVar
    BY <2>1 DEF Real
  <2>3. s[m].rd \in Nat /\ s[m].rd <= v
    BY <1>3, <1>4, <2>2
  <2>4. v \notin Above(b)
    BY <1>2, <1>4, <2>2, <2>3
  <2>5. PICK k \in 1..(n - 1) : v = s[k].rd /\ v \notin {NoVar, Base}
    BY <1>3, <2>4 DEF Named
  <2>6. ~(k < m)
    <3>1. k < m => k \in 1..(m - 1)
      OBVIOUS
    <3> QED BY <1>4, <2>2, <2>3, <2>5, <3>1
  <2>7. ~(k > m)
    <3> SUFFICES ASSUME k > m PROVE FALSE
      OBVIOUS
    <3>1. k \in (m + 1)..(n - 1) /\ k # 1
      OBVIOUS
    <3> QED BY <1>1, <2>1, <2>5, <3>1, NotReal
  <2>8. k = m
    BY <2>6, <2>7
  <2> QED BY <2>1, <2>5, <2>8 DEF Reaches
<1>6. CASE ~Sets(s, n)
  <2>1. \A k \in 1..(n - 1) : s[k].rd # NoVar => k = 1 /\ HasPhi(b)
    BY <1>1, <1>6, NotReal DEF Sets
  <2>2. CASE HasPhi(b)
    <3>1. 1 \in 1..(n - 1)
      BY <1>1, <2>2
    <3>2. s[1].rd # NoVar
      BY <1>1, <2>2, <3>1 DEF HasPhi, ShapeInv, ShapeOf
    <3>3. s[1].rd \in Nat /\ s[1].rd <= v /\ v \notin Above(b)
      BY <1>2, <1>3, <1>4, <3>1, <3>2
    <3>4. v = s[1].rd
      BY <1>3, <2>1, <3>3 DEF Named
    <3> QED BY <1>6, <2>2, <3>4 DEF Reaches, Begun
  <2>3. CASE ~HasPhi(b)
    <3>1. Named(b, n) = Above(b)
      BY <2>1, <2>3 DEF Named
    <3>2. Last(Above(b)) = v
      BY <1>2, <3>1, LastIs
    <3> QED BY <1>6, <2>3, <3>2 DEF Reaches, Begun
  <2> QED BY <2>2, <2>3
<1> QED BY <1>5, <1>6

\* The whole code when all blocks have their versions.
Done == SsaInv /\ Renaming /\ KindInv /\ ShapeInv /\ PlaceInv /\ solved = worklist

LEMMA DoneIs ==
    ASSUME Done
    PROVE  /\ WalkInv /\ VersInv /\ OpInv /\ visited = Blocks /\ Connected(out, entry)
           /\ IsGraph(out) /\ entry \in Blocks /\ code \in [Blocks -> Seq(Insns)]
<1>1. RenameInv /\ visited = Blocks /\ TreeInv
  BY AllVisited DEF Done, SsaInv
<1> QED BY <1>1 DEF RenameInv, TreeInv, Connected, VersInv

\* K is right for every use if it is right for the uses before an assignment.
LEMMA StandsBlock ==
    ASSUME Done, kind # "global" => OrderInv, NEW b \in Blocks, NEW K,
           \A n \in 1..Len(code[b]) : code[b][n].rs # NoVar => Valid(code[b], b, n, K)
    PROVE  BlockOf(code[b], b, Begun(b), Ended(b), K)
<1> DEFINE s == code[b]
<1>1. /\ WalkInv /\ VersInv /\ visited = Blocks /\ ShapeInv
      /\ s \in Seq(Insns) /\ Len(s) \in Nat
  BY DoneIs DEF Done
<1>2. \A n \in 1..Len(s) : s[n] \in Insns /\ s[n].op # "copy" /\ ShapeOf(s, b, n)
  <2> TAKE n \in 1..Len(s)
  <2>1. ShapeOf(s, b, n)
    BY <1>1 DEF ShapeInv
  <2>2. s[n] \in Insns
    BY <1>1
  <2>3. s[n].op # "copy"
    BY <2>2 DEF Insns
  <2> QED BY <2>1, <2>2, <2>3
<1>3. CASE kind = "global"
  <2>1. Begun(b) = Base /\ Ended(b) = Base
    BY <1>3 DEF Begun, Ended
  <2>2. ASSUME NEW n \in 1..(Len(s) + 1) PROVE Reaches(s, n, Base, Base)
    <3>1. CASE Sets(s, n)
      <4>1. PICK m \in 1..(n - 1) : Real(s[m]) /\ \A k \in (m + 1)..(n - 1) : ~Real(s[k])
        BY <1>1, <3>1, LastReal
      <4>2. m \in 1..Len(s)
        BY <1>1
      <4>3. s[m].rd = Base
        BY <1>2, <1>3, <4>1, <4>2 DEF Real, ShapeOf
      <4> QED BY <4>1, <4>3 DEF Reaches
    <3>2. CASE ~Sets(s, n)
      BY <3>2 DEF Reaches
    <3> QED BY <3>1, <3>2
  <2>3. ASSUME NEW n \in 1..Len(s) PROVE InsnOf(s, b, Base, Base, K, n)
    <3>1. Reaches(s, n, Base, Base)
      BY <1>1, <2>2
    <3>2. s[n].rs # NoVar => s[n].rs = Base
      BY <1>2, <1>3 DEF ShapeOf
    <3>3. Real(s[n]) => s[n].rd = Base
      BY <1>2, <1>3 DEF ShapeOf, Real
    <3> QED BY <1>2, <1>3, <3>1, <3>2, <3>3 DEF InsnOf, ShapeOf
  <2>4. Reaches(s, Len(s) + 1, Base, Base)
    BY <1>1, <2>2
  <2> QED BY <1>1, <2>1, <2>3, <2>4 DEF BlockOf
<1>4. CASE kind # "global"
  <2>1. OrderOf(b)
    BY <1>1, <1>4 DEF OrderInv
  <2>2. HasPhi(b) => s # <<>> /\ s[1].op = "phi"
    BY DEF HasPhi
  <2>3. ASSUME NEW n \in 1..Len(s) PROVE InsnOf(s, b, Begun(b), Ended(b), K, n)
    <3>1. s[n].rd # NoVar => s[n].rd \in Nat
      BY <2>1 DEF OrderOf
    <3>2. ASSUME s[n].op = "phi"
          PROVE  n = 1 /\ s[n].rs = NoVar /\ s[n].rd = Begun(b) /\ Begun(b) \in Nat
      <4>1. n = 1 /\ s[n].rs = NoVar /\ s[n].rd # NoVar
        BY <1>2, <3>2 DEF ShapeOf
      <4>2. HasPhi(b)
        BY <3>2, <4>1 DEF HasPhi
      <4> QED BY <1>4, <3>1, <4>1, <4>2 DEF Begun
    <3>3. ASSUME s[n].rs # NoVar PROVE Reaches(s, n, s[n].rs, Begun(b))
      <4>1. Latest(s[n].rs, Named(b, n)) /\ n \in 1..(Len(s) + 1)
        BY <1>1, <2>1, <3>3 DEF OrderOf
      <4>2. HasPhi(b) => n # 1
        BY <1>2, <2>2, <3>3 DEF ShapeOf
      <4> QED BY <1>1, <1>4, <2>1, <4>1, <4>2, LatestReaches
    <3>4. Real(s[n]) => s[n].rd \in Nat
      BY <3>1 DEF Real
    <3> QED BY <1>2, <1>4, <3>2, <3>3, <3>4 DEF InsnOf, ShapeOf
  <2>4. Reaches(s, Len(s) + 1, Ended(b), Begun(b))
    <3>1. PICK v \in AtEnd(b) : Latest(v, AtEnd(b))
      BY <2>1 DEF OrderOf
    <3>2. Latest(Ended(b), AtEnd(b))
      BY <1>4, <3>1 DEF Ended, Last
    <3>3. Len(s) + 1 \in 1..(Len(s) + 1) /\ (HasPhi(b) => Len(s) + 1 # 1)
      BY <1>1, <2>2
    <3> QED BY <1>1, <1>4, <2>1, <3>2, <3>3, LatestReaches DEF AtEnd
  <2> QED BY <1>1, <2>3, <2>4 DEF BlockOf
<1> QED BY <1>3, <1>4

\* On an edge into a block without a phi the latest version stays the same if
\* the work list has been to every block with versions that ends there.
LEMMA SameOnEdge ==
    ASSUME Done, kind # "global", NEW p \in Blocks, NEW b \in out[p], ~HasPhi(b),
           \A q \in Up(p) : b \in df[q] => Versions(q) = {}
    PROVE  Ended(p) = Begun(b)
<1>1. /\ IsGraph(out) /\ entry \in Blocks /\ code \in [Blocks -> Seq(Insns)]
      /\ df = [a \in Blocks |-> Frontier(out, entry, a)]
  BY DoneIs DEF Done, KindInv
<1>2. b \in Blocks
  BY <1>1 DEF IsGraph
<1>3. Up(b) \ {b} \subseteq Up(p)
  BY <1>1, Undominated DEF Up
<1>4. ASSUME NEW q \in Up(p), q \notin Up(b) \ {b} PROVE Versions(q) = {}
  <2>1. q \in Blocks /\ Dominates(out, entry, q, p) /\ p \in Transpose(out)[b]
    BY <1>2 DEF Up, Transpose
  <2>2. q \notin StrictDoms(out, entry, b)
    BY <1>4 DEF StrictDoms, Up
  <2>3. b \in df[q]
    BY <1>1, <1>2, <2>1, <2>2 DEF Frontier
  <2> QED BY <2>3
<1>5. UNION {Versions(x) : x \in Up(p)} = UNION {Versions(x) : x \in Up(b) \ {b}}
  BY <1>3, <1>4
<1>6. AtEnd(p) = {Base} \cup Basis \cup UNION {Versions(x) : x \in Up(p)}
  <2>1. p \in Up(p)
    BY <1>1, Undominated DEF Up
  <2>2. (Len(code[p]) + 1) - 1 = Len(code[p])
    BY <1>1
  <2>3. AtEnd(p) = Above(p) \cup Versions(p)
    BY <2>2 DEF AtEnd, Named, Versions
  <2>4. UNION {Versions(x) : x \in Up(p)} = (UNION {Versions(x) : x \in Up(p) \ {p}}) \cup Versions(p)
    BY <2>1
  <2> QED BY <2>3, <2>4 DEF Above
<1>7. AtEnd(p) = Above(b)
  BY <1>5, <1>6 DEF Above
<1> QED BY <1>7 DEF Begun, Ended

\* A block that is not on the work list has no versions, but for the phis of a
\* result of && || ?:.
LEMMA Undefined ==
    ASSUME Done, NEW q \in Blocks, ~Defined(q)
    PROVE  Versions(q) = {} \/ (kind = "ret" /\ HasPhi(q))
<1>1. code[q] \in Seq(Insns) /\ ShapeInv
  BY DoneIs DEF Done
<1>2. (Len(code[q]) + 1) - 1 = Len(code[q]) /\ Len(code[q]) + 1 \in Nat
  BY <1>1
<1>3. \A n \in 1..Len(code[q]) : ~Real(code[q][n])
  BY <1>2 DEF Defined, Sets
<1>4. CASE \A n \in 1..Len(code[q]) : code[q][n].rd = NoVar
  BY <1>4 DEF Versions
<1>5. ASSUME NEW n \in 1..Len(code[q]), code[q][n].rd # NoVar
      PROVE  kind = "ret" /\ HasPhi(q)
  BY <1>1, <1>3, <1>5, NotReal DEF Defined
<1> QED BY <1>4, <1>5

\* A block whose only edge goes to j dominates nothing else, or it dominates j.
LEMMA OnlyItself ==
    ASSUME NEW g, NEW root, Connected(g, root), NEW a \in Blocks, NEW j, g[a] = {j},
           ~Dominates(g, root, a, j), NEW x \in Blocks, Dominates(g, root, a, x)
    PROVE  x = a
<1> DEFINE X == {y \in Blocks : ~Dominates(g, root, a, y)} \cup {a}
<1>1. IsGraph(g) /\ root \in Blocks
  BY DEF Connected
<1>2. root # a
  BY <1>1, RootDominates
<1>3. root \in X
  BY <1>1, <1>2, Undominated
<1>4. ASSUME NEW y \in X \cap Blocks, NEW z \in g[y] PROVE z \in X
  <2>1. z \in Blocks
    BY <1>1 DEF IsGraph
  <2>2. CASE y = a
    BY <2>1, <2>2
  <2>3. CASE y # a
    BY <1>1, <2>1, <2>3, Undominated
  <2> QED BY <2>2, <2>3
<1>5. Blocks \subseteq X
  <2>1. \A y \in X \cap Blocks : g[y] \subseteq X
    BY <1>4
  <2> HIDE DEF X
  <2> QED BY <1>3, <2>1, ClosedIsAll
<1> QED BY <1>5

\* The result of && || ?: gets a phi where its two assignments meet, and below
\* that block no edge ends the dominance of a block that has a phi.
LEMMA MetPhi ==
    ASSUME Done, kind = "ret", NEW j \in Inner, Met(j),
           \A b \in Blocks : Defined(b) => b \in worklist
    PROVE  HasPhi(j)
<1>1. /\ Connected(out, entry) /\ IsGraph(out) /\ entry \in Blocks /\ j \in Blocks
      /\ df = [a \in Blocks |-> Frontier(out, entry, a)]
      /\ \A p \in Transpose(out)[j] : p \in Blocks
  BY DoneIs DEF Done, KindInv, Inner, Transpose
<1>2. PICK a \in Blocks, c \in Blocks : a # c /\ Transpose(out)[j] = {a, c}
  BY DEF Met
<1>3. Findable(j)
  BY <1>1 DEF Done, KindInv, Findable, Inner, Blocks
<1>4. \A p \in {a, c} : p \in solved
  BY <1>2 DEF Met, Defined, Done
<1>5. ASSUME NEW p \in {a, c}, ~HasPhi(j) PROVE Dominates(out, entry, p, j) /\ p # j
  <2>1. j \notin df[p]
    BY <1>3, <1>4, <1>5 DEF Done, PlaceInv
  <2>2. p \in Transpose(out)[j] /\ Dominates(out, entry, p, p)
    BY <1>1, <1>2, Undominated
  <2>3. p \in StrictDoms(out, entry, j)
    BY <1>1, <2>1, <2>2 DEF Frontier
  <2> QED BY <2>3 DEF StrictDoms
<1>6. SUFFICES ASSUME ~HasPhi(j) PROVE FALSE
  OBVIOUS
<1>7. j \in out[a] /\ j \in out[c]
  BY <1>1, <1>2 DEF Transpose
<1>8. Dominates(out, entry, a, c) /\ Dominates(out, entry, c, a)
  BY <1>1, <1>5, <1>6, <1>7, Undominated
<1> QED BY <1>1, <1>2, <1>8, DominatesAntisym

LEMMA MetBelow ==
    ASSUME Done, kind = "ret", NEW j \in Inner, Met(j),
           \A b \in Blocks : Defined(b) => b \in worklist,
           NEW p \in Blocks, NEW b \in out[p], Dominates(out, entry, j, b), ~HasPhi(b),
           NEW q \in Up(p), b \in df[q]
    PROVE  ~HasPhi(q)
<1>1. /\ Connected(out, entry) /\ IsGraph(out) /\ entry \in Blocks /\ j \in Blocks
      /\ df = [a \in Blocks |-> Frontier(out, entry, a)]
      /\ b \in Blocks /\ q \in Blocks /\ Dominates(out, entry, q, p)
  BY DoneIs DEF Done, KindInv, Inner, IsGraph, Up
<1>2. b # j /\ Dominates(out, entry, j, p)
  BY <1>1, MetPhi, Undominated
<1>3. SUFFICES ASSUME HasPhi(q) PROVE FALSE
  OBVIOUS
<1>4. b # q
  BY <1>3
<1>5. ~Dominates(out, entry, q, b)
  <2>1. q \notin StrictDoms(out, entry, b)
    BY <1>1 DEF Frontier
  <2> QED BY <1>1, <1>4, <2>1 DEF StrictDoms
<1>6. ~Dominates(out, entry, q, j)
  BY <1>1, <1>5, DominatesTrans
<1>7. Dominates(out, entry, j, q) /\ q # j
  BY <1>1, <1>2, <1>6, DominatesOrder, Undominated
<1>8. PICK a \in solved : q \in df[a]
  BY <1>1, <1>3 DEF Done, PlaceInv
<1>9. a \in Blocks /\ a \in Transpose(out)[j] /\ out[a] = {j}
  <2>1. a \in Blocks /\ Sets(code[a], Len(code[a]) + 1)
    BY DEF Done, PlaceInv
  <2>2. PICK n \in 1..((Len(code[a]) + 1) - 1) : Real(code[a][n])
    BY <2>1 DEF Sets
  <2>3. n \in 1..Len(code[a])
    <3>1. code[a] \in Seq(Insns)
      BY <2>1, DoneIs
    <3> QED BY <3>1
  <2> QED BY <2>1, <2>2, <2>3 DEF Met
<1>10. PICK r \in Transpose(out)[q] : Dominates(out, entry, a, r)
  BY <1>1, <1>8, <1>9 DEF Frontier
<1>11. r \in Blocks /\ q \in out[r] /\ a \notin StrictDoms(out, entry, q)
  BY <1>1, <1>8, <1>9, <1>10 DEF Frontier, Transpose
<1>12. CASE Dominates(out, entry, a, j)
  <2>1. Dominates(out, entry, a, q)
    BY <1>1, <1>7, <1>9, <1>12, DominatesTrans
  <2>2. a = q
    BY <1>9, <1>11, <2>1 DEF StrictDoms
  <2> QED BY <1>6, <1>12, <2>2
<1>13. CASE ~Dominates(out, entry, a, j)
  <2>1. r = a
    BY <1>1, <1>9, <1>10, <1>11, <1>13, OnlyItself
  <2> QED BY <1>7, <1>9, <1>11, <2>1
<1> QED BY <1>12, <1>13

\* The renaming leaves code that stands.
LEMMA StandsStart ==
    ASSUME Done, kind # "global" => OrderInv
    PROVE  \E I, O, K : Stands(I, O, K)
<1> DEFINE I == [b \in Blocks |-> Begun(b)]
           O == [b \in Blocks |-> Ended(b)]
<1>1. /\ WalkInv /\ VersInv /\ OpInv /\ visited = Blocks /\ Connected(out, entry)
      /\ IsGraph(out) /\ entry \in Blocks /\ code \in [Blocks -> Seq(Insns)]
      /\ KindInv /\ ShapeInv /\ PlaceInv /\ solved = worklist
  BY DoneIs DEF Done
<1>2. /\ \A b \in Blocks : Len(code[b]) \in Nat
      /\ \A p \in Blocks : out[p] \subseteq Blocks /\ (out[p] # {} => p \in Inner)
      /\ Inner \subseteq Blocks
  BY <1>1 DEF KindInv, IsGraph, Inner
<1>3. ASSUME NEW b \in Blocks, HasPhi(b)
      PROVE  /\ Transpose(out)[b] \subseteq {o[1] : o \in phi_ops[b]}
             /\ \A o \in phi_ops[b] :
                  o[1] \in Blocks /\ o[2] \in Subscripts /\ (o[2] = O[o[1]] \/ O[o[1]] = Base)
  <2>1. Transpose(out)[b] \subseteq {o[1] : o \in phi_ops[b]}
    BY <1>1, <1>3 DEF OpInv, Transpose
  <2>2. ASSUME NEW o \in phi_ops[b]
        PROVE  o[1] \in Blocks /\ o[2] \in Subscripts /\ (o[2] = O[o[1]] \/ O[o[1]] = Base)
    <3>1. o[1] \in Blocks /\ o[2] \in Subscripts
      BY <1>1 DEF OpInv
    <3>2. CASE kind = "global"
      BY <3>1, <3>2 DEF Ended
    <3>3. CASE kind # "global"
      <4>1. OpOf(o)
        BY <3>3 DEF OrderInv
      <4>2. AtEnd(o[1]) \subseteq Int
        <5>1. Len(code[o[1]]) + 1 \in 1..(Len(code[o[1]]) + 1)
          BY <1>2, <3>1
        <5> QED BY <1>1, <3>1, <5>1, NamedInt DEF AtEnd
      <4>3. CASE Latest(o[2], AtEnd(o[1]))
        BY <3>1, <3>3, <4>2, <4>3, LastIs DEF Ended
      <4>4. CASE AtEnd(o[1]) = {Base}
        <5>1. Latest(Base, {Base})
          BY DEF Latest, Base
        <5>2. Last({Base}) = Base
          BY <4>2, <4>4, <5>1, LastIs
        <5> QED BY <3>1, <3>3, <4>4, <5>2 DEF Ended
      <4> QED BY <4>1, <4>3, <4>4 DEF OpOf
    <3> QED BY <3>2, <3>3
  <2> QED BY <2>1, <2>2
<1>4. kind = "global" => I[entry] = Base
  BY <1>1 DEF Begun
<1>5. ASSUME kind = "param" PROVE I[entry] = 0
  <2>1. ~HasPhi(entry)
    BY <1>1, <1>5 DEF KindInv, PlaceInv, Findable
  <2>2. Up(entry) = {entry}
    BY <1>1, AboveRoot DEF Up
  <2>3. Above(entry) = {Base, 0}
    BY <1>5, <2>2 DEF Above, Basis
  <2>4. Latest(0, {Base, 0}) /\ {Base, 0} \subseteq Int
    BY DEF Latest, Base
  <2>5. Last({Base, 0}) = 0
    BY <2>4, LastIs
  <2> QED BY <1>1, <1>5, <2>1, <2>3, <2>5 DEF Begun
<1>coded. code \in [Blocks -> Seq(Coded)]
  <2>1. Insns \subseteq Coded
    BY DEF Insns, Coded
  <2>2. Seq(Insns) \subseteq Seq(Coded)
    BY <2>1
  <2> QED BY <1>1, <2>2
<1>exists. SUFFICES
      \E K : /\ \A b \in Blocks : \A n \in 1..Len(code[b]) :
                  code[b][n].rs # NoVar => Valid(code[b], b, n, K)
             /\ \A p \in Blocks : \A b \in out[p] : b \in K \cap inside =>
                  /\ p \in Live => Valid(code[p], p, Len(code[p]) + 1, K)
                  /\ HasPhi(b) \/ Ended(p) = Begun(b)
  <2>1. PICK K : /\ \A b \in Blocks : \A n \in 1..Len(code[b]) :
                      code[b][n].rs # NoVar => Valid(code[b], b, n, K)
                 /\ \A p \in Blocks : \A b \in out[p] : b \in K \cap inside =>
                      /\ p \in Live => Valid(code[p], p, Len(code[p]) + 1, K)
                      /\ HasPhi(b) \/ Ended(p) = Begun(b)
    OBVIOUS
  <2>2. \A b \in Blocks : BlockOf(code[b], b, I[b], O[b], K)
    BY <2>1, StandsBlock
  <2>3. \A p \in Blocks : \A b \in out[p] : b \in K \cap inside =>
         /\ p \in Live => Valid(code[p], p, Len(code[p]) + 1, K)
         /\ Link(p, b, I, O)
    BY <1>2, <2>1 DEF Link
  <2> HIDE DEF I, O
  <2>4. Stands(I, O, K)
    BY <1>3, <1>4, <1>5, <1>coded, <2>2, <2>3 DEF Stands
  <2> QED BY <2>4
<1>6. ASSUME NEW b \in Blocks, NEW n \in 1..Len(code[b]), code[b][n].rs # NoVar
      PROVE  b \in Live \cap Inner
  BY <1>1, <1>6 DEF ShapeInv, ShapeOf
<1>7. CASE kind = "global"
  <2>1. \A b \in Blocks : \A n \in 1..Len(code[b]) :
           code[b][n].rs # NoVar => Valid(code[b], b, n, Inner)
    BY <1>6 DEF Valid
  <2>2. \A p \in Blocks : \A b \in out[p] : Valid(code[p], p, Len(code[p]) + 1, Inner)
    BY <1>2 DEF Valid
  <2> QED BY <1>7, <2>1, <2>2 DEF Begun, Ended
<1>8. CASE \A b \in Blocks : \A n \in 1..Len(code[b]) : code[b][n].rs # NoVar => Sets(code[b], n)
  <2>1. \A b \in Blocks : \A n \in 1..Len(code[b]) :
           code[b][n].rs # NoVar => Valid(code[b], b, n, {})
    BY <1>8 DEF Valid
  <2> DEFINE K == {}
  <2>2. \A p \in Blocks : \A b \in out[p] : b \in K \cap inside =>
          /\ p \in Live => Valid(code[p], p, Len(code[p]) + 1, K)
          /\ HasPhi(b) \/ Ended(p) = Begun(b)
    OBVIOUS
  <2>3. \A b \in Blocks : \A n \in 1..Len(code[b]) :
           code[b][n].rs # NoVar => Valid(code[b], b, n, K)
    BY <2>1
  <2> HIDE DEF K
  <2> QED BY <2>2, <2>3
<1>9. CASE kind # "global" /\ \A b \in Blocks : Defined(b) => b \in worklist
  \* No block that is not on the list has versions, no block on it is missed.
  <2>1. ASSUME NEW p \in Blocks, NEW b \in out[p], Findable(b), ~HasPhi(b),
               NEW q \in Up(p), b \in df[q]
        PROVE  Versions(q) = {} \/ (kind = "ret" /\ HasPhi(q))
    <3>1. q \in Blocks /\ q \notin solved
      BY <1>1, <2>1 DEF PlaceInv, Up
    <3>2. ~Defined(q)
      BY <1>1, <1>9, <3>1
    <3> QED BY <3>1, <3>2, Undefined
  <2>2. CASE kind = "param"
    <3>1. \A b \in Blocks : \A n \in 1..Len(code[b]) :
             code[b][n].rs # NoVar => Valid(code[b], b, n, Inner)
      BY <1>6 DEF Valid
    <3>2. ASSUME NEW p \in Blocks, NEW b \in out[p], b \in Inner
          PROVE  /\ Valid(code[p], p, Len(code[p]) + 1, Inner)
                 /\ HasPhi(b) \/ Ended(p) = Begun(b)
      <4>1. Valid(code[p], p, Len(code[p]) + 1, Inner)
        BY <1>2 DEF Valid
      <4>2. Findable(b)
        BY <1>1, <1>9, <2>2, <3>2 DEF KindInv, Findable, Inner
      <4> QED BY <1>9, <2>1, <2>2, <4>1, <4>2, SameOnEdge
    <3> QED BY <3>1, <3>2
  <2>3. CASE kind = "local"
    <3> DEFINE K == inside \ {decl}
    <3>1. decl \in Inner /\ inside \subseteq Inner /\ scope = inside \cup {decl}
          /\ Len(code[decl]) >= 1 /\ Sets(code[decl], 2) /\ code[decl][1].rs = NoVar
      BY <1>1, <2>3 DEF KindInv, ShapeInv
    <3>2. \A n \in Nat : n >= 2 => Sets(code[decl], n)
      BY <3>1 DEF Sets
    <3>3. ASSUME NEW b \in Blocks, NEW n \in 1..Len(code[b]), code[b][n].rs # NoVar
          PROVE  Valid(code[b], b, n, K)
      <4>1. CASE b = decl
        <5>1. n # 1
          BY <3>1, <3>3, <4>1
        <5>2. n \in Nat /\ n >= 2
          BY <5>1
        <5> QED BY <3>2, <4>1, <5>2 DEF Valid
      <4>2. CASE b # decl
        BY <1>6, <3>3, <4>2 DEF Valid, Live
      <4> QED BY <4>1, <4>2
    <3>4. ASSUME NEW p \in Blocks, NEW b \in out[p], b \in K \cap inside
          PROVE  /\ p \in Live => Valid(code[p], p, Len(code[p]) + 1, K)
                 /\ HasPhi(b) \/ Ended(p) = Begun(b)
      <4>1. p \in Live => Valid(code[p], p, Len(code[p]) + 1, K)
        <5>1. CASE p = decl
          <6>1. Len(code[p]) + 1 \in Nat /\ Len(code[p]) + 1 >= 2
            BY <1>2, <3>1, <5>1
          <6> QED BY <3>2, <5>1, <6>1 DEF Valid
        <5>2. CASE p # decl
          BY <5>2 DEF Valid, Live
        <5> QED BY <5>1, <5>2
      <4>2. Findable(b)
        BY <1>9, <3>1, <3>4 DEF Findable, Inner
      <4> QED BY <1>9, <2>1, <2>3, <4>1, <4>2, SameOnEdge
    <3> QED BY <3>3, <3>4
  <2>4. CASE kind = "ret"
    <3>1. PICK j \in Inner : Met(j)
      BY <1>1, <2>4 DEF ShapeInv
    <3> DEFINE K == {b \in Inner : Dominates(out, entry, j, b)}
    <3>2. ASSUME NEW b \in Blocks, NEW n \in 1..Len(code[b]), code[b][n].rs # NoVar
          PROVE  Valid(code[b], b, n, K)
      <4>1. Dominates(out, entry, j, b)
        BY <3>1, <3>2 DEF Met
      <4> QED BY <1>6, <3>2, <4>1 DEF Valid
    <3>3. ASSUME NEW p \in Blocks, NEW b \in out[p], b \in K
          PROVE  /\ Valid(code[p], p, Len(code[p]) + 1, K)
                 /\ HasPhi(b) \/ Ended(p) = Begun(b)
      <4>1. Valid(code[p], p, Len(code[p]) + 1, K)
        <5>1. CASE b = j
          <6>1. p \in Transpose(out)[j]
            BY <1>2, <5>1 DEF Transpose
          <6> QED BY <3>1, <6>1 DEF Met, Valid
        <5>2. CASE b # j
          <6>1. Dominates(out, entry, j, p)
            BY <1>1, <3>3, <5>2, Undominated
          <6> QED BY <1>2, <6>1 DEF Valid
        <5> QED BY <5>1, <5>2
      <4>2. Findable(b)
        BY <1>1, <2>4, <3>3 DEF KindInv, Findable, Inner, Blocks
      <4>3. ASSUME ~HasPhi(b), NEW q \in Up(p), b \in df[q] PROVE Versions(q) = {}
        <5>1. ~HasPhi(q)
          BY <1>9, <2>4, <3>1, <3>3, <4>3, MetBelow
        <5> QED BY <2>1, <4>2, <4>3, <5>1
      <4> QED BY <1>9, <4>1, <4>3, SameOnEdge
    <3> QED BY <3>2, <3>3
  <2> QED BY <1>1, <1>9, <2>2, <2>3, <2>4 DEF KindInv
<1> QED BY <1>1, <1>7, <1>8, <1>9 DEF PlaceInv

-----------------------------------------------------------------------------
(* A phi is unwound.                                                       *)

\* t is s with an instruction more, at k, that is no assignment of the program.
Inserted(s, t, k) ==
    /\ Len(s) \in Nat /\ Len(t) = Len(s) + 1 /\ k \in 1..Len(t)
    /\ ~Real(t[k])
    /\ \A n \in 1..(k - 1) : t[n] = s[n]
    /\ \A n \in k..Len(s) : t[n + 1] = s[n]

LEMMA InsertedReal ==
    ASSUME NEW s, NEW t, NEW k, Inserted(s, t, k), NEW m \in 1..Len(t)
    PROVE  \/ m < k /\ m \in 1..(k - 1) /\ m \in 1..Len(s) /\ t[m] = s[m]
           \/ m = k /\ ~Real(t[m])
           \/ m > k /\ m - 1 \in k..Len(s) /\ m - 1 \in 1..Len(s) /\ t[m] = s[m - 1]
<1>1. k \in Nat /\ m \in Nat /\ Len(s) \in Nat /\ k >= 1
  BY DEF Inserted
<1>2. CASE m < k
  <2>1. m \in 1..(k - 1) /\ m \in 1..Len(s)
    BY <1>1, <1>2 DEF Inserted
  <2> QED BY <1>2, <2>1 DEF Inserted
<1>3. CASE m = k
  BY <1>3 DEF Inserted
<1>4. CASE m > k
  <2>1. m - 1 \in k..Len(s) /\ m - 1 \in 1..Len(s) /\ (m - 1) + 1 = m
    BY <1>1, <1>4 DEF Inserted
  <2> QED BY <1>4, <2>1 DEF Inserted
<1> QED BY <1>1, <1>2, <1>3, <1>4

\* It changes nothing for the versions of the assignments.
LEMMA InsertedSets ==
    ASSUME NEW s, NEW t, NEW k, Inserted(s, t, k)
    PROVE  /\ \A n \in 1..k : Sets(t, n) <=> Sets(s, n)
           /\ \A n \in k..(Len(s) + 1) : Sets(t, n + 1) <=> Sets(s, n)
<1>1. k \in Nat /\ Len(s) \in Nat /\ k >= 1 /\ k <= Len(s) + 1 /\ Len(t) = Len(s) + 1
  BY DEF Inserted
<1>2. ASSUME NEW n \in 1..k PROVE Sets(t, n) <=> Sets(s, n)
  <2>1. \A m \in 1..(n - 1) : t[m] = s[m]
    BY <1>1 DEF Inserted
  <2> QED BY <2>1 DEF Sets
<1>3. ASSUME NEW n \in k..(Len(s) + 1), Sets(t, n + 1) PROVE Sets(s, n)
  <2>1. PICK m \in 1..((n + 1) - 1) : Real(t[m])
    BY <1>3 DEF Sets
  <2>2. m \in 1..Len(t) /\ (m < k => m \in 1..(n - 1)) /\ (m > k => m - 1 \in 1..(n - 1))
    BY <1>1
  <2> QED BY <2>1, <2>2, InsertedReal DEF Sets
<1>4. ASSUME NEW n \in k..(Len(s) + 1), Sets(s, n) PROVE Sets(t, n + 1)
  <2>1. PICK m \in 1..(n - 1) : Real(s[m])
    BY <1>4 DEF Sets
  <2>2. CASE m < k
    <3>1. m \in 1..(k - 1) /\ m \in 1..((n + 1) - 1)
      BY <1>1, <2>2
    <3> QED BY <2>1, <3>1 DEF Sets, Inserted
  <2>3. CASE ~(m < k)
    <3>1. m \in k..Len(s) /\ m + 1 \in 1..((n + 1) - 1)
      BY <1>1, <2>3
    <3> QED BY <2>1, <3>1 DEF Sets, Inserted
  <2> QED BY <2>2, <2>3
<1> QED BY <1>2, <1>3, <1>4

LEMMA InsertedReaches ==
    ASSUME NEW s, NEW t, NEW k, Inserted(s, t, k), NEW v, NEW i
    PROVE  /\ \A n \in 1..k : Reaches(t, n, v, i) <=> Reaches(s, n, v, i)
           /\ \A n \in k..(Len(s) + 1) : Reaches(t, n + 1, v, i) <=> Reaches(s, n, v, i)
<1>1. k \in Nat /\ Len(s) \in Nat /\ k >= 1 /\ k <= Len(s) + 1 /\ Len(t) = Len(s) + 1
  BY DEF Inserted
<1>2. ASSUME NEW n \in 1..k PROVE Reaches(t, n, v, i) <=> Reaches(s, n, v, i)
  <2>1. \A m \in 1..(n - 1) : t[m] = s[m] /\ \A l \in (m + 1)..(n - 1) : t[l] = s[l]
    BY <1>1 DEF Inserted
  <2>2. Sets(t, n) <=> Sets(s, n)
    BY InsertedSets
  <2> QED BY <2>1, <2>2 DEF Reaches
<1>3. ASSUME NEW n \in k..(Len(s) + 1), Reaches(t, n + 1, v, i) PROVE Reaches(s, n, v, i)
  <2>1. CASE ~Sets(t, n + 1) /\ v = i
    BY <2>1, InsertedSets DEF Reaches
  <2>2. ASSUME NEW m \in 1..((n + 1) - 1), Real(t[m]), t[m].rd = v,
               \A l \in (m + 1)..((n + 1) - 1) : ~Real(t[l])
        PROVE  Reaches(s, n, v, i)
    <3>1. m \in 1..Len(t)
      BY <1>1
    <3>2. CASE m < k /\ m \in 1..(k - 1) /\ t[m] = s[m]
      <4>1. m \in 1..(n - 1)
        BY <1>1, <3>2
      <4>2. ASSUME NEW l \in (m + 1)..(n - 1) PROVE ~Real(s[l])
        <5>1. CASE l < k
          <6>1. l \in 1..(k - 1) /\ l \in (m + 1)..((n + 1) - 1)
            BY <1>1, <5>1
          <6> QED BY <2>2, <6>1 DEF Inserted
        <5>2. CASE ~(l < k)
          <6>1. l \in k..Len(s) /\ l + 1 \in (m + 1)..((n + 1) - 1)
            BY <1>1, <5>2
          <6> QED BY <2>2, <6>1 DEF Inserted
        <5> QED BY <5>1, <5>2
      <4> QED BY <2>2, <3>2, <4>1, <4>2 DEF Reaches
    <3>3. CASE m > k /\ m - 1 \in k..Len(s) /\ t[m] = s[m - 1]
      <4>1. m - 1 \in 1..(n - 1)
        BY <1>1, <3>3
      <4>2. ASSUME NEW l \in ((m - 1) + 1)..(n - 1) PROVE ~Real(s[l])
        <5>1. l \in k..Len(s) /\ l + 1 \in (m + 1)..((n + 1) - 1)
          BY <1>1, <3>3
        <5> QED BY <2>2, <5>1 DEF Inserted
      <4> QED BY <2>2, <3>3, <4>1, <4>2 DEF Reaches
    <3> QED BY <2>2, <3>1, <3>2, <3>3, InsertedReal
  <2> QED BY <1>3, <2>1, <2>2 DEF Reaches
<1>4. ASSUME NEW n \in k..(Len(s) + 1), Reaches(s, n, v, i) PROVE Reaches(t, n + 1, v, i)
  <2>1. CASE ~Sets(s, n) /\ v = i
    BY <2>1, InsertedSets DEF Reaches
  <2>2. ASSUME NEW m \in 1..(n - 1), Real(s[m]), s[m].rd = v,
               \A l \in (m + 1)..(n - 1) : ~Real(s[l])
        PROVE  Reaches(t, n + 1, v, i)
    <3> DEFINE e == IF m < k THEN m ELSE m + 1
    <3>1. e \in 1..((n + 1) - 1) /\ t[e] = s[m]
      <4>1. m < k => m \in 1..(k - 1) /\ m \in 1..((n + 1) - 1)
        BY <1>1
      <4>2. ~(m < k) => m \in k..Len(s) /\ m + 1 \in 1..((n + 1) - 1)
        BY <1>1
      <4> QED BY <4>1, <4>2 DEF Inserted
    <3>2. ASSUME NEW l \in (e + 1)..((n + 1) - 1) PROVE ~Real(t[l])
      <4>1. l \in 1..Len(t) /\ (l < k => l \in (m + 1)..(n - 1))
            /\ (l > k => l - 1 \in (m + 1)..(n - 1))
        BY <1>1
      <4> QED BY <2>2, <4>1, InsertedReal
    <3> HIDE DEF e
    <3> QED BY <2>2, <3>1, <3>2 DEF Reaches
  <2> QED BY <1>4, <2>1, <2>2 DEF Reaches
<1> QED BY <1>2, <1>3, <1>4

LEMMA BeforeIs ==
    ASSUME NEW S, NEW s \in Seq(S), NEW i \in S, ~Real(i)
    PROVE  LET k == IF Ends(s, "branch") THEN Len(s) ELSE Len(s) + 1
               t == Before(s, i)
           IN  t \in Seq(S) /\ Inserted(s, t, k) /\ t[k] = i
<1> DEFINE l == Len(s)
           t == Before(s, i)
<1>1. l \in Nat /\ \A n \in 1..l : s[n] \in S
  OBVIOUS
<1>2. CASE Ends(s, "branch")
  <2> DEFINE u == SubSeq(s, 1, l - 1)
             w == <<i, s[l]>>
  <2>1. l >= 1
    BY <1>1, <1>2 DEF Ends
  <2>2. t = u \o w
    BY <1>2 DEF Before
  <2>3. u \in Seq(S) /\ Len(u) = l - 1 /\ \A n \in 1..(l - 1) : u[n] = s[n]
    <3>1. \A n \in 1..(l - 1) : s[n] \in S
      BY <1>1
    <3>2. l - 1 \in Int /\ 1 \in Int
      BY <1>1
    <3> HIDE DEF l
    <3>3. /\ u \in Seq(S) /\ Len(u) = IF 1 <= l - 1 THEN l - 1 - 1 + 1 ELSE 0
          /\ \A n \in 1..(l - 1 - 1 + 1) : u[n] = s[1 + n - 1]
      BY <3>1, <3>2, SubSeqProperties
    <3>4. l - 1 - 1 + 1 = l - 1 /\ (~(1 <= l - 1) => l - 1 = 0) /\ \A n \in 1..(l - 1) : 1 + n - 1 = n
      BY <1>1, <2>1
    <3> QED BY <3>3, <3>4
  <2>4. w \in Seq(S) /\ Len(w) = 2 /\ w[1] = i /\ w[2] = s[l]
    BY <1>1, <2>1
  <2> HIDE DEF u, w, t, l
  <2>5. /\ t \in Seq(S) /\ Len(t) = (l - 1) + 2
        /\ \A n \in 1..((l - 1) + 2) : t[n] = IF n <= l - 1 THEN u[n] ELSE w[n - (l - 1)]
    <3>1. u \in Seq(S) /\ w \in Seq(S)
      BY <2>3, <2>4
    <3>2. /\ u \o w \in Seq(S) /\ Len(u \o w) = Len(u) + Len(w)
          /\ \A n \in 1..(Len(u) + Len(w)) :
               (u \o w)[n] = IF n <= Len(u) THEN u[n] ELSE w[n - Len(u)]
      BY <3>1, ConcatProperties
    <3> QED BY <2>2, <2>3, <2>4, <3>2
  <2>6. \A n \in 1..(l - 1) : t[n] = s[n]
    <3> TAKE n \in 1..(l - 1)
    <3>1. n \in 1..((l - 1) + 2) /\ n <= l - 1
      BY <1>1
    <3> QED BY <2>3, <2>5, <3>1
  <2>7. t[l] = i /\ t[l + 1] = s[l]
    <3>1. /\ l \in 1..((l - 1) + 2) /\ ~(l <= l - 1) /\ l - (l - 1) = 1
          /\ l + 1 \in 1..((l - 1) + 2) /\ ~(l + 1 <= l - 1) /\ (l + 1) - (l - 1) = 2
      BY <1>1, <2>1
    <3> QED BY <2>4, <2>5, <3>1
  <2>8. \A n \in l..l : n = l
    BY <1>1
  <2>9. Len(t) = l + 1 /\ l \in 1..(l + 1)
    BY <1>1, <2>1, <2>5
  <2>10. Inserted(s, t, l)
    BY <1>1, <2>6, <2>7, <2>8, <2>9 DEF Inserted, l
  <2> QED BY <1>2, <2>5, <2>7, <2>10 DEF t, l
<1>3. CASE ~Ends(s, "branch")
  <2>1. t = Append(s, i)
    BY <1>3 DEF Before
  <2> HIDE DEF t
  <2>2. /\ t \in Seq(S) /\ Len(t) = l + 1 /\ \A n \in 1..l : t[n] = s[n]
        /\ t[l + 1] = i
    BY <2>1, AppendProperties
  <2>3. (l + 1) - 1 = l /\ (l + 1)..l = {} /\ l + 1 \in 1..(l + 1)
    BY <1>1
  <2>4. Inserted(s, t, l + 1)
    BY <1>1, <2>2, <2>3 DEF Inserted
  <2> QED BY <1>3, <2>2, <2>4 DEF t
<1> QED BY <1>2, <1>3

\* t has the copies of s, is behind an assignment if s is, and begins with the
\* same phi.
Keeps(s, t) ==
    /\ \A w : Copies(s, w) => Copies(t, w)
    /\ (t # <<>> /\ t[1].op = "phi") <=> (s # <<>> /\ s[1].op = "phi")
    /\ (s # <<>> /\ s[1].op = "phi") => t[1] = s[1]
    /\ Sets(t, Len(t) + 1) <=> Sets(s, Len(s) + 1)

\* A copy of the version at the end of a block changes nothing in the block.
LEMMA CopyIn ==
    ASSUME NEW s \in Seq(Coded), NEW b, NEW i, NEW o, NEW K, BlockOf(s, b, i, o, K),
           kind # "global", NEW r \in Nat, NEW v \in Subscripts, v = o \/ o = Base
    PROVE  LET t == Before(s, Insn("copy", r, v))
           IN  /\ t \in Seq(Coded) /\ BlockOf(t, b, i, o, K)
               /\ Copies(t, r) /\ Keeps(s, t)
<1> DEFINE c == Insn("copy", r, v)
           t == Before(s, c)
<1>1. c \in Coded /\ ~Real(c) /\ c.op = "copy" /\ c.rd = r /\ c.rs = v
  BY DEF Insn, Coded, Real, Subscripts
<1> HIDE DEF c
<1>2. PICK k : /\ k = IF Ends(s, "branch") THEN Len(s) ELSE Len(s) + 1
               /\ t \in Seq(Coded) /\ Inserted(s, t, k) /\ t[k] = c
  <2> DEFINE k == IF Ends(s, "branch") THEN Len(s) ELSE Len(s) + 1
  <2>1. t \in Seq(Coded) /\ Inserted(s, t, k) /\ t[k] = c
    BY <1>1, BeforeIs
  <2> HIDE DEF t
  <2> WITNESS k
  <2> QED BY <2>1
<1> HIDE DEF t
<1>3. /\ Len(s) \in Nat /\ Len(t) = Len(s) + 1 /\ k \in 1..Len(t) /\ k >= Len(s)
      /\ \A n \in 1..Len(s) : InsnOf(s, b, i, o, K, n)
      /\ Reaches(s, Len(s) + 1, o, i)
  BY <1>2 DEF Inserted, BlockOf
<1>4. \A n \in 1..Len(t) : n > k => n = Len(t) /\ s[n - 1].op = "branch" /\ k = Len(s)
  BY <1>2, <1>3 DEF Ends
<1>5. \A n \in 1..Len(s) : s[n].op = "branch" => n >= k /\ n = Len(s)
  <2> SUFFICES ASSUME NEW n \in 1..Len(s), s[n].op = "branch" PROVE n >= k /\ n = Len(s)
    OBVIOUS
  <2>1. n = Len(s)
    BY <1>3 DEF InsnOf
  <2>2. Ends(s, "branch")
    BY <2>1 DEF Ends
  <2> QED BY <1>2, <2>1, <2>2
<1>6. \A n \in k..Len(t) : ~Real(t[n])
  <2> SUFFICES ASSUME NEW n \in k..Len(t) PROVE ~Real(t[n])
    OBVIOUS
  <2>1. n = k \/ n > k
    BY <1>3
  <2>2. CASE n > k
    <3>1. n \in 1..Len(t)
      BY <1>3
    <3>2. t[n] = s[n - 1] /\ s[n - 1].op = "branch"
      BY <1>2, <1>4, <2>2, <3>1, InsertedReal
    <3> QED BY <3>2 DEF Real
  <2> QED BY <1>1, <1>2, <2>1, <2>2
<1>7. /\ Reaches(t, Len(t) + 1, o, i)
      /\ Sets(t, Len(t) + 1) <=> Sets(s, Len(s) + 1)
  <2>1. Len(s) + 1 \in k..(Len(s) + 1) /\ (Len(s) + 1) + 1 = Len(t) + 1
    BY <1>3
  <2> QED BY <1>2, <1>3, <2>1, InsertedSets, InsertedReaches
<1>8. ASSUME NEW n \in 1..Len(t) PROVE InsnOf(t, b, i, o, K, n)
  <2>1. CASE n < k /\ n \in 1..(k - 1) /\ n \in 1..Len(s) /\ t[n] = s[n]
    <3>1. InsnOf(s, b, i, o, K, n) /\ n \in 1..k
      BY <1>3, <2>1
    <3>2. s[n].op # "branch"
      BY <1>3, <1>5, <2>1
    <3>3. /\ Sets(t, n) <=> Sets(s, n)
          /\ \A w : Reaches(t, n, w, i) <=> Reaches(s, n, w, i)
      BY <1>2, <3>1, InsertedSets, InsertedReaches
    <3>4. ASSUME \A m \in (n + 1)..Len(s) : ~Real(s[m]), NEW m \in (n + 1)..Len(t)
          PROVE  ~Real(t[m])
      <4>1. CASE m < k
        <5>1. m \in 1..(k - 1) /\ m \in (n + 1)..Len(s)
          BY <1>3, <2>1, <4>1
        <5> QED BY <1>2, <3>4, <5>1 DEF Inserted
      <4>2. CASE ~(m < k)
        BY <1>3, <1>6, <4>2
      <4> QED BY <4>1, <4>2
    <3> QED BY <2>1, <3>1, <3>2, <3>3, <3>4 DEF InsnOf, Valid
  <2>2. CASE n = k
    <3>1. \A m \in (n + 1)..Len(t) : ~Real(t[m])
      BY <1>3, <1>6, <2>2
    <3> QED BY <1>1, <1>2, <2>2, <3>1 DEF InsnOf
  <2>3. CASE n > k /\ n - 1 \in k..Len(s) /\ n - 1 \in 1..Len(s) /\ t[n] = s[n - 1]
    <3>1. InsnOf(s, b, i, o, K, n - 1) /\ n = Len(t) /\ s[n - 1].op = "branch"
          /\ n - 1 \in k..(Len(s) + 1) /\ (n - 1) + 1 = n
      BY <1>3, <1>4, <2>3
    <3>2. /\ Sets(t, n) <=> Sets(s, n - 1)
          /\ \A w : Reaches(t, n, w, i) <=> Reaches(s, n - 1, w, i)
      BY <1>2, <3>1, InsertedSets, InsertedReaches
    <3> QED BY <2>3, <3>1, <3>2 DEF InsnOf, Valid, Real
  <2> QED BY <1>2, <2>1, <2>2, <2>3, InsertedReal
<1>9. BlockOf(t, b, i, o, K)
  BY <1>3, <1>7, <1>8 DEF BlockOf
<1>10. Copies(t, r)
  BY <1>1, <1>2, <1>3 DEF Copies
<1>11. ASSUME NEW w, Copies(s, w) PROVE Copies(t, w)
  <2>1. PICK n \in 1..Len(s) : s[n].op = "copy" /\ s[n].rd = w
    BY <1>11 DEF Copies
  <2>2. CASE n < k
    <3>1. n \in 1..(k - 1) /\ n \in 1..Len(t)
      BY <1>3, <2>2
    <3> QED BY <1>2, <2>1, <3>1 DEF Copies, Inserted
  <2>3. CASE ~(n < k)
    <3>1. n \in k..Len(s) /\ n + 1 \in 1..Len(t)
      BY <1>3, <2>3
    <3> QED BY <1>2, <2>1, <3>1 DEF Copies, Inserted
  <2> QED BY <2>2, <2>3
<1>12. t # <<>>
  BY <1>2, <1>3
<1>13. ASSUME s # <<>>, s[1].op = "phi" PROVE t[1] = s[1]
  <2>1. 1 \in 1..Len(s)
    BY <1>13
  <2>2. k > 1
    BY <1>2, <1>3, <1>13, <2>1 DEF Ends
  <2> QED BY <1>2, <1>3, <2>1, <2>2 DEF Inserted
<1>14. ASSUME t[1].op = "phi" PROVE s # <<>> /\ s[1].op = "phi"
  <2>1. 1 \in 1..Len(t)
    BY <1>3
  <2>2. 1 # k
    BY <1>1, <1>2, <1>14
  <2>3. Inserted(s, t, k) /\ ~(1 > k)
    BY <1>2, <1>3
  <2>4. 1 < k /\ 1 \in 1..Len(s) /\ t[1] = s[1]
    BY <2>1, <2>2, <2>3, InsertedReal
  <2> QED BY <1>14, <2>4
<1>15. Keeps(s, t)
  BY <1>7, <1>11, <1>12, <1>13, <1>14 DEF Keeps
<1> QED BY <1>2, <1>9, <1>10, <1>15 DEF t, c

\* Nor does it change anything that the phi is taken out.
LEMMA PhiOut ==
    ASSUME NEW t \in Seq(Coded), NEW b, NEW i, NEW o, NEW K, BlockOf(t, b, i, o, K),
           t # <<>>, t[1].op = "phi"
    PROVE  LET s == Tail(t)
           IN  /\ s \in Seq(Coded) /\ BlockOf(s, b, i, o, K)
               /\ \A w : Copies(t, w) => Copies(s, w)
               /\ ~(s # <<>> /\ s[1].op = "phi")
               /\ Sets(s, Len(s) + 1) <=> Sets(t, Len(t) + 1)
<1> DEFINE s == Tail(t)
<1>1. /\ s \in Seq(Coded) /\ Len(s) = Len(t) - 1 /\ Len(t) \in Nat /\ Len(t) >= 1
      /\ \A n \in 1..Len(s) : s[n] = t[n + 1]
  BY HeadTailProperties
<1> HIDE DEF s
<1>2. ~Real(t[1])
  BY DEF Real
<1>3. Inserted(s, t, 1)
  BY <1>1, <1>2 DEF Inserted
<1>4. \A n \in 1..(Len(s) + 1) : /\ Sets(t, n + 1) <=> Sets(s, n)
                                 /\ \A v : Reaches(t, n + 1, v, i) <=> Reaches(s, n, v, i)
  BY <1>3, InsertedSets, InsertedReaches
<1>5. /\ \A n \in 1..Len(t) : InsnOf(t, b, i, o, K, n)
      /\ Reaches(t, Len(t) + 1, o, i)
  BY DEF BlockOf
<1>6. /\ Sets(s, Len(s) + 1) <=> Sets(t, Len(t) + 1)
      /\ Reaches(s, Len(s) + 1, o, i)
  <2>1. Len(s) + 1 \in 1..(Len(s) + 1) /\ (Len(s) + 1) + 1 = Len(t) + 1
    BY <1>1
  <2> QED BY <1>4, <1>5, <2>1
<1>7. ASSUME NEW n \in 1..Len(s) PROVE InsnOf(s, b, i, o, K, n) /\ s[n].op # "phi"
  <2>1. /\ n + 1 \in 1..Len(t) /\ n \in 1..(Len(s) + 1) /\ s[n] = t[n + 1]
        /\ n + 1 # 1 /\ (n + 1 = Len(t) => n = Len(s))
    BY <1>1
  <2>2. InsnOf(t, b, i, o, K, n + 1)
    BY <1>5, <2>1
  <2>3. /\ Sets(t, n + 1) <=> Sets(s, n)
        /\ \A v : Reaches(t, n + 1, v, i) <=> Reaches(s, n, v, i)
    BY <1>4, <2>1
  <2>4. ASSUME \A m \in ((n + 1) + 1)..Len(t) : ~Real(t[m]), NEW m \in (n + 1)..Len(s)
        PROVE  ~Real(s[m])
    <3>1. m + 1 \in ((n + 1) + 1)..Len(t) /\ m \in 1..Len(s)
      BY <1>1
    <3> QED BY <1>1, <2>4, <3>1
  <2> QED BY <2>1, <2>2, <2>3, <2>4 DEF InsnOf, Valid
<1>8. BlockOf(s, b, i, o, K)
  BY <1>1, <1>6, <1>7 DEF BlockOf
<1>9. ASSUME NEW w, Copies(t, w) PROVE Copies(s, w)
  <2>1. PICK n \in 1..Len(t) : t[n].op = "copy" /\ t[n].rd = w
    BY <1>9 DEF Copies
  <2>2. n # 1
    BY <2>1
  <2>3. n - 1 \in 1..Len(s) /\ (n - 1) + 1 = n
    BY <1>1, <2>2
  <2>4. s[n - 1] = t[n]
    BY <1>1, <2>3
  <2> QED BY <2>1, <2>3, <2>4 DEF Copies
<1>10. ~(s # <<>> /\ s[1].op = "phi")
  <2>1. s # <<>> => 1 \in 1..Len(s)
    BY <1>1
  <2> QED BY <1>7, <2>1
<1> QED BY <1>1, <1>6, <1>8, <1>9, <1>10 DEF s

LEMMA StandsUnwind ==
    ASSUME SsaInv, NEW I, NEW O, NEW K, Stands(I, O, K), Unwind
    PROVE  Stands(I, O, K)'
<1>1. PICK b \in {c \in Blocks : HasPhi(c)} :
         code' = [c \in Blocks |->
                    IF c = b THEN Tail(CopyTo(code[c], code[b][1].rd, {o \in phi_ops[b] : o[1] = c}))
                    ELSE CopyTo(code[c], code[b][1].rd, {o \in phi_ops[b] : o[1] = c})]
  BY DEF Unwind
<1> DEFINE ops(c) == {o \in phi_ops[b] : o[1] = c}
           copied(c) == CopyTo(code[c], code[b][1].rd, ops(c))
<1>2. /\ \A c \in Blocks : code'[c] = IF c = b THEN Tail(copied(c)) ELSE copied(c)
      /\ code' = [c \in Blocks |-> IF c = b THEN Tail(copied(c)) ELSE copied(c)]
  BY <1>1
<1> HIDE DEF copied
<1>3. /\ UNCHANGED <<out, kind, decl, inside, phi_ops>> /\ Live' = Live
      /\ b \in Blocks /\ HasPhi(b)
  BY <1>1 DEF Unwind, program, renaming, Live
<1>4. /\ code \in [Blocks -> Seq(Coded)]
      /\ \A c \in Blocks : BlockOf(code[c], c, I[c], O[c], K)
      /\ Transpose(out)[b] \subseteq {o[1] : o \in phi_ops[b]}
      /\ \A o \in phi_ops[b] :
           o[1] \in Blocks /\ o[2] \in Subscripts /\ (o[2] = O[o[1]] \/ O[o[1]] = Base)
  BY <1>3 DEF Stands
<1>5. code[b][1].rd = I[b] /\ I[b] \in Nat /\ kind # "global" /\ code[b] # <<>> /\ code[b][1].op = "phi"
  <2>1. code[b] # <<>> /\ code[b][1].op = "phi"
    BY <1>3 DEF HasPhi
  <2>2. 1 \in 1..Len(code[b])
    BY <1>3, <1>4, <2>1
  <2>3. InsnOf(code[b], b, I[b], O[b], K, 1)
    BY <1>3, <1>4, <2>2 DEF BlockOf
  <2> QED BY <2>1, <2>3 DEF InsnOf
<1>6. ASSUME NEW c \in Blocks
      PROVE  /\ copied(c) \in Seq(Coded) /\ BlockOf(copied(c), c, I[c], O[c], K)
             /\ ops(c) # {} => Copies(copied(c), I[b])
             /\ Keeps(code[c], copied(c))
  <2>1. code[c] \in Seq(Coded) /\ BlockOf(code[c], c, I[c], O[c], K)
    BY <1>4
  <2>2. CASE ops(c) = {}
    <3>1. copied(c) = code[c]
      BY <2>2 DEF CopyTo, copied
    <3> QED BY <2>1, <2>2, <3>1 DEF Keeps
  <2>3. CASE ops(c) # {}
    <3> DEFINE x == CHOOSE o \in ops(c) : TRUE
    <3>1. x \in ops(c)
      BY <2>3
    <3>2. copied(c) = Before(code[c], Insn("copy", I[b], x[2]))
      BY <1>5, <2>3 DEF CopyTo, copied
    <3> HIDE DEF x
    <3>3. PICK v \in Subscripts : v = x[2] /\ (v = O[c] \/ O[c] = Base)
      BY <1>4, <3>1
    <3>4. PICK r \in Nat : r = I[b]
      BY <1>5
    <3>5. copied(c) = Before(code[c], Insn("copy", r, v))
      BY <3>2, <3>3, <3>4
    <3> DEFINE s == code[c]
               d == Before(s, Insn("copy", r, v))
               i == I[c]
               o == O[c]
    <3>6. /\ s \in Seq(Coded) /\ BlockOf(s, c, i, o, K) /\ (v = o \/ o = Base)
          /\ kind # "global" /\ r \in Nat /\ v \in Subscripts
      BY <1>5, <2>1, <3>3, <3>4
    <3> HIDE DEF s, i, o
    <3>7. d \in Seq(Coded) /\ BlockOf(d, c, i, o, K) /\ Copies(d, r) /\ Keeps(s, d)
      BY <3>6, CopyIn
    <3>8. copied(c) = d
      BY <3>5 DEF s
    <3> HIDE DEF ops, d
    <3> QED BY <3>4, <3>7, <3>8 DEF s, i, o
  <2> QED BY <2>2, <2>3
<1>7. ASSUME NEW c \in Blocks
      PROVE  /\ code'[c] \in Seq(Coded) /\ BlockOf(code'[c], c, I[c], O[c], K)
             /\ ops(c) # {} => Copies(code'[c], I[b])
             /\ \A w : Copies(code[c], w) => Copies(code'[c], w)
             /\ HasPhi(c)' <=> (HasPhi(c) /\ c # b)
             /\ Sets(code'[c], Len(code'[c]) + 1) <=> Sets(code[c], Len(code[c]) + 1)
  <2> HIDE DEF ops
  <2>1. CASE c # b
    <3>1. code'[c] = copied(c)
      BY <1>2, <2>1
    <3> QED BY <1>6, <2>1, <3>1 DEF HasPhi, Keeps
  <2>2. CASE c = b
    <3>1. code'[c] = Tail(copied(c))
      BY <1>2, <2>2
    <3>2. /\ copied(c) \in Seq(Coded) /\ BlockOf(copied(c), c, I[c], O[c], K)
          /\ copied(c) # <<>> /\ copied(c)[1].op = "phi"
      BY <1>3, <1>6, <2>2 DEF HasPhi, Keeps
    <3>3. /\ code'[c] \in Seq(Coded) /\ BlockOf(code'[c], c, I[c], O[c], K)
          /\ \A w : Copies(copied(c), w) => Copies(code'[c], w)
          /\ ~(code'[c] # <<>> /\ code'[c][1].op = "phi")
          /\ Sets(code'[c], Len(code'[c]) + 1) <=> Sets(copied(c), Len(copied(c)) + 1)
      BY <3>1, <3>2, PhiOut
    <3> QED BY <1>6, <2>2, <3>3 DEF HasPhi, Keeps
  <2> QED BY <2>1, <2>2
<1>8. code' \in [Blocks -> Seq(Coded)]
  <2>1. \A c \in Blocks : (IF c = b THEN Tail(copied(c)) ELSE copied(c)) \in Seq(Coded)
    BY <1>2, <1>7
  <2> QED BY <1>2, <2>1
<1>9. ASSUME NEW c \in Blocks PROVE BlockOf(code[c], c, I[c], O[c], K)'
  <2>1. BlockOf(code'[c], c, I[c], O[c], K)
    BY <1>7
  <2> QED BY <1>3, <2>1 DEF BlockOf, InsnOf
<1>10. ASSUME NEW p \in Blocks, NEW c \in out[p], c \in Blocks, c \in K \cap inside
       PROVE  /\ p \in Live => Valid(code'[p], p, Len(code'[p]) + 1, K)
              /\ Link(p, c, I, O)'
  <2>1. /\ p \in Live => Valid(code[p], p, Len(code[p]) + 1, K)
        /\ Link(p, c, I, O)
    BY <1>10 DEF Stands
  <2>2. p \in Live => Valid(code'[p], p, Len(code'[p]) + 1, K)
    BY <1>7, <2>1 DEF Valid
  <2>3. CASE c = b
    <3>1. p \in Transpose(out)[b]
      BY <1>3, <2>3 DEF Transpose
    <3>2. ops(p) # {}
      BY <1>4, <3>1
    <3>3. Copies(code'[p], I[b])
      BY <1>7, <3>2
    <3> QED BY <2>2, <2>3, <3>3 DEF Link, Copies
  <2>4. CASE c # b
    <3>1. HasPhi(c)' <=> HasPhi(c)
      BY <1>7, <1>10, <2>4
    <3>2. Copies(code[p], I[c]) => Copies(code'[p], I[c])
      BY <1>7
    <3> QED BY <2>1, <2>2, <3>1, <3>2 DEF Link, Copies
  <2> QED BY <2>3, <2>4
<1>11. \A c \in Blocks : out[c] \subseteq Blocks
  BY DEF SsaInv, TreeInv, Connected, IsGraph
<1>12. ASSUME NEW c \in Blocks, HasPhi(c)'
       PROVE  /\ Transpose(out)[c] \subseteq {o[1] : o \in phi_ops[c]}
              /\ \A o \in phi_ops[c] :
                   o[1] \in Blocks /\ o[2] \in Subscripts /\ (o[2] = O[o[1]] \/ O[o[1]] = Base)
  BY <1>7, <1>12 DEF Stands
<1>13. /\ kind = "param" => I[entry] = 0
       /\ kind = "global" => I[entry] = Base
  BY DEF Stands
<1>14. Transpose(out)' = Transpose(out)
  BY <1>3 DEF Transpose
<1> HIDE DEF Transpose
<1>15. \A c \in Blocks : HasPhi(c)' =>
         /\ Transpose(out)'[c] \subseteq {o[1] : o \in phi_ops'[c]}
         /\ \A o \in phi_ops'[c] :
              o[1] \in Blocks /\ o[2] \in Subscripts /\ (o[2] = O[o[1]] \/ O[o[1]] = Base)
  BY <1>3, <1>12, <1>14
<1>16. \A p \in Blocks : \A c \in out'[p] : c \in K \cap inside' =>
         /\ p \in Live' => Valid(code'[p], p, Len(code'[p]) + 1, K)
         /\ Link(p, c, I, O)'
  BY <1>3, <1>10, <1>11
<1> QED BY <1>3, <1>8, <1>9, <1>13, <1>15, <1>16 DEF Stands

-----------------------------------------------------------------------------
(* The run.                                                                *)

LEMMA ReachesStep ==
    ASSUME NEW s, NEW n \in Nat \ {0}, NEW i
    PROVE  /\ Sets(s, n + 1) <=> Sets(s, n) \/ Real(s[n])
           /\ Real(s[n]) => \A v : Reaches(s, n + 1, v, i) => v = s[n].rd
           /\ ~Real(s[n]) => \A v : Reaches(s, n + 1, v, i) => Reaches(s, n, v, i)
<1>1. \A m \in 1..((n + 1) - 1) : m = n \/ m \in 1..(n - 1)
  OBVIOUS
<1>2. n \in 1..((n + 1) - 1) /\ \A m \in 1..(n - 1) : m \in 1..((n + 1) - 1)
  OBVIOUS
<1>3. Sets(s, n + 1) <=> Sets(s, n) \/ Real(s[n])
  BY <1>1, <1>2 DEF Sets
<1>4. ASSUME Real(s[n]), NEW v, Reaches(s, n + 1, v, i) PROVE v = s[n].rd
  <2>1. PICK m \in 1..((n + 1) - 1) : /\ Real(s[m]) /\ s[m].rd = v
                                      /\ \A k \in (m + 1)..((n + 1) - 1) : ~Real(s[k])
    BY <1>3, <1>4 DEF Reaches
  <2>2. m = n
    <3>1. m # n => n \in (m + 1)..((n + 1) - 1)
      OBVIOUS
    <3> QED BY <1>4, <2>1, <3>1
  <2> QED BY <2>1, <2>2
<1>5. ASSUME ~Real(s[n]), NEW v, Reaches(s, n + 1, v, i) PROVE Reaches(s, n, v, i)
  <2>1. CASE ~Sets(s, n + 1) /\ v = i
    BY <1>3, <2>1 DEF Reaches
  <2>2. ASSUME NEW m \in 1..((n + 1) - 1), Real(s[m]), s[m].rd = v,
               \A k \in (m + 1)..((n + 1) - 1) : ~Real(s[k])
        PROVE  Reaches(s, n, v, i)
    <3>1. m \in 1..(n - 1) /\ \A k \in (m + 1)..(n - 1) : k \in (m + 1)..((n + 1) - 1)
      BY <1>1, <1>5, <2>2
    <3> QED BY <2>2, <3>1 DEF Reaches
  <2> QED BY <1>5, <2>1, <2>2 DEF Reaches
<1> QED BY <1>3, <1>4, <1>5

\* Where no assignment follows, the version of the end is already there.
LEMMA ReachesBack ==
    ASSUME NEW s, NEW l \in Nat, NEW n \in 1..l, \A k \in n..l : ~Real(s[k]),
           NEW v, NEW i, Reaches(s, l + 1, v, i)
    PROVE  Reaches(s, n, v, i)
<1>1. CASE ~Sets(s, l + 1) /\ v = i
  <2>1. \A m \in 1..(n - 1) : m \in 1..((l + 1) - 1)
    OBVIOUS
  <2> QED BY <1>1, <2>1 DEF Reaches, Sets
<1>2. ASSUME NEW m \in 1..((l + 1) - 1), Real(s[m]), s[m].rd = v,
             \A k \in (m + 1)..((l + 1) - 1) : ~Real(s[k])
      PROVE  Reaches(s, n, v, i)
  <2>1. m \in n..l \/ m \in 1..(n - 1)
    OBVIOUS
  <2>2. \A k \in (m + 1)..(n - 1) : k \in (m + 1)..((l + 1) - 1)
    OBVIOUS
  <2> QED BY <1>2, <2>1, <2>2 DEF Reaches
<1> QED BY <1>1, <1>2 DEF Reaches

\* Where the version is known to be right, the one that reaches the next
\* instruction holds the value, and so does every copy that was made.
Holding(I, K) ==
    /\ \A v : Reaches(code[at], ip, v, I[at]) => v \in holders
    /\ \A m \in 1..(ip - 1) : code[at][m].op = "copy" => code[at][m].rd \in holders
RunOf(I, K) ==
    /\ at \in Blocks /\ ip \in 1..(Len(code[at]) + 1)
    /\ \A b \in Blocks : ~HasPhi(b)
    /\ defined => at \in Live
    /\ kind # "global" => Base \notin holders
    /\ defined /\ Valid(code[at], at, ip, K) => Holding(I, K)
RunInv == \E I, O, K : Stands(I, O, K) /\ RunOf(I, K)

LEMMA RunStart ==
    ASSUME KindInv, NEW I, NEW O, NEW K, Stands(I, O, K), StartRun, at = entry, ip = 1
    PROVE  RunInv'
<1>1. /\ UNCHANGED <<out, kind, decl, inside, code, phi_ops, at, ip>> /\ Live' = Live
      /\ defined' = (kind \in {"param", "global"})
      /\ holders' = IF kind = "param" THEN {0} ELSE IF kind = "global" THEN {Base} ELSE {}
      /\ \A b \in Blocks : ~HasPhi(b)
  BY DEF StartRun, program, renaming, Live
<1>2. Stands(I, O, K)'
  BY <1>1 DEF Stands, BlockOf, InsnOf, HasPhi, Link
<1>3. entry \in Blocks /\ Len(code[entry]) \in Nat
  BY BlocksFinite DEF Stands, BlockOf
<1>4. RunOf(I, K)'
  <2>1. at' \in Blocks /\ ip' \in 1..(Len(code'[at']) + 1)
    BY <1>1, <1>3
  <2>2. \A b \in Blocks : ~HasPhi(b)'
    BY <1>1 DEF HasPhi
  <2>3. defined' => at' \in Live'
    BY <1>1, <1>3 DEF KindInv, Live
  <2>4. kind' # "global" => Base \notin holders'
    BY <1>1 DEF Base
  <2>5. defined' => Holding(I, K)'
    <3> SUFFICES ASSUME defined' PROVE Holding(I, K)'
      OBVIOUS
    <3>1. I[entry] \in holders'
      BY <1>1 DEF Stands
    <3>2. 1..(1 - 1) = {}
      OBVIOUS
    <3>3. \A v : Reaches(code[entry], 1, v, I[entry]) => v = I[entry]
      BY <3>2 DEF Reaches
    <3> QED BY <1>1, <3>1, <3>2, <3>3 DEF Holding
  <2> QED BY <2>1, <2>2, <2>3, <2>4, <2>5 DEF RunOf
<1> QED BY <1>2, <1>4 DEF RunInv

LEMMA RunExecute ==
    ASSUME NEW I, NEW O, NEW K, Stands(I, O, K), RunOf(I, K), Execute
    PROVE  RunOf(I, K)'
<1> DEFINE s == code[at]
           x == s[ip]
<1>1. /\ UNCHANGED <<out, kind, decl, inside, code, at>> /\ Live' = Live
      /\ ip <= Len(s)
      /\ defined' = IF x.op = "allocat" THEN FALSE
                    ELSE defined \/ (x.op = "insn" /\ x.rd # NoVar)
      /\ holders' = IF x.rd = NoVar THEN holders
                    ELSE IF x.op = "allocat" THEN {}
                    ELSE IF x.op = "insn" THEN {x.rd}
                    ELSE IF x.rs \in holders THEN holders \cup {x.rd}
                    ELSE holders \ {x.rd}
      /\ ip' = IF x.op = "branch" THEN Len(s) + 1 ELSE ip + 1
  BY DEF Execute, program, Live
<1>2. /\ at \in Blocks /\ s \in Seq(Coded) /\ Len(s) \in Nat
      /\ ip \in 1..Len(s) /\ ip \in Nat \ {0}
      /\ \A n \in 1..Len(s) : InsnOf(s, at, I[at], O[at], K, n)
      /\ Reaches(s, Len(s) + 1, O[at], I[at])
      /\ ~HasPhi(at)
  <2>1. at \in Blocks /\ ip \in 1..(Len(s) + 1) /\ ~HasPhi(at)
    BY DEF RunOf
  <2>2. s \in Seq(Coded) /\ BlockOf(s, at, I[at], O[at], K)
    BY <2>1 DEF Stands
  <2> QED BY <1>1, <2>1, <2>2 DEF BlockOf
<1>3. InsnOf(s, at, I[at], O[at], K, ip)
  BY <1>2
<1>4. x.op \in {"insn", "allocat", "branch", "copy"}
  <2>1. x \in Coded
    BY <1>2
  <2>2. x.op # "phi"
    <3>1. s # <<>>
      BY <1>2
    <3> QED BY <1>2, <1>3, <3>1 DEF InsnOf, HasPhi
  <2> HIDE DEF x
  <2> QED BY <2>1, <2>2 DEF Coded
<1>5. ip' = ip + 1 /\ ip' \in 1..(Len(code'[at']) + 1)
  BY <1>1, <1>2, <1>3 DEF InsnOf
<1>6. /\ defined => at \in Live
      /\ kind # "global" => Base \notin holders
      /\ defined /\ Valid(s, at, ip, K) => Holding(I, K)
  BY DEF RunOf
<1>7. defined' => at' \in Live'
  BY <1>1, <1>3, <1>6 DEF InsnOf
<1>8. kind' # "global" => Base \notin holders'
  <2> SUFFICES ASSUME kind # "global" PROVE Base \notin holders'
    BY <1>1
  <2>1. x.op \in {"insn", "copy"} /\ x.rd # NoVar => x.rd \in Nat
    BY <1>3 DEF InsnOf, Real
  <2>2. Base \notin Nat
    BY DEF Base
  <2>3. x.op = "branch" => x.rd = NoVar
    BY <1>3 DEF InsnOf
  <2> QED BY <1>1, <1>4, <1>6, <2>1, <2>2, <2>3
<1> HIDE DEF x, s
<1>9. /\ Sets(s, ip + 1) <=> Sets(s, ip) \/ Real(x)
      /\ Real(x) => \A v : Reaches(s, ip + 1, v, I[at]) => v = x.rd
      /\ ~Real(x) => \A v : Reaches(s, ip + 1, v, I[at]) => Reaches(s, ip, v, I[at])
  BY <1>2, ReachesStep DEF x
<1>10. \A m \in 1..((ip + 1) - 1) : m = ip \/ m \in 1..(ip - 1)
  BY <1>2
<1>11. ASSUME defined', Valid(s, at, ip + 1, K)
       PROVE  /\ \A v : Reaches(s, ip + 1, v, I[at]) => v \in holders'
              /\ \A m \in 1..((ip + 1) - 1) : s[m].op = "copy" => s[m].rd \in holders'
  <2>1. CASE x.op = "insn" /\ x.rd # NoVar
    <3>1. Real(x) /\ holders' = {x.rd}
      BY <1>1, <2>1 DEF Real
    <3>2. ASSUME NEW m \in 1..(ip - 1), s[m].op = "copy" PROVE FALSE
      <4>1. m \in 1..Len(s) /\ ip \in (m + 1)..Len(s)
        BY <1>2
      <4>2. ~Real(s[ip])
        BY <1>2, <3>2, <4>1 DEF InsnOf
      <4> QED BY <3>1, <4>2 DEF x
    <3>3. s[ip].op # "copy"
      BY <2>1 DEF x
    <3> QED BY <1>9, <1>10, <3>1, <3>2, <3>3
  <2>2. CASE x.op \in {"insn", "branch"} /\ x.rd = NoVar
    <3>1. ~Real(x) /\ holders' = holders /\ defined
      BY <1>1, <1>11, <2>2 DEF Real
    <3>2. Valid(s, at, ip, K)
      BY <1>9, <1>11, <3>1 DEF Valid
    <3>3. s[ip].op # "copy"
      BY <2>2 DEF x
    <3> QED BY <1>6, <1>9, <1>10, <3>1, <3>2, <3>3 DEF Holding, s
  <2>3. CASE x.op = "copy"
    <3>1. ~Real(x) /\ defined
      BY <1>1, <1>11, <2>3 DEF Real
    <3>2. Valid(s, at, ip, K)
      BY <1>9, <1>11, <3>1 DEF Valid
    <3>3. Holding(I, K)
      BY <1>6, <3>1, <3>2
    <3>4. /\ kind # "global" /\ x.rd \in Nat /\ (x.rs = O[at] \/ O[at] = Base)
          /\ \A m \in (ip + 1)..Len(s) : ~Real(s[m])
      BY <1>3, <2>3 DEF InsnOf, x
    <3>5. \A m \in ip..Len(s) : ~Real(s[m])
      <4>1. \A m \in ip..Len(s) : m = ip \/ m \in (ip + 1)..Len(s)
        BY <1>2
      <4> QED BY <3>1, <3>4, <4>1 DEF x
    <3>6. O[at] \in holders
      <4>1. Reaches(s, ip, O[at], I[at])
        BY <1>2, <3>5, ReachesBack
      <4> QED BY <3>3, <4>1 DEF Holding, s
    <3>7. x.rs \in holders
      BY <1>6, <3>4, <3>6
    <3>8. holders' = holders \cup {x.rd}
      BY <1>1, <2>3, <3>4, <3>7 DEF NoVar
    <3>9. \A m \in 1..(ip - 1) : s[m].op = "copy" => s[m].rd \in holders
      BY <3>3 DEF Holding, s
    <3>10. \A v : Reaches(s, ip, v, I[at]) => v \in holders
      BY <3>3 DEF Holding, s
    <3> QED BY <1>9, <1>10, <3>1, <3>8, <3>9, <3>10 DEF x
  <2>4. x.op = "branch" => x.rd = NoVar
    BY <1>3 DEF InsnOf, x
  <2>5. x.op # "allocat"
    BY <1>1, <1>11
  <2> QED BY <1>4, <2>1, <2>2, <2>3, <2>4, <2>5
<1>12. defined' /\ Valid(code'[at'], at', ip', K) => Holding(I, K)'
  <2> SUFFICES ASSUME defined', Valid(s, at, ip + 1, K) PROVE Holding(I, K)'
    BY <1>1, <1>5 DEF s
  <2> QED BY <1>1, <1>5, <1>11 DEF Holding, s
<1>13. \A b \in Blocks : ~HasPhi(b)'
  BY <1>1 DEF RunOf, HasPhi
<1> QED BY <1>1, <1>2, <1>5, <1>7, <1>8, <1>12, <1>13 DEF RunOf

LEMMA RunJump ==
    ASSUME SsaInv, NEW I, NEW O, NEW K, Stands(I, O, K), RunOf(I, K), Jump
    PROVE  RunOf(I, K)'
<1>1. PICK b \in out[at] : /\ at' = b /\ defined' = (defined /\ b \in inside)
                           /\ holders' = IF b \in inside THEN holders ELSE {}
  BY DEF Jump
<1>2. /\ UNCHANGED <<out, kind, decl, inside, code>> /\ Live' = Live
      /\ ip' = 1 /\ ip > Len(code[at])
  BY DEF Jump, program, Live
<1>3. at \in Blocks /\ b \in Blocks
  <2>1. at \in Blocks
    BY DEF RunOf
  <2> QED BY <2>1 DEF SsaInv, TreeInv, Connected, IsGraph
<1>4. /\ Len(code[b]) \in Nat /\ Len(code[at]) \in Nat /\ ip = Len(code[at]) + 1
      /\ Reaches(code[at], Len(code[at]) + 1, O[at], I[at])
  <2>1. BlockOf(code[b], b, I[b], O[b], K) /\ BlockOf(code[at], at, I[at], O[at], K)
    BY <1>3 DEF Stands
  <2>2. ip \in 1..(Len(code[at]) + 1)
    BY DEF RunOf
  <2> QED BY <1>2, <2>1, <2>2 DEF BlockOf
<1>5. 1..(1 - 1) = {}
  OBVIOUS
<1>6. ASSUME defined', Valid(code[b], b, 1, K) PROVE I[b] \in holders
  <2>1. b \in K \cap inside /\ defined /\ at \in Live
    BY <1>1, <1>5, <1>6 DEF Valid, Sets, RunOf
  <2>2. Valid(code[at], at, ip, K) /\ Link(at, b, I, O)
    BY <1>3, <1>4, <2>1 DEF Stands
  <2>3. Holding(I, K)
    BY <2>1, <2>2 DEF RunOf
  <2>4. O[at] \in holders
    BY <1>4, <2>3 DEF Holding
  <2>5. ASSUME Copies(code[at], I[b]) PROVE I[b] \in holders
    <3>1. PICK n \in 1..Len(code[at]) : code[at][n].op = "copy" /\ code[at][n].rd = I[b]
      BY <2>5 DEF Copies
    <3>2. n \in 1..(ip - 1)
      BY <1>4
    <3> QED BY <2>3, <3>1, <3>2 DEF Holding
  <2>6. ~HasPhi(b)
    BY <1>3 DEF RunOf
  <2> QED BY <2>2, <2>4, <2>5, <2>6 DEF Link
<1>7. defined' /\ Valid(code'[at'], at', ip', K) => Holding(I, K)'
  <2> SUFFICES ASSUME defined', Valid(code[b], b, 1, K) PROVE Holding(I, K)'
    BY <1>1, <1>2
  <2>1. I[b] \in holders'
    BY <1>1, <1>6
  <2>2. \A v : Reaches(code[b], 1, v, I[b]) => v = I[b]
    BY <1>5 DEF Reaches
  <2> QED BY <1>1, <1>2, <1>5, <2>1, <2>2 DEF Holding
<1>8. at' \in Blocks /\ ip' \in 1..(Len(code'[at']) + 1)
  BY <1>1, <1>2, <1>3, <1>4
<1>9. defined' => at' \in Live'
  BY <1>1, <1>2 DEF Live
<1>10. kind' # "global" => Base \notin holders'
  BY <1>1, <1>2 DEF RunOf
<1>11. \A c \in Blocks : ~HasPhi(c)'
  BY <1>2 DEF RunOf, HasPhi
<1> QED BY <1>7, <1>8, <1>9, <1>10, <1>11 DEF RunOf

-----------------------------------------------------------------------------
(* The inductive invariant, in every pass.                                 *)

UsesInv ==
    /\ KindInv
    /\ pc \in {"globals", "phis", "rename", "unwind", "run"}
    /\ pc # "run" => at = entry /\ ip = 1
    /\ pc \in {"globals", "phis", "rename"} => ShapeInv
    /\ pc = "globals" => solved = {} /\ \A b \in Blocks : ~HasPhi(b)
    /\ pc \in {"phis", "rename"} => PlaceInv
    /\ pc = "rename" => solved = worklist /\ (kind # "global" => OrderInv)
    /\ pc = "unwind" => \E I, O, K : Stands(I, O, K)
    /\ pc = "run" => RunInv

\* What a step leaves alone stays right.
LEMMA SameKind == KindInv /\ UNCHANGED program => KindInv'
<1> QED BY DEF KindInv, program

LEMMA SameShape ==
    ASSUME UNCHANGED <<program, code>>, ShapeInv PROVE ShapeInv'
<1>1. UNCHANGED <<out, kind, decl, inside, code>>
  BY DEF program
<1> QED BY <1>1 DEF ShapeInv, ShapeOf, Met, Live

LEMMA SamePlace ==
    ASSUME UNCHANGED <<program, code, worklist, solved>>, PlaceInv PROVE PlaceInv'
<1>1. UNCHANGED <<df, kind, decl, scope, code, worklist, solved>>
  BY DEF program
<1> QED BY <1>1 DEF PlaceInv, Defined, Findable, HasPhi

LEMMA SameOrder ==
    ASSUME UNCHANGED <<program, code, visited, phi_ops>>, OrderInv PROVE OrderInv'
<1>1. UNCHANGED <<out, kind, code, visited, phi_ops>>
  BY DEF program
<1>2. Basis' = Basis /\ \A b : Up(b)' = Up(b) /\ Versions(b)' = Versions(b)
  BY <1>1 DEF Up, Versions, Basis
<1>3. \A b : Above(b)' = Above(b)
  BY <1>2 DEF Above
<1>4. \A b, n : Named(b, n)' = Named(b, n)
  BY <1>1, <1>3 DEF Named
<1>5. \A b : AtEnd(b)' = AtEnd(b)
  BY <1>1, <1>4 DEF AtEnd
<1> QED BY <1>1, <1>3, <1>4, <1>5 DEF OrderInv, OrderOf, OpOf

LEMMA SameStands ==
    ASSUME UNCHANGED <<program, code, phi_ops>>, NEW I, NEW O, NEW K, Stands(I, O, K)
    PROVE  Stands(I, O, K)'
<1>1. UNCHANGED <<out, kind, decl, inside, code, phi_ops>> /\ Live' = Live
  BY DEF program, Live
<1> QED BY <1>1 DEF Stands, BlockOf, InsnOf, HasPhi, Link

LEMMA UsesGlobals == ASSUME SsaInv, UsesInv, SolveGlobals PROVE UsesInv'
<1>1. /\ pc = "globals" /\ pc' = "phis" /\ UNCHANGED <<program, code, at, ip>>
      /\ KindInv /\ ShapeInv /\ ClearInv /\ solved = {} /\ \A b \in Blocks : ~HasPhi(b)
  BY DEF SolveGlobals, running, UsesInv, SsaInv
<1>2. PlaceInv'
  BY <1>1, PlaceSolve
<1> QED BY <1>1, <1>2, SameKind, SameShape DEF UsesInv

LEMMA UsesPhis == ASSUME SsaInv, UsesInv, InsertPhis PROVE UsesInv'
<1>1. /\ pc = "phis" /\ pc' = "phis" /\ UNCHANGED <<program, at, ip>>
      /\ KindInv /\ ShapeInv /\ ClearInv /\ PlaceInv
  BY DEF InsertPhis, running, UsesInv, SsaInv
<1>2. ShapeInv' /\ PlaceInv'
  BY <1>1, PlaceInsert
<1> QED BY <1>1, <1>2, SameKind DEF UsesInv

LEMMA UsesRename == ASSUME SsaInv, UsesInv, StartRenaming PROVE UsesInv'
<1>1. /\ pc = "phis" /\ pc' = "rename" /\ worklist = solved
      /\ UNCHANGED <<program, code, worklist, solved, visited, phi_ops, at, ip>>
      /\ KindInv /\ ShapeInv /\ ClearInv /\ PlaceInv
  BY DEF StartRenaming, running, UsesInv, SsaInv
<1>2. OrderInv'
  BY <1>1 DEF ClearInv, OrderInv
<1> QED BY <1>1, <1>2, SameKind, SameShape, SamePlace DEF UsesInv

LEMMA UsesEnter == ASSUME SsaInv, UsesInv, EnterFunction \/ EnterChild PROVE UsesInv'
<1>1. /\ pc = "rename" /\ KindInv /\ ShapeInv /\ PlaceInv /\ solved = worklist
      /\ kind # "global" => OrderInv
      /\ TreeInv /\ WalkInv /\ VersInv /\ StackInv /\ OpInv
  BY DEF EnterFunction, EnterChild, UsesInv, SsaInv, RenameInv
<1>2. PICK b \in Blocks \ visited : Enter(b) /\ Below(b)
  BY <1>1, BelowIs
<1>3. Entered(b)
  BY <1>1, <1>2, EnterIs
<1>4. pc' = pc /\ UNCHANGED <<program, worklist, solved, at, ip>>
  BY <1>2 DEF Enter, running
<1>5. ShapeInv' /\ PlaceInv'
  <2>1. Alike(code, code')
    BY <1>1, <1>2, <1>3, EnterAlike
  <2>2. \A c \in Blocks : HasPhi(c)' <=> HasPhi(c)
    BY <1>3 DEF Entered
  <2> QED BY <1>1, <1>4, <2>1, <2>2, AlikeKeeps
<1>6. kind' # "global" => OrderInv'
  <2>1. kind' = kind
    BY <1>4 DEF program
  <2> QED BY <1>1, <1>2, <1>3, <2>1, EnterOrder
<1> QED BY <1>1, <1>4, <1>5, <1>6, SameKind DEF UsesInv

LEMMA UsesLeave == ASSUME SsaInv, UsesInv, LeaveBlock PROVE UsesInv'
<1>1. /\ pc = "rename" /\ KindInv /\ ShapeInv /\ PlaceInv /\ solved = worklist
      /\ kind # "global" => OrderInv
      /\ UNCHANGED <<program, code, pc, worklist, solved, visited, phi_ops, at, ip>>
      /\ kind' = kind
  BY DEF LeaveBlock, running, program, UsesInv
<1> QED BY <1>1, SameKind, SameShape, SamePlace, SameOrder DEF UsesInv

LEMMA UsesStart == ASSUME SsaInv, UsesInv, StartUnwinding PROVE UsesInv'
<1>1. /\ pc = "rename" /\ pc' = "unwind" /\ Renaming
      /\ UNCHANGED <<program, code, phi_ops, at, ip>>
      /\ KindInv /\ ShapeInv /\ PlaceInv /\ solved = worklist
      /\ kind # "global" => OrderInv
  BY DEF StartUnwinding, Renaming, renaming, running, UsesInv
<1>2. PICK I, O, K : Stands(I, O, K)
  BY <1>1, StandsStart DEF Done
<1>3. Stands(I, O, K)'
  BY <1>1, <1>2, SameStands
<1> QED BY <1>1, <1>3, SameKind DEF UsesInv

LEMMA UsesUnwind == ASSUME SsaInv, UsesInv, Unwind PROVE UsesInv'
<1>1. /\ pc = "unwind" /\ pc' = "unwind" /\ UNCHANGED <<program, at, ip>> /\ KindInv
  BY DEF Unwind, running, UsesInv
<1>2. PICK I, O, K : Stands(I, O, K)
  BY <1>1 DEF UsesInv
<1>3. Stands(I, O, K)'
  BY <1>2, StandsUnwind
<1> QED BY <1>1, <1>3, SameKind DEF UsesInv

LEMMA UsesRun == ASSUME SsaInv, UsesInv, StartRun \/ Execute \/ Jump PROVE UsesInv'
<1>1. /\ KindInv /\ UNCHANGED <<program, code, phi_ops>> /\ pc' = "run"
  BY DEF StartRun, Execute, Jump, renaming, UsesInv
<1>2. CASE StartRun
  <2>1. at = entry /\ ip = 1 /\ \E I, O, K : Stands(I, O, K)
    BY <1>2 DEF StartRun, UsesInv
  <2>2. PICK I, O, K : Stands(I, O, K)
    BY <2>1
  <2>3. RunInv'
    BY <1>1, <1>2, <2>1, <2>2, RunStart
  <2> QED BY <1>1, <2>3, SameKind DEF UsesInv
<1>3. CASE Execute \/ Jump
  <2>1. RunInv
    BY <1>3 DEF Execute, Jump, UsesInv
  <2>2. PICK I, O, K : Stands(I, O, K) /\ RunOf(I, K)
    BY <2>1 DEF RunInv
  <2>3. RunOf(I, K)'
    BY <1>3, <2>2, RunExecute, RunJump
  <2>4. Stands(I, O, K)'
    BY <1>1, <2>2, SameStands
  <2>5. RunInv'
    BY <2>3, <2>4 DEF RunInv
  <2> QED BY <1>1, <2>5, SameKind DEF UsesInv
<1> QED BY <1>2, <1>3

LEMMA UsesSame == ASSUME UsesInv, UNCHANGED vars PROVE UsesInv'
<1>1. /\ UNCHANGED <<program, code, pc, worklist, solved, visited, phi_ops, at, ip, defined, holders>>
      /\ kind' = kind
  BY DEF vars, program, renaming, running
<1>2. \A b : HasPhi(b)' <=> HasPhi(b)
  BY <1>1 DEF HasPhi
<1>3. ASSUME RunInv PROVE RunInv'
  <2>1. PICK I, O, K : Stands(I, O, K) /\ RunOf(I, K)
    BY <1>3 DEF RunInv
  <2>2. Stands(I, O, K)'
    BY <1>1, <2>1, SameStands
  <2>3. Live' = Live
    BY <1>1 DEF Live, program
  <2>4. RunOf(I, K)'
    BY <1>1, <1>2, <2>1, <2>3 DEF RunOf, Holding
  <2> QED BY <2>2, <2>4 DEF RunInv
<1>4. ASSUME \E I, O, K : Stands(I, O, K) PROVE (\E I, O, K : Stands(I, O, K))'
  <2>1. PICK I, O, K : Stands(I, O, K)
    BY <1>4
  <2>2. Stands(I, O, K)'
    BY <1>1, <2>1, SameStands
  <2> QED BY <2>2
<1> QED BY <1>1, <1>2, <1>3, <1>4, SameKind, SameShape, SamePlace, SameOrder DEF UsesInv

LEMMA UsesNext == SsaInv /\ UsesInv /\ [Next]_vars => UsesInv'
<1> SUFFICES ASSUME SsaInv, UsesInv, [Next]_vars PROVE UsesInv'
  OBVIOUS
<1>1. CASE SolveGlobals
  BY <1>1, UsesGlobals
<1>2. CASE InsertPhis
  BY <1>2, UsesPhis
<1>3. CASE StartRenaming
  BY <1>3, UsesRename
<1>4. CASE EnterFunction \/ EnterChild
  BY <1>4, UsesEnter
<1>5. CASE LeaveBlock
  BY <1>5, UsesLeave
<1>6. CASE StartUnwinding
  BY <1>6, UsesStart
<1>7. CASE Unwind
  BY <1>7, UsesUnwind
<1>8. CASE StartRun \/ Execute \/ Jump
  BY <1>8, UsesRun
<1>9. CASE Return \/ UNCHANGED vars
  BY <1>9, UsesSame DEF Return
<1> QED BY <1>1, <1>2, <1>3, <1>4, <1>5, <1>6, <1>7, <1>8, <1>9 DEF Next

LEMMA UsesStarts == Reopened = FALSE => (Init => UsesInv)
<1> SUFFICES ASSUME Reopened = FALSE, Init PROVE UsesInv
  OBVIOUS
<1>1. pc = "globals" /\ solved = {} /\ at = entry /\ ip = 1
  BY DEF Init
<1> QED BY <1>1, UsesInit DEF UsesInv

\* A version that is read reaches the instruction, and so holds the value.
LEMMA UsesFollow == UsesInv => UsesRight
<1> SUFFICES ASSUME UsesInv, pc = "run", ip <= Len(code[at]), code[at][ip].op # "copy",
                    code[at][ip].rs # NoVar, defined
             PROVE  code[at][ip].rs \in holders
  BY DEF UsesRight
<1>1. RunInv
  BY DEF UsesInv
<1>2. PICK I, O, K : Stands(I, O, K) /\ RunOf(I, K)
  BY <1>1 DEF RunInv
<1> DEFINE s == code[at]
<1>3. at \in Blocks /\ ip \in 1..(Len(s) + 1) /\ ~HasPhi(at)
  BY <1>2 DEF RunOf
<1>4. BlockOf(s, at, I[at], O[at], K)
  BY <1>2, <1>3 DEF Stands
<1>5. Len(s) \in Nat /\ ip \in 1..Len(s) /\ s # <<>>
  BY <1>3, <1>4 DEF BlockOf
<1>6. InsnOf(s, at, I[at], O[at], K, ip)
  BY <1>4, <1>5 DEF BlockOf
<1>7. s[ip].op # "phi"
  BY <1>3, <1>5, <1>6 DEF InsnOf, HasPhi
<1>8. Valid(s, at, ip, K) /\ Reaches(s, ip, s[ip].rs, I[at])
  BY <1>6, <1>7 DEF InsnOf
<1>9. Holding(I, K)
  BY <1>2, <1>8 DEF RunOf
<1> QED BY <1>8, <1>9 DEF Holding

\* At every use that is executed, the version rename_var() put there holds the
\* value the variable has in the C program, on every path through every graph:
\* solve_phi_insertion() placed every phi that is needed, and the copies
\* append_unwound_phi_insn() made of them arrive before the edge and destroy no
\* version that is still read.  Where read_code_block() lets a second block
\* statement overwrite bb->scope of the first, a phi is left out and the
\* theorem does not hold.
THEOREM UsesHold == Reopened = FALSE => (Spec => []UsesRight)
<1> SUFFICES ASSUME Reopened = FALSE PROVE Spec => []UsesRight
  OBVIOUS
<1>1. Init => UsesInv
  BY UsesStarts
<1>2. SsaInv /\ UsesInv /\ [Next]_vars => UsesInv'
  BY UsesNext
<1>3. UsesInv => UsesRight
  BY UsesFollow
<1> QED BY <1>1, <1>2, <1>3, RenamingInvariance, PTL DEF Spec
=============================================================================
