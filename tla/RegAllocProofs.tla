-------------------------- MODULE RegAllocProofs --------------------------
(***************************************************************************)
(* Proofs about the register allocator: RegAlloc's inductive invariant     *)
(* IndInv holds for every number of registers and variables, and with it   *)
(* the properties the runs check.  One lemma per helper of reg-alloc.c     *)
(* says that it preserves Good, one per action that it preserves IndInv.   *)
(***************************************************************************)
EXTENDS RegAlloc, TLAPS, WellFoundedInduction, NaturalsInduction

LEMMA RegNat == Reg \subseteq Nat /\ NoReg \notin Reg /\ 0 \in Reg
  BY RegAssumption DEF Reg, NoReg

LEMMA NoneNotVar == None \notin Var /\ Junk \notin Var /\ RetVal \notin Var
  BY VarAssumption

\* The smallest member of a set of registers.
LEMMA LeastIn ==
    ASSUME NEW R, R \subseteq Reg, R # {}
    PROVE  Least(R) \in R /\ \A i \in R : Least(R) <= i
<1>1. R \subseteq Nat
  BY RegNat
<1>2. PICK x \in R : \A y \in R : ~(<<y, x>> \in OpToRel(<, Nat))
  BY <1>1, NatLessThanWellFounded, WFMin
<1>3. ASSUME NEW y \in R PROVE x <= y
  <2>1. <<y, x>> \in Nat \X Nat
    BY <1>1
  <2>2. ~(y < x)
    BY <1>2, <2>1 DEF OpToRel
  <2>. QED
    BY <1>1, <2>2
<1>. QED
  BY <1>3 DEF Least

\* The greatest one, found as the smallest distance from REG_CNT.
LEMMA GreatestIn ==
    ASSUME NEW R, R \subseteq Reg, R # {}
    PROVE  Greatest(R) \in R
<1>. DEFINE D == {REG_CNT - i : i \in R}
<1>1. D \subseteq Nat /\ D # {} /\ R \subseteq Int
  <2>1. \A i \in Reg : i \in Int /\ REG_CNT - i \in Nat
    BY RegAssumption DEF Reg
  <2>. QED
    BY <2>1
<1>2. PICK x \in D : \A y \in D : ~(<<y, x>> \in OpToRel(<, Nat))
  BY <1>1, NatLessThanWellFounded, WFMin
<1>3. PICK m \in R : x = REG_CNT - m
  OBVIOUS
<1>4. ASSUME NEW j \in R PROVE j <= m
  <2>1. REG_CNT - j \in D /\ <<REG_CNT - j, x>> \in Nat \X Nat
    BY <1>1
  <2>2. ~(REG_CNT - j < x)
    BY <1>2, <2>1 DEF OpToRel
  <2>. QED
    BY <1>1, <1>3, <2>2, RegAssumption
<1>. QED
  BY <1>4 DEF Greatest

-----------------------------------------------------------------------------
(* The helpers.                                                            *)

LEMMA DropType ==
    ASSUME NEW s \in StateType, NEW R
    PROVE  /\ Drop(s, R) \in StateType
           /\ \A i \in Reg : Drop(s, R).REGS[i]
                               = IF i \in R THEN Empty ELSE s.REGS[i]
           /\ \A v \in Var : Drop(s, R).phys_reg[v]
                               = IF \E i \in R : s.REGS[i].var = v
                                   THEN NoReg ELSE s.phys_reg[v]
           /\ Drop(s, R).reg = s.reg /\ Drop(s, R).mem = s.mem
           /\ Drop(s, R).space = s.space
  BY DEF Drop, StateType, Empty

LEMMA SpillType ==
    ASSUME NEW s \in StateType, NEW R, R \subseteq Reg
    PROVE  /\ spill_var(s, R) \in StateType
           /\ \A i \in Reg : spill_var(s, R).REGS[i]
                               = IF i \in R THEN Empty ELSE s.REGS[i]
           /\ \A v \in Var : spill_var(s, R).phys_reg[v]
                               = IF \E i \in R : s.REGS[i].var = v
                                   THEN NoReg ELSE s.phys_reg[v]
           /\ spill_var(s, R).reg = s.reg
           /\ \A v \in Var :
                \/ /\ spill_var(s, R).mem[v] = s.mem[v]
                   /\ v \in spill_var(s, R).space <=> v \in s.space
                   /\ \A i \in R : s.REGS[i].var = v => ~s.REGS[i].polluted
                \/ /\ v \in spill_var(s, R).space
                   /\ \E i \in R : /\ s.REGS[i].var = v /\ s.REGS[i].polluted
                                   /\ spill_var(s, R).mem[v] = s.reg[i]
<1>. DEFINE dirty(v) == {i \in R : s.REGS[i].var = v /\ s.REGS[i].polluted}
            stored == {v \in Var : dirty(v) # {}}
            m == [v \in Var |-> IF v \in stored THEN s.reg[Greatest(dirty(v))]
                                ELSE s.mem[v]]
            n == Drop(s, R)
<1>1. \A v \in stored : Greatest(dirty(v)) \in dirty(v)
  BY GreatestIn
<1>2. m \in [Var -> Content]
  BY <1>1 DEF StateType
<1>3. spill_var(s, R) = [n EXCEPT !.space = s.space \cup stored, !.mem = m]
  BY DEF spill_var
<1>4. /\ spill_var(s, R) \in StateType
      /\ spill_var(s, R).REGS = n.REGS /\ spill_var(s, R).reg = n.reg
      /\ spill_var(s, R).phys_reg = n.phys_reg
      /\ spill_var(s, R).space = s.space \cup stored
      /\ spill_var(s, R).mem = m
  <2>. HIDE DEF n, m, stored
  <2>1. n \in StateType
    BY DropType DEF n
  <2>2. stored \subseteq Var /\ s.space \subseteq Var
    BY DEF stored, StateType
  <2>. QED
    BY <1>2, <1>3, <2>1, <2>2 DEF StateType
<1>5. ASSUME NEW v \in Var
      PROVE  \/ /\ m[v] = s.mem[v]
                /\ v \in s.space \cup stored <=> v \in s.space
                /\ \A i \in R : s.REGS[i].var = v => ~s.REGS[i].polluted
             \/ /\ v \in s.space \cup stored
                /\ \E i \in R : /\ s.REGS[i].var = v /\ s.REGS[i].polluted
                                /\ m[v] = s.reg[i]
  BY <1>1
<1>6. /\ \A i \in Reg : n.REGS[i] = IF i \in R THEN Empty ELSE s.REGS[i]
      /\ \A v \in Var : n.phys_reg[v] = IF \E i \in R : s.REGS[i].var = v
                                           THEN NoReg ELSE s.phys_reg[v]
      /\ n.reg = s.reg
  BY DropType
<1>. HIDE DEF dirty, stored, m, n
<1>. QED
  BY <1>4, <1>5, <1>6

\* spill_var() keeps the allocator's tables honest: what it stores is the
\* value of the variable, what it drops is in memory already.
LEMMA SpillGood ==
    ASSUME NEW s, NEW L, NEW K, NEW A, NEW S, L \subseteq Var, S \subseteq Var,
           Good(s, L, K, A, S), NEW R, R \subseteq Reg
    PROVE  /\ Good(spill_var(s, R), L, K, A, S)
           /\ Exact(s, L) => Exact(spill_var(s, R), L)
           /\ InMemory(s, L) => InMemory(spill_var(s, R), L)
           /\ spill_var(s, R).space \subseteq s.space \cup A
<1>. DEFINE n == spill_var(s, R)
<1>1. s \in StateType
  BY DEF Good
<1>0. \A i \in R : s.REGS[i].var \in Var /\ s.REGS[i].polluted
                     => s.reg[i] = s.REGS[i].var
  BY NoneNotVar DEF Good, DirtyKilled, Truthful
<1>2. \A v \in Var : SavedIn(s, v) => SavedIn(n, v)
  BY <1>0, <1>1, SpillType DEF SavedIn
<1>3. \A i \in R : s.REGS[i].var \in L => SavedIn(n, s.REGS[i].var)
  <2>. SUFFICES ASSUME NEW i \in R, s.REGS[i].var \in L
                PROVE  SavedIn(n, s.REGS[i].var)
    OBVIOUS
  <2>1. CASE ~s.REGS[i].polluted
    BY <2>1, <1>2 DEF Good, CleanSaved
  <2>2. CASE s.REGS[i].polluted
    BY <2>2, <1>0, <1>1, SpillType DEF SavedIn
  <2>. QED
    BY <2>1, <2>2
<1>4. \A i \in Reg : i \in R => n.REGS[i].var = None /\ ~n.REGS[i].polluted
  BY <1>1, SpillType DEF Empty
<1>5. \A i \in Reg : i \notin R => n.REGS[i] = s.REGS[i]
  BY <1>1, SpillType
<1>6. n.reg = s.reg /\ n \in StateType
  BY <1>1, SpillType
<1>7. None \notin L
  BY NoneNotVar
<1>. HIDE DEF n
<1>8. Truthful(n, L) /\ CleanSaved(n, L)
  BY <1>2, <1>4, <1>5, <1>6, <1>7 DEF Good, Truthful, CleanSaved
<1>9. Present(n, L)
  BY <1>2, <1>3, <1>5 DEF Good, Present
<1>10. DirtyKilled(n, K \cap L) /\ Known(n, A) /\ InMemory(n, S)
  BY <1>2, <1>4, <1>5 DEF Good, DirtyKilled, Known, InMemory
<1>11. InMemory(s, L) => InMemory(n, L)
  BY <1>2 DEF InMemory
<1>13. Slots(n, L)
  BY <1>0, <1>1, SpillType DEF Good, Slots, n
<1>14. n.space \subseteq s.space \cup A
  <2>1. n.space \subseteq Var
    BY <1>6 DEF StateType
  <2>2. ASSUME NEW v \in Var, v \in n.space, v \notin s.space PROVE v \in A
    <3>1. PICK i \in R : s.REGS[i].var = v
      BY <1>1, <2>2, SpillType DEF n
    <3>. QED
      BY <3>1, NoneNotVar DEF Good, Known
  <2>. QED
    BY <2>1, <2>2
<1>12. ASSUME Exact(s, L) PROVE Exact(n, L)
  <2>. SUFFICES ASSUME NEW i \in Reg,
                       n.REGS[i].var \in L \cap (AddrVars \cup Global)
                PROVE  n.phys_reg[n.REGS[i].var] = i
    BY DEF Exact
  <2>. DEFINE v == n.REGS[i].var
  <2>1. i \notin R /\ s.REGS[i].var = v /\ v \in Var
    BY <1>4, <1>5, <1>7
  <2>2. s.phys_reg[v] = i
    BY <2>1, <1>12 DEF Exact
  <2>3. ~\E j \in R : s.REGS[j].var = v
    BY <2>1, <2>2, <1>12 DEF Exact
  <2>. QED
    BY <1>1, <2>1, <2>2, <2>3, SpillType DEF n
<1>. QED
  BY <1>6, <1>8, <1>9, <1>10, <1>11, <1>12, <1>13, <1>14 DEF Good, n

LEMMA LoadType ==
    ASSUME NEW s \in StateType, NEW v \in Var, NEW r \in Reg
    PROVE  LET n == load_var(s, v, r)
           IN /\ n \in StateType
              /\ n.mem = s.mem /\ n.space = s.space
              /\ n.reg = [s.reg EXCEPT ![r] = Fetch(s, v)]
              /\ n.REGS = [s.REGS EXCEPT ![r] = [var |-> v, polluted |-> FALSE]]
              /\ n.phys_reg = [s.phys_reg EXCEPT ![v] = r]
  BY DEF load_var, Fetch, StateType, Content

\* load_var() of a variable that is in memory, into an empty register.
LEMMA LoadGood ==
    ASSUME NEW s, NEW L, NEW K, NEW A, NEW S, L \subseteq Var, S \subseteq Var,
           Good(s, L, K, A, S), NEW v \in L \cap A, SavedIn(s, v),
           NEW r \in Reg, s.REGS[r].var = None
    PROVE  LET n == load_var(s, v, r)
           IN /\ Good(n, L, K, A, S) /\ n.space = s.space
              /\ n.REGS[r].var = v /\ n.reg[r] = v /\ ~n.REGS[r].polluted
              /\ \A i \in Reg \ {r} : n.REGS[i] = s.REGS[i] /\ n.reg[i] = s.reg[i]
              /\ InMemory(s, L) => InMemory(n, L)
              /\ Exact(s, L) /\ Holding(s, v) = {} => Exact(n, L)
<1>. DEFINE n == load_var(s, v, r)
<1>1. s \in StateType /\ v \in Var
  BY DEF Good
<1>2. Fetch(s, v) = v
  BY DEF Fetch, SavedIn
<1>3. /\ n \in StateType /\ n.mem = s.mem /\ n.space = s.space
      /\ n.REGS[r] = [var |-> v, polluted |-> FALSE] /\ n.reg[r] = v
      /\ \A i \in Reg \ {r} : n.REGS[i] = s.REGS[i] /\ n.reg[i] = s.reg[i]
      /\ n.phys_reg[v] = r
      /\ \A w \in Var \ {v} : n.phys_reg[w] = s.phys_reg[w]
  <2>1. /\ n \in StateType /\ n.mem = s.mem /\ n.space = s.space
        /\ n.reg = [s.reg EXCEPT ![r] = v]
        /\ n.REGS = [s.REGS EXCEPT ![r] = [var |-> v, polluted |-> FALSE]]
        /\ n.phys_reg = [s.phys_reg EXCEPT ![v] = r]
    BY <1>1, <1>2, LoadType
  <2>. HIDE DEF n
  <2>. QED
    BY <1>1, <2>1 DEF StateType
<1>4. \A w : SavedIn(n, w) <=> SavedIn(s, w)
  BY <1>3 DEF SavedIn
<1>. HIDE DEF n
<1>5. Truthful(n, L) /\ CleanSaved(n, L)
  BY <1>3, <1>4 DEF Good, Truthful, CleanSaved
<1>6. Present(n, L)
  <2>. SUFFICES ASSUME NEW w \in L, ~SavedIn(n, w)
                PROVE  \E i \in Reg : n.REGS[i].var = w
    BY DEF Present
  <2>1. PICK i \in Reg : s.REGS[i].var = w
    BY <1>4 DEF Good, Present
  <2>. QED
    BY <1>3, <2>1, NoneNotVar
<1>7. /\ DirtyKilled(n, K \cap L) /\ Known(n, A) /\ InMemory(n, S)
      /\ Slots(n, L)
  BY <1>3, <1>4 DEF Good, DirtyKilled, Known, InMemory, Slots
<1>8. InMemory(s, L) => InMemory(n, L)
  BY <1>4 DEF InMemory
<1>9. ASSUME Exact(s, L), Holding(s, v) = {} PROVE Exact(n, L)
  BY <1>3, <1>9 DEF Exact, Holding
<1>. QED
  BY <1>3, <1>5, <1>6, <1>7, <1>8, <1>9 DEF Good, n

\* prepare_operand() of a live variable returns a register that contains it,
\* leaves the registers to be avoided alone and keeps the tables honest.
LEMMA OperandGood ==
    ASSUME NEW s, NEW L, NEW K, NEW A, NEW S, L \subseteq Var, S \subseteq Var,
           Good(s, L, K, A, S), Exact(s, L) \/ InMemory(s, L),
           NEW v \in L \cap A,
           NEW avoid, avoid \subseteq Reg, \A r \in avoid : s.REGS[r].var # None,
           NEW p \in prepare_operand(s, v, avoid)
    PROVE  /\ p.reg \in Reg
           /\ Good(p.st, L, K, A, S)
           /\ p.st.REGS[p.reg].var = v /\ p.st.reg[p.reg] = v
           /\ \A r \in avoid : /\ p.st.REGS[r] = s.REGS[r]
                               /\ p.st.reg[r] = s.reg[r]
           /\ Exact(s, L) => Exact(p.st, L)
           /\ InMemory(s, L) => InMemory(p.st, L)
           /\ Holding(s, v) = {} => ~p.st.REGS[p.reg].polluted
           /\ p.st.space \subseteq s.space \cup A
<1>1. s \in StateType /\ v \in Var
  BY DEF Good
<1>2. CASE Mapped(s, v)
  <2>1. p = [reg |-> s.phys_reg[v], st |-> s]
    BY <1>2 DEF prepare_operand
  <2>. QED
    BY <1>2, <2>1 DEF Mapped, Good, Truthful, Holding
<1>3. CASE ~Mapped(s, v) /\ Holding(s, v) # {} /\ v \notin AddrVars
  <2>. DEFINE r == Least(Holding(s, v))
  <2>1. p = [reg |-> r, st |-> [s EXCEPT !.phys_reg = [@ EXCEPT ![v] = r]]]
    BY <1>3 DEF prepare_operand
  <2>2. r \in Reg /\ s.REGS[r].var = v
    BY <1>3, LeastIn DEF Holding
  <2>. HIDE DEF r
  <2>3. /\ p.st \in StateType /\ p.st.REGS = s.REGS /\ p.st.reg = s.reg
        /\ p.st.mem = s.mem /\ p.st.space = s.space
        /\ p.st.phys_reg = [s.phys_reg EXCEPT ![v] = r]
    BY <1>1, <2>1, <2>2 DEF StateType
  <2>4. Good(p.st, L, K, A, S) /\ (InMemory(s, L) => InMemory(p.st, L))
    BY <2>3 DEF Good, Truthful, CleanSaved, Present, DirtyKilled, Known,
                InMemory, SavedIn, Slots
  <2>5. ASSUME Exact(s, L) PROVE Exact(p.st, L)
    <3>1. s.REGS[r].var \in L \cap (AddrVars \cup Global) => s.phys_reg[v] = r
      BY <2>2, <2>5 DEF Exact
    <3>. QED
      BY <1>1, <2>2, <2>3, <2>5, <3>1 DEF Exact, StateType
  <2>6. p.reg = r /\ p.st.reg[r] = v
    BY <2>1, <2>2, <2>3 DEF Good, Truthful
  <2>. QED
    BY <1>3, <2>2, <2>3, <2>4, <2>5, <2>6
<1>4. ASSUME ~Mapped(s, v), ~(Holding(s, v) # {} /\ v \notin AddrVars)
      PROVE  SavedIn(s, v) /\ (Exact(s, L) => Holding(s, v) = {})
  <2>1. Exact(s, L) => Holding(s, v) = {}
    <3>. SUFFICES ASSUME Exact(s, L), NEW i \in Holding(s, v) PROVE FALSE
      OBVIOUS
    <3>1. i \in Reg /\ s.REGS[i].var = v /\ v \in AddrVars
      BY <1>4 DEF Holding
    <3>2. s.phys_reg[v] = i
      BY <3>1 DEF Exact
    <3>. QED
      BY <1>4, <3>1, <3>2 DEF Mapped
  <2>2. Holding(s, v) = {} => SavedIn(s, v)
    BY DEF Good, Present, Holding
  <2>3. InMemory(s, L) => SavedIn(s, v)
    BY DEF InMemory
  <2>. QED
    BY <2>1, <2>2, <2>3
<1>5. CASE /\ ~Mapped(s, v) /\ ~(Holding(s, v) # {} /\ v \notin AddrVars)
           /\ Free(s) # {}
  <2>. DEFINE r == Least(Free(s))
  <2>1. p = [reg |-> r, st |-> load_var(s, v, r)]
    BY <1>5 DEF prepare_operand
  <2>2. r \in Reg /\ s.REGS[r].var = None
    BY <1>5, LeastIn DEF Holding, Free
  <2>. HIDE DEF r
  <2>3. r \notin avoid
    BY <2>2
  <2>. QED
    BY <1>4, <1>5, <2>1, <2>2, <2>3, LoadGood
<1>6. CASE /\ ~Mapped(s, v) /\ ~(Holding(s, v) # {} /\ v \notin AddrVars)
           /\ Free(s) = {}
  <2>1. PICK r \in find_best_spill(s, avoid) :
               p = [reg |-> r, st |-> load_var(spill_var(s, {r}), v, r)]
    BY <1>6 DEF prepare_operand
  <2>2. r \in Reg /\ r \notin avoid
    BY DEF find_best_spill
  <2>. DEFINE n == spill_var(s, {r})
  <2>3. /\ Good(n, L, K, A, S) /\ (Exact(s, L) => Exact(n, L))
        /\ (InMemory(s, L) => InMemory(n, L))
        /\ n.space \subseteq s.space \cup A
    BY <2>2, SpillGood
  <2>4. /\ n.REGS[r].var = None /\ n.reg = s.reg
        /\ \A i \in Reg \ {r} : n.REGS[i] = s.REGS[i]
    BY <1>1, <2>2, SpillType DEF Empty
  <2>. HIDE DEF n
  <2>5. SavedIn(n, v) /\ (Exact(s, L) => Holding(n, v) = {})
    <3>1. Holding(n, v) \subseteq Holding(s, v)
      BY <1>1, <2>4, NoneNotVar DEF Holding
    <3>2. Exact(s, L) => Holding(s, v) = {}
      BY <1>4, <1>6
    <3>3. Exact(s, L) => Holding(n, v) = {}
      BY <3>1, <3>2
    <3>4. Holding(n, v) = {} => SavedIn(n, v)
      BY <2>3 DEF Good, Present, Holding
    <3>5. InMemory(s, L) => SavedIn(n, v)
      BY <2>3 DEF InMemory
    <3>. QED
      BY <3>3, <3>4, <3>5
  <2>. DEFINE m == load_var(n, v, r)
  <2>6. /\ Good(m, L, K, A, S) /\ m.REGS[r].var = v /\ m.reg[r] = v
        /\ m.space = n.space
        /\ ~m.REGS[r].polluted
        /\ \A i \in Reg \ {r} : m.REGS[i] = n.REGS[i] /\ m.reg[i] = n.reg[i]
        /\ InMemory(n, L) => InMemory(m, L)
        /\ Exact(n, L) /\ Holding(n, v) = {} => Exact(m, L)
    BY <2>2, <2>3, <2>4, <2>5, LoadGood
  <2>7. p.reg = r /\ p.st = m
    BY <2>1 DEF n
  <2>. HIDE DEF m
  <2>. QED
    BY <2>2, <2>3, <2>4, <2>5, <2>6, <2>7
<1>. QED
  BY <1>2, <1>3, <1>5, <1>6

\* Dropping registers whose variables are in memory or no longer read.
LEMMA DropGood ==
    ASSUME NEW s, NEW L, NEW K, NEW A, NEW S, L \subseteq Var, S \subseteq Var,
           Good(s, L, K, A, S), NEW R, R \subseteq Reg,
           \A i \in R : s.REGS[i].var \in L => SavedIn(s, s.REGS[i].var)
    PROVE  /\ Good(Drop(s, R), L, K, A, S)
           /\ Exact(s, L) => Exact(Drop(s, R), L)
<1>. DEFINE n == Drop(s, R)
<1>1. s \in StateType
  BY DEF Good
<1>2. /\ n \in StateType /\ n.reg = s.reg /\ n.mem = s.mem
      /\ n.space = s.space
      /\ \A i \in Reg : n.REGS[i] = IF i \in R THEN Empty ELSE s.REGS[i]
      /\ \A v \in Var : n.phys_reg[v] = IF \E i \in R : s.REGS[i].var = v
                                          THEN NoReg ELSE s.phys_reg[v]
  BY <1>1, DropType
<1>3. None \notin L
  BY NoneNotVar
<1>4. \A w : SavedIn(n, w) <=> SavedIn(s, w)
  BY <1>2 DEF SavedIn
<1>. HIDE DEF n
<1>5. Truthful(n, L) /\ CleanSaved(n, L)
  BY <1>2, <1>3, <1>4 DEF Good, Truthful, CleanSaved, Empty
<1>6. Present(n, L)
  BY <1>2, <1>4 DEF Good, Present
<1>7. /\ DirtyKilled(n, K \cap L) /\ Known(n, A) /\ InMemory(n, S)
      /\ Slots(n, L)
  BY <1>2, <1>4 DEF Good, DirtyKilled, Known, InMemory, Empty, Slots
<1>8. ASSUME Exact(s, L) PROVE Exact(n, L)
  <2>. SUFFICES ASSUME NEW i \in Reg,
                       n.REGS[i].var \in L \cap (AddrVars \cup Global)
                PROVE  n.phys_reg[n.REGS[i].var] = i
    BY DEF Exact
  <2>1. i \notin R /\ n.REGS[i] = s.REGS[i] /\ s.REGS[i].var \in Var
    BY <1>2, <1>3 DEF Empty
  <2>2. s.phys_reg[s.REGS[i].var] = i
    BY <2>1, <1>8 DEF Exact
  <2>3. ~\E j \in R : s.REGS[j].var = s.REGS[i].var
    BY <2>1, <2>2, <1>8 DEF Exact
  <2>. QED
    BY <1>2, <2>1, <2>2, <2>3
<1>. QED
  BY <1>2, <1>5, <1>6, <1>7, <1>8 DEF Good, n

\* An instruction defines v in register r, which was empty.
LEMMA OwnGood ==
    ASSUME NEW s, NEW L, NEW K, NEW A, NEW S, L \subseteq Var, S \subseteq Var,
           Good(s, L, K, A, S), Exact(s, L),
           NEW v \in Local, v \notin L, v \notin A,
           v \in s.space => v \notin AddrVars,
           NEW r \in Reg, s.REGS[r].var = None
    PROVE  LET n == Computed(Own(s, v, r), v, r)
           IN /\ Good(n, L \cup {v}, K \cup {v}, A \cup {v}, S)
              /\ Exact(n, L \cup {v})
<1>. DEFINE n == Computed(Own(s, v, r), v, r)
<1>1. s \in StateType /\ v \in Var
  BY DEF Good, Var
<1>2. /\ n \in StateType /\ n.mem = s.mem /\ n.space = s.space
      /\ n.REGS[r] = [var |-> v, polluted |-> TRUE] /\ n.reg[r] = v
      /\ \A i \in Reg \ {r} : n.REGS[i] = s.REGS[i]
      /\ \A i \in Reg \ {r} : s.reg[i] # v => n.reg[i] = s.reg[i]
      /\ n.phys_reg[v] = r
      /\ \A w \in Var \ {v} : n.phys_reg[w] = s.phys_reg[w]
  BY <1>1 DEF Computed, Own, StateType, Content
<1>3. \A w : SavedIn(n, w) <=> SavedIn(s, w)
  BY <1>2 DEF SavedIn
<1>4. \A i \in Reg : s.REGS[i].var # v
  BY <1>1, NoneNotVar DEF Good, Known
<1>. HIDE DEF n
<1>5. Truthful(n, L \cup {v})
  BY <1>2, <1>4 DEF Good, Truthful
<1>6. CleanSaved(n, L \cup {v})
  BY <1>2, <1>3, <1>4 DEF Good, CleanSaved
<1>7. Present(n, L \cup {v})
  <2>1. ASSUME NEW w \in L, ~SavedIn(n, w)
        PROVE  \E i \in Reg : n.REGS[i].var = w
    <3>1. PICK i \in Reg : s.REGS[i].var = w
      BY <1>3, <2>1 DEF Good, Present
    <3>. QED
      BY <1>2, <3>1, NoneNotVar
  <2>. QED
    BY <1>2, <2>1 DEF Present
<1>8. DirtyKilled(n, (K \cup {v}) \cap (L \cup {v}))
  BY <1>2 DEF Good, DirtyKilled
<1>9. Known(n, A \cup {v}) /\ InMemory(n, S) /\ Slots(n, L \cup {v})
  BY <1>2, <1>3 DEF Good, Known, InMemory, Slots
<1>10. Exact(n, L \cup {v})
  BY <1>2, <1>4 DEF Exact
<1>. QED
  BY <1>2, <1>5, <1>6, <1>7, <1>8, <1>9, <1>10 DEF Good, n

\* prepare_dest() gives a slot only to what it spills.
LEMMA DestSpace ==
    ASSUME NEW s, NEW L, NEW K, NEW A, NEW S, L \subseteq Var, S \subseteq Var,
           Good(s, L, K, A, S), NEW v, NEW avoid,
           NEW d \in prepare_dest(s, v, avoid)
    PROVE  d.st.space \subseteq s.space \cup A
<1>1. \A b, r : b \in StateType => Own(b, v, r).space = b.space
  BY DEF Own, StateType
<1>2. s \in StateType
  BY DEF Good
<1>3. CASE \E r : d.st = Own(s, v, r)
  BY <1>1, <1>2, <1>3
<1>4. CASE \E r \in find_best_spill(s, avoid) :
               d.st = Own(spill_var(s, {r}), v, r)
  <2>1. PICK r \in find_best_spill(s, avoid) :
               d.st = Own(spill_var(s, {r}), v, r)
    BY <1>4
  <2>2. {r} \subseteq Reg
    BY DEF find_best_spill
  <2>3. /\ spill_var(s, {r}) \in StateType
        /\ spill_var(s, {r}).space \subseteq s.space \cup A
    BY <2>2, SpillGood DEF Good
  <2>. QED
    BY <1>1, <2>1, <2>3
<1>. QED
  BY <1>3, <1>4, SMTT(40) DEF prepare_dest

\* prepare_dest() writes no register.
LEMMA DestReg ==
    ASSUME NEW s \in StateType, NEW v, NEW avoid,
           NEW d \in prepare_dest(s, v, avoid)
    PROVE  d.st.reg = s.reg
<1>1. \A b, r : b \in StateType => Own(b, v, r).reg = b.reg
  BY DEF Own, StateType
<1>2. \A r \in find_best_spill(s, avoid) :
        spill_var(s, {r}) \in StateType /\ spill_var(s, {r}).reg = s.reg
  BY SpillType DEF find_best_spill
<1>3. \/ \E r : d.st = Own(s, v, r)
      \/ \E r \in find_best_spill(s, avoid) : d.st = Own(spill_var(s, {r}), v, r)
  BY SMTT(40) DEF prepare_dest
<1>4. ASSUME NEW r, d.st = Own(s, v, r) PROVE d.st.reg = s.reg
  BY <1>1, <1>4
<1>5. ASSUME NEW r \in find_best_spill(s, avoid),
             d.st = Own(spill_var(s, {r}), v, r)
      PROVE  d.st.reg = s.reg
  <2>1. Own(spill_var(s, {r}), v, r).reg = spill_var(s, {r}).reg
    BY <1>1, <1>2
  <2>2. d.st.reg = spill_var(s, {r}).reg
    BY <1>5, <2>1
  <2>. QED
    BY <1>2, <2>2
<1>. QED
  BY <1>3, <1>4, <1>5

\* What prepare_dest() of a new local v finds.
DestPre(s, L, K, A, S, v, avoid) ==
    /\ L \subseteq Var /\ S \subseteq Var
    /\ Good(s, L, K, A, S) /\ Exact(s, L)
    /\ v \in Local /\ v \notin L /\ v \notin A
    /\ v \in s.space => v \notin AddrVars
    /\ avoid \subseteq Reg /\ \A r \in avoid : s.REGS[r].var # None

\* prepare_dest() of a variable defined here for the first time takes a
\* register r that is empty, if need be after a spill.
LEMMA DestShape ==
    ASSUME NEW s, NEW L, NEW K, NEW A, NEW S, L \subseteq Var, S \subseteq Var,
           Good(s, L, K, A, S), Exact(s, L),
           NEW v \in Local, v \notin L, v \notin A,
           v \in s.space => v \notin AddrVars,
           NEW avoid, avoid \subseteq Reg, \A r \in avoid : s.REGS[r].var # None,
           NEW d \in prepare_dest(s, v, avoid)
    PROVE  \E b \in StateType, r \in Reg :
             /\ d = [reg |-> r, st |-> Own(b, v, r)]
             /\ Good(b, L, K, A, S) /\ Exact(b, L)
             /\ b.REGS[r].var = None /\ b.reg = s.reg /\ r \notin avoid
             /\ \A i \in avoid : b.REGS[i] = s.REGS[i]
             /\ v \in b.space => v \in s.space
<1>1. s \in StateType /\ v \in Var
  BY DEF Good, Var
<1>2. \A i \in Reg : s.REGS[i].var # v
  BY <1>1, NoneNotVar DEF Good, Known
<1>3. ~Mapped(s, v) /\ Holding(s, v) = {}
  BY <1>2 DEF Mapped, Holding
<1>4. CASE Free(s) # {}
  <2>1. Least(Free(s)) \in Reg /\ s.REGS[Least(Free(s))].var = None
    BY <1>4, LeastIn DEF Holding, Free
  <2>2. d = [reg |-> Least(Free(s)), st |-> Own(s, v, Least(Free(s)))]
    BY <1>3, <1>4 DEF prepare_dest
  <2>. QED
    BY <1>1, <2>1, <2>2
<1>5. CASE Free(s) = {}
  <2>1. PICK r \in find_best_spill(s, avoid) :
               d = [reg |-> r, st |-> Own(spill_var(s, {r}), v, r)]
    BY <1>3, <1>5 DEF prepare_dest
  <2>2. r \in Reg /\ r \notin avoid
    BY DEF find_best_spill
  <2>3. Good(spill_var(s, {r}), L, K, A, S) /\ Exact(spill_var(s, {r}), L)
    BY <2>2, SpillGood
  <2>4. /\ spill_var(s, {r}).REGS[r].var = None
        /\ spill_var(s, {r}).reg = s.reg
        /\ \A i \in Reg \ {r} : spill_var(s, {r}).REGS[i] = s.REGS[i]
        /\ v \in spill_var(s, {r}).space => v \in s.space
    BY <1>1, <1>2, <2>2, SpillType DEF Empty
  <2>5. spill_var(s, {r}) \in StateType
    BY <2>3 DEF Good
  <2>. QED
    BY <2>1, <2>2, <2>3, <2>4, <2>5
<1>. QED
  BY <1>4, <1>5

\* The instruction that writes the variable keeps the tables honest ...
LEMMA DestGood ==
    ASSUME NEW s, NEW L, NEW K, NEW A, NEW S, NEW v, NEW avoid,
           DestPre(s, L, K, A, S, v, avoid), NEW d \in prepare_dest(s, v, avoid)
    PROVE  LET n == Computed(d.st, v, d.reg)
           IN /\ d.reg \in Reg /\ d.st.reg = s.reg
              /\ Good(n, L \cup {v}, K \cup {v}, A \cup {v}, S)
              /\ Exact(n, L \cup {v})
<1>0. /\ L \subseteq Var /\ S \subseteq Var /\ v \in Local /\ v \notin L
      /\ v \notin A /\ (v \in s.space => v \notin AddrVars)
  BY DEF DestPre
<1>1. PICK b \in StateType, r \in Reg :
             /\ d = [reg |-> r, st |-> Own(b, v, r)]
             /\ Good(b, L, K, A, S) /\ Exact(b, L)
             /\ b.REGS[r].var = None /\ b.reg = s.reg
             /\ v \in b.space => v \in s.space
  BY DestShape DEF DestPre
<1>2. d.reg = r /\ d.st = Own(b, v, r) /\ d.st.reg = s.reg
  BY <1>1 DEF Own, StateType
<1>. QED
  BY <1>0, <1>1, <1>2, OwnGood

\* ... and leaves the registers of its operands alone.
LEMMA DestAvoid ==
    ASSUME NEW s \in StateType, NEW v \in Var, NEW avoid, avoid \subseteq Reg,
           \A r \in avoid : s.REGS[r].var # None /\ s.REGS[r].var # v,
           NEW d \in prepare_dest(s, v, avoid)
    PROVE  \A i \in avoid :
             Written(Computed(d.st, v, d.reg), v, d.reg).REGS[i] = s.REGS[i]
<1>1. PICK b \in StateType, r \in Reg :
             /\ d = [reg |-> r, st |-> Own(b, v, r)] /\ r \notin avoid
             /\ \A i \in avoid : b.REGS[i] = s.REGS[i]
  <2>1. CASE Mapped(s, v)
    <3>1. d = [reg |-> s.phys_reg[v], st |-> Own(s, v, s.phys_reg[v])]
      BY <2>1 DEF prepare_dest
    <3>. QED
      BY <2>1, <3>1 DEF Mapped
  <2>2. CASE ~Mapped(s, v) /\ Holding(s, v) # {}
    <3>1. d = [reg |-> Least(Holding(s, v)),
               st |-> Own(s, v, Least(Holding(s, v)))]
      BY <2>2 DEF prepare_dest
    <3>2. Least(Holding(s, v)) \in Reg /\ s.REGS[Least(Holding(s, v))].var = v
      BY <2>2, LeastIn DEF Holding
    <3>. QED
      BY <3>1, <3>2
  <2>3. CASE ~Mapped(s, v) /\ Holding(s, v) = {} /\ Free(s) # {}
    <3>1. d = [reg |-> Least(Free(s)), st |-> Own(s, v, Least(Free(s)))]
      BY <2>3 DEF prepare_dest
    <3>2. Least(Free(s)) \in Reg /\ s.REGS[Least(Free(s))].var = None
      BY <2>3, LeastIn DEF Free, Holding
    <3>. QED
      BY <3>1, <3>2
  <2>4. CASE ~Mapped(s, v) /\ Holding(s, v) = {} /\ Free(s) = {}
    <3>1. PICK r \in find_best_spill(s, avoid) :
                 d = [reg |-> r, st |-> Own(spill_var(s, {r}), v, r)]
      BY <2>4 DEF prepare_dest
    <3>2. r \in Reg /\ r \notin avoid
      BY DEF find_best_spill
    <3>3. /\ spill_var(s, {r}) \in StateType
          /\ \A i \in Reg \ {r} : spill_var(s, {r}).REGS[i] = s.REGS[i]
      BY <3>2, SpillType
    <3>. QED
      BY <3>1, <3>2, <3>3
  <2>. QED
    BY <2>1, <2>2, <2>3, <2>4
<1>2. /\ d.reg = r
      /\ d.st.REGS = [b.REGS EXCEPT ![r] = [var |-> v, polluted |-> TRUE]]
      /\ d.st \in StateType
  BY <1>1 DEF Own, StateType
<1>. DEFINE c == Computed(d.st, v, d.reg)
<1>3. c.REGS = d.st.REGS /\ c \in StateType
  BY <1>2 DEF Computed, StateType, Content
<1>. HIDE DEF c
<1>4. \A i \in Reg \ {r} : Written(c, v, r).REGS[i] = c.REGS[i]
  BY <1>3 DEF Written, StateType
<1>5. \A i \in avoid : c.REGS[i] = b.REGS[i]
  BY <1>1, <1>2, <1>3 DEF StateType
<1>6. \A i \in avoid : Written(c, v, r).REGS[i] = s.REGS[i]
  BY <1>1, <1>4, <1>5
<1>. QED
  BY <1>2, <1>6 DEF c

\* The same for a global: it is stored at once and stays clean.
GlobalPre(s, L, K, A, S, v, avoid) ==
    /\ L \subseteq Var /\ S \subseteq Var
    /\ Good(s, L, K, A, S) /\ Exact(s, L)
    /\ v \in Global /\ v \in S /\ (v \in A => v \in L)
    /\ avoid \subseteq Reg
    /\ \A r \in avoid : s.REGS[r].var # None /\ s.REGS[r].var # v

LEMMA GlobalDestGood ==
    ASSUME NEW s, NEW L, NEW K, NEW A, NEW S, NEW v, NEW avoid,
           GlobalPre(s, L, K, A, S, v, avoid),
           NEW d \in prepare_dest(s, v, avoid)
    PROVE  LET n == Written(Computed(d.st, v, d.reg), v, d.reg)
           IN /\ Good(n, L \cup {v}, K \cup {v}, A \cup {v}, S)
              /\ Exact(n, L \cup {v})
<1>. DEFINE n == Written(Computed(d.st, v, d.reg), v, d.reg)
<1>0. /\ L \subseteq Var /\ S \subseteq Var /\ Good(s, L, K, A, S) /\ Exact(s, L)
      /\ v \in Global /\ v \in S /\ (v \in A => v \in L)
      /\ avoid \subseteq Reg
      /\ \A r \in avoid : s.REGS[r].var # None /\ s.REGS[r].var # v
  BY DEF GlobalPre
<1>. USE <1>0
<1>1. s \in StateType /\ v \in Var /\ v # None
  BY NoneNotVar DEF Good, Var
<1>2. \A i \in Reg : s.REGS[i].var = v => s.phys_reg[v] = i
  BY <1>1 DEF Good, Known, Exact
<1>4. PICK b \in StateType, r \in Reg :
        /\ d = [reg |-> r, st |-> Own(b, v, r)]
        /\ Good(b, L, K, A, S) /\ Exact(b, L)
        /\ b.REGS[r].var \in {None, v} /\ b.reg = s.reg /\ r \notin avoid
        /\ \A i \in Reg \ {r} : b.REGS[i].var # v
        /\ \A i \in avoid : b.REGS[i] = s.REGS[i]
        /\ b.space \subseteq s.space \cup A
  <2>1. CASE Mapped(s, v)
    <3>1. d = [reg |-> s.phys_reg[v], st |-> Own(s, v, s.phys_reg[v])]
      BY <2>1 DEF prepare_dest
    <3>. QED
      BY <1>1, <1>2, <2>1, <3>1 DEF Mapped
  <2>2. CASE ~Mapped(s, v)
    <3>1. \A i \in Reg : s.REGS[i].var # v
      BY <1>2, <2>2 DEF Mapped
    <3>2. Holding(s, v) = {}
      BY <3>1 DEF Holding
    <3>3. CASE Free(s) # {}
      <4>1. Least(Free(s)) \in Reg /\ s.REGS[Least(Free(s))].var = None
        BY <3>3, LeastIn DEF Holding, Free
      <4>2. d = [reg |-> Least(Free(s)), st |-> Own(s, v, Least(Free(s)))]
        BY <2>2, <3>2, <3>3 DEF prepare_dest
      <4>. QED
        BY <1>1, <3>1, <4>1, <4>2
    <3>4. CASE Free(s) = {}
      <4>1. PICK r \in find_best_spill(s, avoid) :
                   d = [reg |-> r, st |-> Own(spill_var(s, {r}), v, r)]
        BY <2>2, <3>2, <3>4 DEF prepare_dest
      <4>2. r \in Reg /\ r \notin avoid
        BY DEF find_best_spill
      <4>3. /\ Good(spill_var(s, {r}), L, K, A, S) /\ Exact(spill_var(s, {r}), L)
          /\ spill_var(s, {r}).space \subseteq s.space \cup A
        BY <4>2, SpillGood
      <4>4. /\ spill_var(s, {r}).REGS[r].var = None
            /\ spill_var(s, {r}).reg = s.reg
            /\ \A i \in Reg \ {r} : spill_var(s, {r}).REGS[i] = s.REGS[i]
        BY <1>1, <4>2, SpillType DEF Empty
      <4>5. spill_var(s, {r}) \in StateType
        BY <4>3 DEF Good
      <4>. QED
        BY <3>1, <4>1, <4>2, <4>3, <4>4, <4>5
    <3>. QED
      BY <3>3, <3>4
  <2>. QED
    BY <2>1, <2>2
<1>5. /\ n \in StateType /\ d.reg = r /\ d.st.reg = s.reg
      /\ n.REGS[r] = [var |-> v, polluted |-> FALSE] /\ n.reg[r] = v
      /\ \A i \in Reg \ {r} : n.REGS[i] = b.REGS[i]
      /\ \A i \in Reg \ {r} : b.reg[i] # v => n.reg[i] = b.reg[i]
      /\ n.space = b.space
      /\ n.mem = [b.mem EXCEPT ![v] = v]
      /\ n.phys_reg = [b.phys_reg EXCEPT ![v] = r]
  <2>. DEFINE o == Own(b, v, r)
  <2>1. /\ o \in StateType /\ o.reg = b.reg /\ o.mem = b.mem
        /\ o.REGS = [b.REGS EXCEPT ![r] = [var |-> v, polluted |-> TRUE]]
        /\ o.space = b.space /\ o.phys_reg = [b.phys_reg EXCEPT ![v] = r]
    BY <1>1 DEF Own, StateType
  <2>. HIDE DEF o
  <2>. DEFINE c == Computed(o, v, r)
  <2>2. /\ c \in StateType /\ c.mem = o.mem /\ c.REGS = o.REGS
        /\ c.space = o.space /\ c.phys_reg = o.phys_reg /\ c.reg[r] = v
        /\ \A i \in Reg \ {r} : o.reg[i] # v => c.reg[i] = o.reg[i]
    BY <1>1, <2>1 DEF Computed, StateType, Content
  <2>. HIDE DEF c
  <2>3. /\ n = Written(c, v, r) /\ d.reg = r /\ d.st = o
    BY <1>4 DEF o, c
  <2>. HIDE DEF n
  <2>4. n = [c EXCEPT !.mem = [@ EXCEPT ![v] = v],
               !.REGS = [@ EXCEPT ![r] = [var |-> v, polluted |-> FALSE]]]
    BY <2>2, <2>3 DEF Written
  <2>6. /\ n.reg = c.reg /\ n.space = c.space /\ n.phys_reg = c.phys_reg
        /\ n.mem = [c.mem EXCEPT ![v] = v]
        /\ n.REGS = [c.REGS EXCEPT ![r] = [var |-> v, polluted |-> FALSE]]
    BY <2>2, <2>4 DEF StateType
  <2>7. n \in StateType
    BY <1>1, <2>2, <2>4 DEF StateType, Content
  <2>8. \A i \in Reg \ {r} : n.REGS[i] = b.REGS[i]
    BY <2>1, <2>2, <2>6 DEF StateType
  <2>9. n.REGS[r] = [var |-> v, polluted |-> FALSE]
    BY <2>2, <2>6 DEF StateType
  <2>. QED
    BY <1>4, <2>1, <2>2, <2>3, <2>6, <2>7, <2>8, <2>9
<1>6. SavedIn(n, v) /\ \A w \in Var : SavedIn(b, w) => SavedIn(n, w)
  BY <1>1, <1>4, <1>5 DEF SavedIn, Good, InMemory, StateType
<1>. HIDE DEF n
<1>7. \A i \in Reg \ {r} : b.REGS[i].var \in L => n.reg[i] = b.REGS[i].var
  BY <1>4, <1>5 DEF Good, Truthful
<1>8. Truthful(n, L \cup {v}) /\ CleanSaved(n, L \cup {v})
  BY <1>4, <1>5, <1>6, <1>7 DEF Good, Truthful, CleanSaved
<1>9. Present(n, L \cup {v})
  <2>1. ASSUME NEW w \in L, w # v, ~SavedIn(n, w)
        PROVE  \E i \in Reg : n.REGS[i].var = w
    <3>1. PICK i \in Reg : b.REGS[i].var = w
      BY <1>4, <1>6, <2>1 DEF Good, Present
    <3>. QED
      BY <1>4, <1>5, <2>1, <3>1, NoneNotVar
  <2>. QED
    BY <1>6, <2>1 DEF Present
<1>10. DirtyKilled(n, (K \cup {v}) \cap (L \cup {v}))
  BY <1>4, <1>5 DEF Good, DirtyKilled
<1>11. Known(n, A \cup {v}) /\ InMemory(n, S)
  BY <1>4, <1>5, <1>6 DEF Good, Known, InMemory
<1>14. Slots(n, L \cup {v})
  BY <1>4, <1>5, <1>6 DEF Good, Slots, SavedIn, StateType
<1>12. Exact(n, L \cup {v})
  <2>. SUFFICES ASSUME NEW i \in Reg, n.REGS[i].var \in AddrVars \cup Global,
                       n.REGS[i].var \in L \cup {v}
                PROVE  n.phys_reg[n.REGS[i].var] = i
    BY DEF Exact
  <2>1. CASE i = r
    BY <1>1, <1>5, <2>1 DEF StateType
  <2>2. CASE i # r
    BY <1>4, <1>5, <2>2 DEF Exact, StateType
  <2>. QED
    BY <2>1, <2>2
<1>13. \A i \in avoid : n.REGS[i] = s.REGS[i]
  BY <1>4, <1>5
<1>. QED
  BY <1>4, <1>5, <1>8, <1>9, <1>10, <1>11, <1>12, <1>13, <1>14
     DEF Good, n

\* refresh() forgets only what is not read again.
LEMMA RefreshGood ==
    ASSUME IndInv
    PROVE  /\ Good(refresh(st), AliveSet, killed, AliveSet \cup pending, Resident)
           /\ Idle => Exact(refresh(st), AliveSet)
           /\ ~Idle => InMemory(refresh(st), AliveSet)
           /\ refresh(st).reg = st.reg /\ refresh(st).space = st.space
           /\ Known(refresh(st), avail \cup Global)
           /\ AliveSet \subseteq Var /\ Resident \subseteq Var
<1>. DEFINE R == {i \in Reg : /\ st.REGS[i].var # None
                              /\ st.REGS[i].var \notin live_out
                              /\ consumed[st.REGS[i].var] < idx}
            n == Drop(st, R)
<1>1. n = refresh(st)
  BY DEF refresh
<1>2. st \in StateType /\ AliveSet \subseteq Var /\ Resident \subseteq Var
  BY VarAssumption DEF IndInv, TypeOK, AliveSet, Resident, Var
<1>3. /\ n \in StateType /\ n.reg = st.reg /\ n.mem = st.mem
      /\ n.space = st.space
      /\ \A i \in Reg : n.REGS[i] = IF i \in R THEN Empty ELSE st.REGS[i]
      /\ \A v \in Var : n.phys_reg[v] = IF \E i \in R : st.REGS[i].var = v
                                          THEN NoReg ELSE st.phys_reg[v]
  BY <1>2, DropType
<1>4. \A i \in R : st.REGS[i].var \notin AliveSet
  <2>. SUFFICES ASSUME NEW i \in R, st.REGS[i].var \in AliveSet PROVE FALSE
    OBVIOUS
  <2>1. consumed[st.REGS[i].var] \in Int /\ idx \in Int
    BY <1>2 DEF IndInv, TypeOK
  <2>. QED
    BY <2>1 DEF AliveSet
<1>5. \A i \in Reg \ R : st.REGS[i].var \in AliveSet \cup pending \cup {None}
  <2>. SUFFICES ASSUME NEW i \in Reg, i \notin R, st.REGS[i].var # None
                PROVE  st.REGS[i].var \in AliveSet \cup pending
    OBVIOUS
  <2>1. st.REGS[i].var \in avail \cup Global
    BY DEF IndInv, Known
  <2>2. consumed[st.REGS[i].var] \in Int /\ idx \in Int
    BY <2>1 DEF IndInv, TypeOK, Var
  <2>. QED
    BY <2>1, <2>2 DEF AliveSet
<1>6. \A w : SavedIn(n, w) <=> SavedIn(st, w)
  BY <1>3 DEF SavedIn
<1>7. None \notin AliveSet
  BY <1>2, NoneNotVar
<1>. HIDE DEF n, R
<1>8. Truthful(n, AliveSet) /\ CleanSaved(n, AliveSet)
  BY <1>3, <1>6, <1>7 DEF IndInv, Truthful, CleanSaved, Empty
<1>9. Present(n, AliveSet)
  BY <1>3, <1>4, <1>6 DEF IndInv, Present
<1>10. DirtyKilled(n, killed \cap AliveSet)
  BY <1>3, <1>5 DEF IndInv, DirtyKilled, Bookkeeping, Empty
<1>11. /\ Known(n, AliveSet \cup pending) /\ InMemory(n, Resident)
       /\ Slots(n, AliveSet)
  BY <1>3, <1>5, <1>6 DEF IndInv, Known, InMemory, Empty, Slots
<1>12. ASSUME Idle PROVE Exact(n, AliveSet)
  BY <1>2, <1>3, <1>4, <1>7, <1>12 DEF IndInv, Exact, Empty
<1>13. ASSUME ~Idle PROVE InMemory(n, AliveSet)
  BY <1>6, <1>13 DEF IndInv, InMemory
<1>14. Known(n, avail \cup Global)
  BY <1>3 DEF IndInv, Known, Empty
<1>. QED
  BY <1>1, <1>2, <1>3, <1>8, <1>9, <1>10, <1>11, <1>12, <1>13, <1>14 DEF Good

-----------------------------------------------------------------------------
(* The actions.                                                            *)

\* The invariant of the next state from what the helpers guarantee, outside
\* calls.
LEMMA Establish ==
    ASSUME TypeOK', Bookkeeping',
           NEW L, NEW K, NEW A, NEW S,
           Good(st', L, K, A, S),
           AliveSet' \subseteq L, K \subseteq killed',
           A \subseteq (avail \cup Global)', Resident' \subseteq S,
           Idle', Exact(st', L)
    PROVE  IndInv'
<1>1. Truthful(st', AliveSet') /\ CleanSaved(st', AliveSet')
  BY DEF Good, Truthful, CleanSaved
<1>2. Present(st', AliveSet') /\ DirtyKilled(st', killed')
  BY DEF Good, Present, DirtyKilled
<1>3. Known(st', (avail \cup Global)') /\ InMemory(st', Resident')
  BY DEF Good, Known, InMemory
<1>4. Slots(st', AliveSet')
  BY DEF Good, Slots
<1>5. Exact(st', AliveSet')
  BY DEF Exact
<1>. QED
  BY <1>1, <1>2, <1>3, <1>4, <1>5 DEF IndInv

\* What Define leaves alive.
LEMMA DefineAlive ==
    ASSUME TypeOK, NEW v \in Var, Define(v), idx' = idx + 1,
           pending' = pending
    PROVE  /\ AliveSet' \subseteq AliveSet \cup {v}
           /\ avail' \subseteq Local /\ defd' \subseteq Local
           /\ killed' \subseteq Var /\ live_out' \subseteq Local
           /\ consumed' \in [Var -> Int]
<1>1. \A w \in Var \ {v} : consumed'[w] = consumed[w]
  BY DEF TypeOK, Define
<1>2. live_out' \subseteq live_out \cup {v} /\ avail' \subseteq avail \cup {v}
  BY DEF Define
<1>3. consumed' \in [Var -> Int]
  BY BoundAssumption DEF TypeOK, Define
<1>4. AliveSet' \subseteq AliveSet \cup {v}
  <2>. SUFFICES ASSUME NEW w \in AliveSet', w # v PROVE w \in AliveSet
    OBVIOUS
  <2>1. /\ w \in (avail' \cup Global) \ pending
        /\ w \in live_out' \/ consumed'[w] >= idx + 1
    BY DEF AliveSet
  <2>2. w \in (avail \cup Global) \ pending /\ w \in Var
    BY <1>2, <2>1 DEF TypeOK, Var
  <2>3. consumed'[w] = consumed[w] /\ consumed[w] \in Int /\ idx \in Int
    BY <1>1, <2>2 DEF TypeOK
  <2>. QED
    BY <1>2, <2>1, <2>2, <2>3 DEF AliveSet
<1>5. /\ avail' \subseteq Local /\ defd' \subseteq Local
      /\ killed' \subseteq Var /\ live_out' \subseteq Local
  BY DEF Define, TypeOK, Var
<1>. QED
  BY <1>3, <1>4, <1>5

\* An instruction of an idle block that defines v.
LEMMA DefStep ==
    ASSUME IndInv, Idle, pending = {}, blk > 0, NEW v \in Var,
           v \in Global \/ v \notin PhiVars, Define(v), idx' = idx + 1,
           UNCHANGED <<blk, pending, call>>, ret' \in BOOLEAN,
           is_const' \subseteq ConstVars,
           exposed' \subseteq AddrVars \cap (defd' \cup PhiVars),
           misread' \subseteq Var \cup {RetVal},
           NEW S, Resident \cup exposed' \subseteq S,
           Good(st', AliveSet \cup {v}, killed \cup {v}, AliveSet \cup {v}, S),
           Exact(st', AliveSet \cup {v}),
           st'.space \subseteq st.space \cup AliveSet \cup {v}
    PROVE  IndInv'
<1>1. TypeOK
  BY DEF IndInv
<1>2. TypeOK'
  <2>1. st' \in StateType
    BY DEF Good
  <2>. QED
    BY <1>1, <2>1, DefineAlive DEF TypeOK
<1>3. AliveSet \subseteq avail \cup Global
  BY DEF AliveSet
<1>4. /\ avail' = avail \cup ({v} \cap Local) /\ defd' = defd \cup ({v} \cap Local)
      /\ killed' = killed \cup {v}
  BY DEF Define
<1>5. Bookkeeping'
  <2>1. v \in Local \/ v \in Global
    BY DEF Var
  <2>2. PhiVars \cap Global = {}
    BY VarAssumption
  <2>3. Idle'
    BY DEF Idle
  <2>4. st'.space \subseteq defd' \cup PhiVars \cup Global
    BY <1>3, <1>4, <2>1 DEF IndInv, Bookkeeping
  <2>5. live_out' \subseteq avail'
    BY <2>1, VarAssumption DEF IndInv, Bookkeeping, Define
  <2>. QED
    BY <1>4, <2>1, <2>2, <2>3, <2>4, <2>5 DEF IndInv, Bookkeeping, Idle
<1>6. AliveSet' \subseteq AliveSet \cup {v}
  BY <1>1, DefineAlive
<1>7. AliveSet \cup {v} \subseteq (avail \cup Global)'
  BY <1>3, <1>4 DEF Var
<1>8. Resident' \subseteq S
  BY <1>4 DEF Resident
<1>9. Idle'
  BY DEF Idle
<1>. QED
  BY <1>2, <1>4, <1>5, <1>6, <1>7, <1>8, <1>9, Establish

\* Between two helpers of one instruction, outside calls; R are the registers
\* of the operands prepared so far.
Ready(s, R) ==
    /\ IndInv /\ Idle /\ pending = {} /\ blk > 0
    /\ Good(s, AliveSet, killed, AliveSet, Resident)
    /\ Exact(s, AliveSet)
    /\ s.space \subseteq st.space \cup AliveSet
    /\ R \subseteq Reg /\ \A r \in R : s.REGS[r].var # None

\* After the instruction that defines v.
Done(n, v) ==
    /\ Good(n, AliveSet \cup {v}, killed \cup {v}, AliveSet \cup {v}, Resident)
    /\ Exact(n, AliveSet \cup {v})
    /\ n.space \subseteq st.space \cup AliveSet \cup {v}

\* Before an instruction: what it may read is alive, what it defines is new.
LEMMA Start ==
    ASSUME IndInv, Idle, pending = {}, blk > 0
    PROVE  Ready(refresh(st), {})
<1>1. /\ Good(refresh(st), AliveSet, killed, AliveSet \cup pending, Resident)
      /\ Exact(refresh(st), AliveSet)
      /\ refresh(st).space = st.space
  BY RefreshGood
<1>2. AliveSet \cup pending = AliveSet
  OBVIOUS
<1>. QED
  BY <1>1, <1>2 DEF Ready

LEMMA ReadyTypes ==
    ASSUME NEW s, NEW R, Ready(s, R)
    PROVE  /\ AliveSet \subseteq Var /\ Resident \subseteq Var
           /\ s \in StateType
           /\ \A a : CanUse(a) => a \in AliveSet
           /\ \A v : CanDef(v) => /\ v \in Local /\ v \in Var
                                  /\ v \notin AliveSet /\ v \notin st.space
<1>1. AliveSet \subseteq Var /\ Resident \subseteq Var /\ s \in StateType
  BY RefreshGood DEF Ready, Good
<1>2. \A a : CanUse(a) => a \in AliveSet
  BY DEF CanUse, CanUseAt, AliveSet
<1>3. \A v : CanDef(v) => /\ v \in Local /\ v \in Var
                          /\ v \notin AliveSet /\ v \notin st.space
  BY VarAssumption DEF CanDef, AliveSet, Ready, IndInv, Bookkeeping, Var
<1>. QED
  BY <1>1, <1>2, <1>3

\* An operand.
LEMMA OperandReady ==
    ASSUME NEW s, NEW R, Ready(s, R), NEW a, CanUse(a),
           NEW p \in prepare_operand(s, a, R)
    PROVE  /\ p.reg \in Reg /\ p.st.reg[p.reg] = a
           /\ Ready(p.st, R \cup {p.reg})
           /\ p.st.REGS[p.reg].var = a
           /\ Holding(s, a) = {} => ~p.st.REGS[p.reg].polluted
<1>1. AliveSet \subseteq Var /\ Resident \subseteq Var /\ a \in AliveSet
  BY ReadyTypes
<1>2. /\ Good(s, AliveSet, killed, AliveSet, Resident) /\ Exact(s, AliveSet)
      /\ R \subseteq Reg /\ \A r \in R : s.REGS[r].var # None
      /\ s.space \subseteq st.space \cup AliveSet
  BY DEF Ready
<1>3. /\ p.reg \in Reg
      /\ Good(p.st, AliveSet, killed, AliveSet, Resident)
      /\ p.st.REGS[p.reg].var = a /\ p.st.reg[p.reg] = a
      /\ \A r \in R : p.st.REGS[r] = s.REGS[r]
      /\ Exact(p.st, AliveSet)
      /\ Holding(s, a) = {} => ~p.st.REGS[p.reg].polluted
      /\ p.st.space \subseteq s.space \cup AliveSet
  BY <1>1, <1>2, OperandGood
<1>4. a # None
  BY <1>1, NoneNotVar
<1>5. Ready(p.st, R \cup {p.reg})
  BY <1>2, <1>3, <1>4 DEF Ready
<1>. QED
  BY <1>3, <1>5

LEMMA OperandReg ==
    ASSUME NEW s, NEW R, Ready(s, R), NEW a, CanUse(a),
           NEW p \in prepare_operand(s, a, R)
    PROVE  p.st.reg[p.reg] = a
<1>1. AliveSet \subseteq Var /\ Resident \subseteq Var /\ a \in AliveSet
  BY ReadyTypes
<1>2. /\ Good(s, AliveSet, killed, AliveSet, Resident) /\ Exact(s, AliveSet)
      /\ R \subseteq Reg /\ \A q \in R : s.REGS[q].var # None
  BY DEF Ready
<1>. QED
  BY <1>1, <1>2, OperandGood

\* The first operand of an instruction ...
LEMMA FirstOperand ==
    ASSUME NEW s, Ready(s, {}), NEW a, CanUse(a),
           NEW p \in prepare_operand(s, a, {})
    PROVE  /\ p.reg \in Reg /\ p.st.reg[p.reg] = a /\ Ready(p.st, {p.reg})
           /\ p.st.REGS[p.reg].var = a
           /\ Holding(s, a) = {} => ~p.st.REGS[p.reg].polluted
<1>1. {} \cup {p.reg} = {p.reg}
  OBVIOUS
<1>2. Ready(p.st, {} \cup {p.reg})
  BY OperandReady
<1>. QED
  BY <1>1, <1>2, OperandReady

\* ... and the second.
LEMMA SecondOperand ==
    ASSUME NEW s, NEW r, Ready(s, {r}), NEW a, CanUse(a),
           NEW p \in prepare_operand(s, a, {r})
    PROVE  p.st.reg[p.reg] = a /\ Ready(p.st, {r, p.reg})
<1>1. {r} \cup {p.reg} = {r, p.reg}
  OBVIOUS
<1>2. Ready(p.st, {r} \cup {p.reg})
  BY OperandReady
<1>. QED
  BY <1>1, <1>2, OperandReady

LEMMA OperandKeeps ==
    ASSUME NEW s, NEW R, Ready(s, R), NEW a, CanUse(a),
           NEW p \in prepare_operand(s, a, R), NEW r \in R
    PROVE  p.st.reg[r] = s.reg[r]
<1>1. AliveSet \subseteq Var /\ Resident \subseteq Var /\ a \in AliveSet
  BY ReadyTypes
<1>2. /\ Good(s, AliveSet, killed, AliveSet, Resident) /\ Exact(s, AliveSet)
      /\ R \subseteq Reg /\ \A q \in R : s.REGS[q].var # None
  BY DEF Ready
<1>. QED
  BY <1>1, <1>2, OperandGood

\* The destination, when it is a local defined here.
LEMMA DestReady ==
    ASSUME NEW s, NEW R, Ready(s, R), NEW v, CanDef(v),
           NEW d \in prepare_dest(s, v, R)
    PROVE  /\ Done(Computed(d.st, v, d.reg), v)
           /\ d.st.reg = s.reg
           /\ Stale(d.st, exposed \cup Global) = {}
<1>. DEFINE n == Computed(d.st, v, d.reg)
<1>1. /\ AliveSet \subseteq Var /\ Resident \subseteq Var
      /\ v \in Local /\ v \notin AliveSet /\ v \notin st.space
  BY ReadyTypes
<1>2. DestPre(s, AliveSet, killed, AliveSet, Resident, v, R)
  BY <1>1 DEF DestPre, Ready
<1>3. /\ d.reg \in Reg /\ d.st.reg = s.reg
      /\ Good(n, AliveSet \cup {v}, killed \cup {v}, AliveSet \cup {v}, Resident)
      /\ Exact(n, AliveSet \cup {v})
  BY <1>2, DestGood
<1>4. n.mem = d.st.mem /\ n.space = d.st.space
  BY DEF Computed
<1>5. d.st.space \subseteq s.space \cup AliveSet
  BY <1>1, DestSpace DEF Ready
<1>. HIDE DEF n
<1>6. Stale(d.st, exposed \cup Global) = {}
  BY <1>3, <1>4 DEF Stale, Good, InMemory, Resident, SavedIn
<1>7. Done(n, v)
  BY <1>3, <1>4, <1>5 DEF Done, Ready
<1>. QED
  BY <1>3, <1>6, <1>7 DEF n

\* The destination of an assignment, a local or a global.
LEMMA MovedReady ==
    ASSUME NEW s, NEW R, Ready(s, R), NEW v \in Var, CanDef(v) \/ v \in Global,
           \A r \in R : s.REGS[r].var # v,
           NEW d \in prepare_dest(s, v, R)
    PROVE  /\ Done(Written(Computed(d.st, v, d.reg), v, d.reg), v)
           /\ d.st.reg = s.reg
<1>. DEFINE n == Written(Computed(d.st, v, d.reg), v, d.reg)
<1>1. CASE v \in Global
  <2>1. GlobalPre(s, AliveSet, killed, AliveSet, Resident, v, R)
    BY <1>1, ReadyTypes DEF GlobalPre, Resident, Ready
  <2>2. /\ Good(n, AliveSet \cup {v}, killed \cup {v}, AliveSet \cup {v}, Resident)
        /\ Exact(n, AliveSet \cup {v})
    BY <2>1, GlobalDestGood
  <2>6. d.st.reg = s.reg
    BY ReadyTypes, DestReg
  <2>3. n.space = d.st.space
    BY DEF Written, Computed
  <2>4. d.st.space \subseteq s.space \cup AliveSet
    BY ReadyTypes, DestSpace DEF Ready
  <2>. HIDE DEF n
  <2>5. Done(n, v)
    BY <2>2, <2>3, <2>4 DEF Done, Ready
  <2>. QED
    BY <2>5, <2>6 DEF n
<1>2. CASE v \notin Global
  <2>1. n = Computed(d.st, v, d.reg)
    BY <1>2 DEF Written
  <2>2. CanDef(v)
    BY <1>2
  <2>. QED
    BY <2>1, <2>2, DestReady
<1>. QED
  BY <1>1, <1>2

\* The step that stores n, where only v is new.
LEMMA PlainStep ==
    ASSUME NEW s, NEW R, Ready(s, R),
           NEW v \in Var, CanDef(v) \/ v \in Global,
           Define(v), Straight, NEW n, Done(n, v),
           NEW miss, Step(n, miss), miss \subseteq Var \cup {RetVal}
    PROVE  IndInv'
<1>1. /\ st' = n /\ idx' = idx + 1 /\ UNCHANGED <<blk, pending, call>>
      /\ ret' \in BOOLEAN /\ misread' = miss
      /\ is_const' = is_const /\ exposed' = exposed
  BY DEF Step, Straight
<1>2. IndInv /\ Idle /\ pending = {} /\ blk > 0
  BY DEF Ready
<1>3. is_const \subseteq ConstVars /\ exposed \subseteq AddrVars
  BY <1>2 DEF IndInv, TypeOK
<1>4. exposed \subseteq Resident /\ exposed \subseteq defd \cup PhiVars
  BY <1>2 DEF Resident, IndInv, Bookkeeping
<1>. QED
  BY <1>1, <1>2, <1>3, <1>4, DefStep DEF CanDef, Define, Done

\* LoadImmediate, GlobalAddressOf and FuncRet have no operand to look for.
LEMMA LoadImmediateInv ==
    ASSUME IndInv, NEW v \in Var, LoadImmediate(v) PROVE IndInv' /\ OperandsFound'
<1>1. /\ Idle /\ pending = {} /\ blk > 0 /\ (CanDef(v) \/ v \in Global)
      /\ Define(v) /\ Straight
  BY DEF LoadImmediate, InBlock
<1>2. PICK d \in prepare_dest(refresh(st), v, {}) :
          Step(Written(Computed(d.st, v, d.reg), v, d.reg), {})
  BY DEF LoadImmediate
<1>3. Ready(refresh(st), {})
  BY <1>1, Start
<1>4. Done(Written(Computed(d.st, v, d.reg), v, d.reg), v)
  BY <1>1, <1>3, MovedReady
<1>. QED
  BY <1>1, <1>2, <1>3, <1>4, PlainStep DEF Step, OperandsFound

LEMMA GlobalAddressOfInv ==
    ASSUME IndInv, NEW v \in Var, NEW g, GlobalAddressOf(v, g)
    PROVE  IndInv' /\ OperandsFound'
<1>1. /\ Idle /\ pending = {} /\ blk > 0 /\ CanDef(v) /\ Define(v) /\ Straight
  BY DEF GlobalAddressOf, InBlock, Plain
<1>2. PICK d \in prepare_dest(refresh(st), v, {}) :
          Step(Computed(d.st, v, d.reg), {})
  BY DEF GlobalAddressOf
<1>3. Ready(refresh(st), {})
  BY <1>1, Start
<1>4. Done(Computed(d.st, v, d.reg), v)
  BY <1>1, <1>3, DestReady
<1>. QED
  BY <1>1, <1>2, <1>3, <1>4, PlainStep DEF Step, OperandsFound

LEMMA FuncRetInv ==
    ASSUME IndInv, NEW v \in Var, FuncRet(v) PROVE IndInv'
<1>1. /\ Idle /\ pending = {} /\ blk > 0 /\ CanDef(v) /\ Define(v) /\ Straight
  BY DEF FuncRet, Plain, IndInv, Bookkeeping
<1>. DEFINE M(s) == IF s.reg[0] = RetVal THEN {} ELSE {RetVal}
<1>2. PICK d \in prepare_dest(refresh(st), v, {}) :
          Step(Computed(d.st, v, d.reg), M(d.st))
  BY DEF FuncRet
<1>3. Ready(refresh(st), {})
  BY <1>1, Start
<1>4. Done(Computed(d.st, v, d.reg), v)
  BY <1>1, <1>3, DestReady
<1>5. M(d.st) \subseteq Var \cup {RetVal}
  OBVIOUS
<1>. QED
  BY <1>1, <1>2, <1>3, <1>4, <1>5, PlainStep

LEMMA UnaryInv ==
    ASSUME IndInv, NEW v \in Var, NEW a, Unary(v, a)
    PROVE  IndInv' /\ OperandsFound'
<1>1. /\ Idle /\ pending = {} /\ blk > 0 /\ CanUse(a) /\ CanDef(v)
      /\ Define(v) /\ Straight
  BY DEF Unary, InBlock, Plain
<1>2. PICK p \in prepare_operand(refresh(st), a, {}) :
        \E d \in prepare_dest(p.st, v, {p.reg}) :
          Step(Computed(d.st, v, d.reg), Missing(d.st, a, p.reg))
  BY DEF Unary
<1>3. PICK d \in prepare_dest(p.st, v, {p.reg}) :
          Step(Computed(d.st, v, d.reg), Missing(d.st, a, p.reg))
  BY <1>2
<1>4. Ready(refresh(st), {})
  BY <1>1, Start
<1>5. Ready(p.st, {p.reg}) /\ p.st.reg[p.reg] = a
  BY <1>1, <1>4, FirstOperand
<1>6. Done(Computed(d.st, v, d.reg), v) /\ d.st.reg = p.st.reg
  BY <1>1, <1>5, DestReady
<1>7. Missing(d.st, a, p.reg) = {}
  BY <1>5, <1>6 DEF Missing
<1>. QED
  BY <1>1, <1>3, <1>5, <1>6, <1>7, PlainStep DEF Step, OperandsFound

LEMMA ReadInv ==
    ASSUME IndInv, NEW v \in Var, NEW a, Read(v, a)
    PROVE  IndInv' /\ OperandsFound'
<1>1. /\ Idle /\ pending = {} /\ blk > 0 /\ CanUse(a) /\ CanDef(v)
      /\ Define(v) /\ Straight
  BY DEF Read, InBlock, Plain
<1>. DEFINE M(s, r) == Missing(s, a, r) \cup Stale(s, exposed \cup Global)
<1>2. PICK p \in prepare_operand(refresh(st), a, {}) :
        \E d \in prepare_dest(p.st, v, {p.reg}) :
          Step(Computed(d.st, v, d.reg), M(d.st, p.reg))
  BY DEF Read
<1>3. PICK d \in prepare_dest(p.st, v, {p.reg}) :
          Step(Computed(d.st, v, d.reg), M(d.st, p.reg))
  BY <1>2
<1>4. Ready(refresh(st), {})
  BY <1>1, Start
<1>5. Ready(p.st, {p.reg}) /\ p.st.reg[p.reg] = a
  BY <1>1, <1>4, FirstOperand
<1>6. /\ Done(Computed(d.st, v, d.reg), v) /\ d.st.reg = p.st.reg
      /\ Stale(d.st, exposed \cup Global) = {}
  BY <1>1, <1>5, DestReady
<1>7. M(d.st, p.reg) = {}
  BY <1>5, <1>6 DEF Missing
<1>. QED
  BY <1>1, <1>3, <1>5, <1>6, <1>7, PlainStep DEF Step, OperandsFound

LEMMA BinaryInv ==
    ASSUME IndInv, NEW v \in Var, NEW a, NEW b, Binary(v, a, b)
    PROVE  IndInv' /\ OperandsFound'
<1>1. /\ Idle /\ pending = {} /\ blk > 0 /\ CanUse(a) /\ CanUse(b)
      /\ CanDef(v) /\ Define(v) /\ Straight
  BY DEF Binary, InBlock, Plain
<1>. DEFINE M(s, r, q) == Missing(s, a, r) \cup Missing(s, b, q)
<1>2. PICK p0 \in prepare_operand(refresh(st), a, {}) :
        \E p1 \in prepare_operand(p0.st, b, {p0.reg}) :
        \E d \in prepare_dest(p1.st, v, {p0.reg, p1.reg}) :
          Step(Computed(d.st, v, d.reg), M(d.st, p0.reg, p1.reg))
  BY DEF Binary
<1>3. PICK p1 \in prepare_operand(p0.st, b, {p0.reg}) :
        \E d \in prepare_dest(p1.st, v, {p0.reg, p1.reg}) :
          Step(Computed(d.st, v, d.reg), M(d.st, p0.reg, p1.reg))
  BY <1>2
<1>4. PICK d \in prepare_dest(p1.st, v, {p0.reg, p1.reg}) :
          Step(Computed(d.st, v, d.reg), M(d.st, p0.reg, p1.reg))
  BY <1>3
<1>5. Ready(refresh(st), {})
  BY <1>1, Start
<1>6. Ready(p0.st, {p0.reg}) /\ p0.st.reg[p0.reg] = a
  BY <1>1, <1>5, FirstOperand
<1>7. Ready(p1.st, {p0.reg, p1.reg}) /\ p1.st.reg[p1.reg] = b
  <2>1. Ready(p0.st, {p0.reg}) /\ CanUse(b)
    BY <1>1, <1>6
  <2>2. Ready(p1.st, {p0.reg, p1.reg})
    BY <2>1, SecondOperand
  <2>3. p1.st.reg[p1.reg] = b
    BY <2>1, OperandReg
  <2>. QED
    BY <2>2, <2>3
<1>8. p1.st.reg[p0.reg] = a
  BY <1>1, <1>6, OperandKeeps
<1>9. Done(Computed(d.st, v, d.reg), v) /\ d.st.reg = p1.st.reg
  BY <1>1, <1>7, DestReady
<1>10. M(d.st, p0.reg, p1.reg) = {}
  BY <1>7, <1>8, <1>9 DEF Missing
<1>. QED
  BY <1>1, <1>4, <1>7, <1>9, <1>10, PlainStep DEF Step, OperandsFound

\* An operand that was loaded is clean, so that its register can be dropped.
LEMMA AssignInv ==
    ASSUME IndInv, NEW v \in Var, NEW a, Assign(v, a)
    PROVE  IndInv' /\ OperandsFound'
<1>1. /\ Idle /\ pending = {} /\ blk > 0 /\ CanUse(a)
      /\ CanDef(v) \/ v \in Global
      /\ a # v /\ Define(v) /\ Straight
  BY DEF Assign, InBlock, Plain
<1>. DEFINE s == refresh(st)
            found == Holding(s, a) # {}
            src == IF found THEN {[reg |-> Least(Holding(s, a)), st |-> s]}
                            ELSE prepare_operand(s, a, {})
            moved(d) == Written(Computed(d.st, v, d.reg), v, d.reg)
<1>2. PICK p \in src : \E d \in prepare_dest(p.st, v, {p.reg}) :
        Step(IF found THEN moved(d) ELSE Drop(moved(d), {p.reg}),
             Missing(d.st, a, p.reg))
  BY DEF Assign
<1>3. PICK d \in prepare_dest(p.st, v, {p.reg}) :
        Step(IF found THEN moved(d) ELSE Drop(moved(d), {p.reg}),
             Missing(d.st, a, p.reg))
  BY <1>2
<1>4. Ready(s, {})
  BY <1>1, Start
<1>5. a \in AliveSet /\ s \in StateType /\ AliveSet \subseteq Var
  BY <1>1, <1>4, ReadyTypes
<1>. HIDE DEF s
<1>6. /\ p.reg \in Reg /\ p.st.reg[p.reg] = a /\ Ready(p.st, {p.reg})
      /\ p.st.REGS[p.reg].var = a
      /\ ~found => ~p.st.REGS[p.reg].polluted
  <2>1. CASE found
    <3>1. p = [reg |-> Least(Holding(s, a)), st |-> s]
      BY <2>1
    <3>2. Least(Holding(s, a)) \in Reg /\ s.REGS[Least(Holding(s, a))].var = a
      BY <2>1, LeastIn DEF Holding
    <3>3. s.reg[Least(Holding(s, a))] = a
      BY <1>4, <1>5, <3>2 DEF Ready, Good, Truthful
    <3>4. Ready(s, {Least(Holding(s, a))})
      BY <1>4, <1>5, <3>2, NoneNotVar DEF Ready
    <3>. QED
      BY <2>1, <3>1, <3>2, <3>3, <3>4
  <2>2. CASE ~found
    BY <1>1, <1>4, <2>2, FirstOperand
  <2>. QED
    BY <2>1, <2>2
<1>. HIDE DEF found
<1>7. \A r \in {p.reg} : p.st.REGS[r].var # v
  BY <1>1, <1>6
<1>8. Done(moved(d), v) /\ d.st.reg = p.st.reg
  BY <1>1, <1>6, <1>7, MovedReady
<1>9. Missing(d.st, a, p.reg) = {}
  BY <1>6, <1>8 DEF Missing
<1>10. CASE found
  <2>1. Step(moved(d), {})
    BY <1>3, <1>9, <1>10
  <2>. QED
    BY <1>1, <1>6, <1>8, <2>1, PlainStep DEF Step, OperandsFound
<1>11. CASE ~found
  <2>1. Step(Drop(moved(d), {p.reg}), {})
    BY <1>3, <1>9, <1>11
  <2>2. moved(d).REGS[p.reg] = p.st.REGS[p.reg]
    BY <1>6, <1>7, ReadyTypes, NoneNotVar, DestAvoid, <1>5
  <2>. HIDE DEF moved
  <2>3. SavedIn(moved(d), a) /\ moved(d) \in StateType
    BY <1>5, <1>6, <1>8, <1>11, <2>2 DEF Done, Good, CleanSaved
  <2>4. /\ AliveSet \cup {v} \subseteq Var /\ Resident \subseteq Var
        /\ {p.reg} \subseteq Reg
        /\ \A i \in {p.reg} : moved(d).REGS[i].var \in AliveSet \cup {v} =>
                                SavedIn(moved(d), moved(d).REGS[i].var)
    BY <1>5, <1>4, <1>6, <2>2, <2>3, ReadyTypes
  <2>5. Drop(moved(d), {p.reg}).space = moved(d).space
    BY <2>3, <2>4, DropType
  <2>6. Done(Drop(moved(d), {p.reg}), v)
    BY <1>8, <2>4, <2>5, DropGood DEF Done
  <2>. QED
    BY <1>1, <1>6, <2>1, <2>6, PlainStep DEF Step, OperandsFound
<1>. QED
  BY <1>10, <1>11

\* A step that defines nothing.
LEMMA KeepStep ==
    ASSUME NEW n, NEW miss, Ready(n, {}), Step(n, miss),
           NoDefine, UNCHANGED consumed, Straight,
           miss \subseteq Var \cup {RetVal}
    PROVE  IndInv'
<1>1. /\ st' = n /\ idx' = idx + 1 /\ blk' = blk /\ pending' = pending
      /\ call' = call /\ ret' = FALSE /\ misread' = miss
      /\ is_const' = is_const /\ exposed' = exposed /\ consumed' = consumed
      /\ avail' = avail /\ defd' = defd /\ killed' = killed
      /\ live_out' = live_out
  BY DEF Step, Straight, NoDefine
<1>2. /\ IndInv /\ Idle /\ pending = {} /\ blk > 0
      /\ Good(n, AliveSet, killed, AliveSet, Resident)
      /\ Exact(n, AliveSet) /\ n.space \subseteq st.space \cup AliveSet
  BY DEF Ready
<1>3. n \in StateType
  BY <1>2 DEF Good
<1>4. TypeOK'
  <2>1. ret' \in BOOLEAN /\ misread' \subseteq Var \cup {RetVal}
    BY <1>1
  <2>2. TypeOK /\ st' \in StateType
    BY <1>1, <1>2, <1>3 DEF IndInv
  <2>3. idx' \in Nat
    BY <1>1, <2>2 DEF TypeOK
  <2>. QED
    BY <1>1, <2>1, <2>2, <2>3 DEF TypeOK
<1>5. AliveSet' \subseteq AliveSet
  <2>. SUFFICES ASSUME NEW w \in AliveSet' PROVE w \in AliveSet
    OBVIOUS
  <2>1. /\ w \in (avail \cup Global) \ pending
        /\ w \in live_out \/ consumed[w] >= idx + 1
    BY <1>1 DEF AliveSet
  <2>2. consumed[w] \in Int /\ idx \in Int
    BY <1>2, <2>1 DEF IndInv, TypeOK, Var
  <2>. QED
    BY <2>1, <2>2 DEF AliveSet
<1>6. AliveSet \subseteq avail \cup Global
  BY DEF AliveSet
<1>7. Idle'
  BY <1>1, <1>2 DEF Idle
<1>8. n.space \subseteq defd \cup PhiVars \cup Global
  BY <1>2, <1>6 DEF IndInv, Bookkeeping
<1>9. Bookkeeping'
  BY <1>1, <1>2, <1>7, <1>8 DEF IndInv, Bookkeeping
<1>10. Resident' = Resident
  BY <1>1 DEF Resident
<1>. QED
  BY <1>1, <1>2, <1>4, <1>5, <1>6, <1>7, <1>9, <1>10, Establish

LEMMA AllocatScalarInv ==
    ASSUME IndInv, NEW v \in Var, AllocatScalar(v) PROVE IndInv' /\ OperandsFound'
<1>1. /\ Idle /\ pending = {} /\ blk > 0 /\ Step(refresh(st), {})
      /\ NoDefine /\ UNCHANGED consumed /\ Straight
  BY DEF AllocatScalar, InBlock
<1>2. Ready(refresh(st), {})
  BY <1>1, Start
<1>3. IndInv'
  BY <1>1, <1>2, KeepStep
<1>. QED
  BY <1>1, <1>3 DEF Step, OperandsFound

\* A variable nothing reads needs no register.
LEMMA AssignDeadInv ==
    ASSUME IndInv, NEW v \in Var, NEW a, AssignDead(v, a)
    PROVE  IndInv' /\ OperandsFound'
<1>1. /\ Idle /\ pending = {} /\ blk > 0 /\ Step(refresh(st), {})
      /\ Define(v) /\ consumed'[v] = -1 /\ Straight /\ CanDef(v)
  BY DEF AssignDead, InBlock, Plain
<1>2. Ready(refresh(st), {})
  BY <1>1, Start
<1>3. /\ Good(refresh(st), AliveSet, killed, AliveSet, Resident)
      /\ Exact(refresh(st), AliveSet)
      /\ refresh(st).space \subseteq st.space \cup AliveSet
  BY <1>2 DEF Ready
<1>4. /\ st' = refresh(st) /\ idx' = idx + 1 /\ blk' = blk
      /\ pending' = pending /\ call' = call /\ ret' = FALSE /\ misread' = {}
      /\ is_const' = is_const /\ exposed' = exposed
      /\ avail' = avail \cup {v} /\ defd' = defd \cup {v}
      /\ killed' = killed \cup {v} /\ v \in Local
  BY <1>1 DEF Step, Straight, Define, CanDef
<1>5. live_out' = live_out
  <2>1. \A c \in 0..(MaxIdx + 1) : c # -1
    BY BoundAssumption
  <2>2. consumed \in [Var -> Int]
    BY DEF IndInv, TypeOK
  <2>. QED
    BY <1>1, <1>4, <2>1, <2>2, VarAssumption DEF Define
<1>6. TypeOK
  BY DEF IndInv
<1>7. /\ AliveSet' \subseteq AliveSet \cup {v}
      /\ avail' \subseteq Local /\ defd' \subseteq Local
      /\ killed' \subseteq Var /\ live_out' \subseteq Local
      /\ consumed' \in [Var -> Int]
  BY <1>1, <1>4, <1>6, DefineAlive
<1>8. v \notin live_out' /\ ~(consumed'[v] >= idx')
  BY <1>1, <1>4, <1>5, <1>6 DEF IndInv, Bookkeeping, TypeOK, CanDef
<1>9. AliveSet' \subseteq AliveSet
  BY <1>7, <1>8 DEF AliveSet
<1>10. AliveSet \subseteq avail \cup Global
  BY DEF AliveSet
<1>11. refresh(st) \in StateType
  BY <1>3 DEF Good
<1>12. TypeOK'
  <2>1. ret' \in BOOLEAN /\ misread' \subseteq Var \cup {RetVal}
    BY <1>4
  <2>2. st' \in StateType /\ idx' \in Nat
    BY <1>4, <1>6, <1>11 DEF TypeOK
  <2>. QED
    BY <1>4, <1>6, <1>7, <2>1, <2>2 DEF TypeOK
<1>13. Idle'
  BY <1>1, <1>4 DEF Idle
<1>14. refresh(st).space \subseteq defd \cup PhiVars \cup Global
  BY <1>3, <1>10 DEF IndInv, Bookkeeping
<1>15. Bookkeeping'
  BY <1>1, <1>4, <1>5, <1>13, <1>14 DEF IndInv, Bookkeeping, CanDef
<1>16. Resident' \subseteq Resident
  BY <1>4 DEF Resident
<1>17. IndInv'
  BY <1>3, <1>4, <1>9, <1>10, <1>12, <1>13, <1>15, <1>16, Establish
<1>. QED
  BY <1>4, <1>17 DEF OperandsFound

\* The slot of an aggregate is reserved before its base is computed.
LEMMA AllocatAggregateInv ==
    ASSUME IndInv, NEW v \in Var, NEW array \in BOOLEAN,
           AllocatAggregate(v, array)
    PROVE  IndInv' /\ OperandsFound'
<1>1. /\ Idle /\ pending = {} /\ blk > 0 /\ CanDef(v) /\ v \notin AddrVars
      /\ Define(v) /\ Straight
  BY DEF AllocatAggregate, InBlock, Plain
<1>. DEFINE r == refresh(st)
            s == [r EXCEPT !.space = @ \cup {v}]
            based(d) == Computed(d.st, v, d.reg)
<1>2. PICK d \in prepare_dest(s, v, {}) :
        Step(IF array THEN spill_var(based(d), {d.reg}) ELSE based(d), {})
  BY DEF AllocatAggregate
<1>3. Ready(r, {})
  BY <1>1, Start
<1>4. /\ r \in StateType /\ v \in Local /\ v \notin AliveSet
      /\ AliveSet \subseteq Var /\ Resident \subseteq Var
  BY <1>1, <1>3, ReadyTypes
<1>. HIDE DEF r
<1>5. /\ s \in StateType /\ s.REGS = r.REGS /\ s.reg = r.reg
      /\ s.phys_reg = r.phys_reg /\ s.mem = r.mem
      /\ s.space = r.space \cup {v}
  BY <1>4 DEF StateType
<1>. HIDE DEF s
<1>6. \A w : SavedIn(r, w) => SavedIn(s, w)
  BY <1>5 DEF SavedIn
<1>7. Good(s, AliveSet, killed, AliveSet, Resident) /\ Exact(s, AliveSet)
  BY <1>3, <1>4, <1>5, <1>6 DEF Ready, Good, Exact, Truthful, CleanSaved,
     Present, DirtyKilled, Known, InMemory, Slots
<1>8. DestPre(s, AliveSet, killed, AliveSet, Resident, v, {})
  BY <1>1, <1>4, <1>7 DEF DestPre
<1>9. /\ d.reg \in Reg
      /\ Good(based(d), AliveSet \cup {v}, killed \cup {v}, AliveSet \cup {v},
              Resident)
      /\ Exact(based(d), AliveSet \cup {v})
  BY <1>8, DestGood
<1>10. based(d).space = d.st.space
  BY DEF Computed
<1>11. d.st.space \subseteq s.space \cup AliveSet
  BY <1>4, <1>7, DestSpace
<1>. HIDE DEF based
<1>12. Done(based(d), v)
  BY <1>3, <1>5, <1>9, <1>10, <1>11 DEF Done, Ready
<1>13. Done(spill_var(based(d), {d.reg}), v)
  <2>1. AliveSet \cup {v} \subseteq Var /\ {d.reg} \subseteq Reg
    BY <1>4, <1>9
  <2>2. /\ Good(spill_var(based(d), {d.reg}), AliveSet \cup {v},
                killed \cup {v}, AliveSet \cup {v}, Resident)
        /\ Exact(spill_var(based(d), {d.reg}), AliveSet \cup {v})
        /\ spill_var(based(d), {d.reg}).space
             \subseteq based(d).space \cup (AliveSet \cup {v})
    BY <1>4, <1>9, <2>1, SpillGood
  <2>. QED
    BY <1>12, <2>2 DEF Done
<1>14. PICK n : Step(n, {}) /\ Done(n, v)
  BY <1>2, <1>12, <1>13
<1>15. IndInv'
  BY <1>1, <1>3, <1>14, PlainStep
<1>. QED
  BY <1>14, <1>15 DEF Step, OperandsFound

\* OP_address_of stores the variable, if it has no slot yet, from a register
\* that contains it.
LEMMA OnstackGood ==
    ASSUME NEW s, Ready(s, {}), NEW a \in AddrVars, a \in AliveSet,
           a \notin s.space
    PROVE  /\ Good(Onstack(s, a), AliveSet, killed, AliveSet, Resident \cup {a})
           /\ Exact(Onstack(s, a), AliveSet)
           /\ Onstack(s, a).space = s.space \cup {a}
<1>. DEFINE n == Onstack(s, a)
<1>1. /\ s \in StateType /\ AliveSet \subseteq Var /\ Resident \subseteq Var
      /\ a \in Var /\ None \notin AliveSet
  BY ReadyTypes, NoneNotVar
<1>2. Good(s, AliveSet, killed, AliveSet, Resident) /\ Exact(s, AliveSet)
  BY DEF Ready
<1>3. Holding(s, a) # {}
  BY <1>2 DEF Good, Present, SavedIn, Holding
<1>4. Greatest(Holding(s, a)) \in Holding(s, a)
  BY <1>3, GreatestIn DEF Holding
<1>5. s.reg[Greatest(Holding(s, a))] = a
  BY <1>2, <1>4 DEF Good, Truthful, Holding
<1>6. /\ n \in StateType /\ n.space = s.space \cup {a} /\ n.reg = s.reg
      /\ n.phys_reg = s.phys_reg
      /\ \A i \in Reg : n.REGS[i] = IF s.REGS[i].var = a THEN Empty
                                                         ELSE s.REGS[i]
      /\ \A w \in Var : n.mem[w] = IF w = a THEN a ELSE s.mem[w]
  <2>. DEFINE R == [i \in Reg |-> IF s.REGS[i].var = a THEN Empty ELSE s.REGS[i]]
              m == [s.mem EXCEPT ![a] = a]
  <2>1. n = [s EXCEPT !.space = s.space \cup {a}, !.mem = m, !.REGS = R]
    BY <1>3, <1>5 DEF Onstack
  <2>2. R \in [Reg -> [var : Var \cup {None}, polluted : BOOLEAN]]
    BY <1>1 DEF StateType, Empty
  <2>3. m \in [Var -> Content] /\ \A w \in Var : m[w] = IF w = a THEN a ELSE s.mem[w]
    BY <1>1 DEF StateType, Content
  <2>4. \A i \in Reg : R[i] = IF s.REGS[i].var = a THEN Empty ELSE s.REGS[i]
    OBVIOUS
  <2>. HIDE DEF R, m, n
  <2>5. /\ n.REGS = R /\ n.mem = m /\ n.space = s.space \cup {a}
        /\ n.reg = s.reg /\ n.phys_reg = s.phys_reg
    BY <1>1, <2>1 DEF StateType
  <2>6. n \in StateType
    BY <1>1, <2>1, <2>2, <2>3 DEF StateType
  <2>. QED
    BY <2>3, <2>4, <2>5, <2>6
<1>. HIDE DEF n
<1>7. SavedIn(n, a) /\ \A w \in Var : SavedIn(s, w) => SavedIn(n, w)
  BY <1>1, <1>6 DEF SavedIn
<1>8. Truthful(n, AliveSet) /\ CleanSaved(n, AliveSet)
  BY <1>1, <1>2, <1>6, <1>7 DEF Good, Truthful, CleanSaved, Empty
<1>9. Present(n, AliveSet)
  BY <1>1, <1>2, <1>6, <1>7 DEF Good, Present
<1>10. DirtyKilled(n, killed \cap AliveSet) /\ Known(n, AliveSet)
  BY <1>2, <1>6 DEF Good, DirtyKilled, Known, Empty
<1>11. InMemory(n, Resident \cup {a})
  BY <1>1, <1>2, <1>7 DEF Good, InMemory
<1>12. Slots(n, AliveSet)
  BY <1>1, <1>2, <1>6 DEF Good, Slots
<1>13. Exact(n, AliveSet)
  BY <1>1, <1>2, <1>6 DEF Exact, Empty
<1>. QED
  BY <1>6, <1>8, <1>9, <1>10, <1>11, <1>12, <1>13 DEF Good, n

LEMMA AddressOfInv ==
    ASSUME IndInv, NEW v \in Var, NEW a, AddressOf(v, a)
    PROVE  IndInv' /\ OperandsFound'
<1>1. /\ Idle /\ pending = {} /\ blk > 0 /\ CanUse(a) /\ CanDef(v)
      /\ a \in AddrVars /\ Define(v)
      /\ is_const' = is_const \ {a} /\ exposed' = exposed \cup {a}
      /\ pending' = pending /\ call' = call /\ ret' = FALSE
  BY DEF AddressOf, InBlock, Plain
<1>. DEFINE s == refresh(st)
            n == IF a \in s.space THEN s ELSE Onstack(s, a)
<1>2. PICK d \in prepare_dest(n, v, {}) : Step(Computed(d.st, v, d.reg), {})
  BY DEF AddressOf
<1>3. Ready(s, {})
  BY <1>1, Start
<1>4. /\ a \in AliveSet /\ AliveSet \subseteq Var /\ Resident \subseteq Var
      /\ v \in Local /\ v \notin AliveSet /\ v \notin st.space
  BY <1>1, <1>3, ReadyTypes
<1>. HIDE DEF s
<1>5. /\ Good(n, AliveSet, killed, AliveSet, Resident \cup {a})
      /\ Exact(n, AliveSet)
      /\ n.space \subseteq st.space \cup AliveSet
  <2>1. s.space \subseteq st.space \cup AliveSet
    BY <1>3 DEF Ready
  <2>2. CASE a \in s.space
    <3>1. SavedIn(s, a)
      BY <1>1, <1>3, <1>4, <2>2 DEF Ready, Good, Slots, SavedIn
    <3>2. n = s
      BY <2>2
    <3>. HIDE DEF n
    <3>. QED
      BY <1>3, <2>1, <3>1, <3>2 DEF Ready, Good, InMemory
  <2>3. CASE a \notin s.space
    <3>1. /\ Good(n, AliveSet, killed, AliveSet, Resident \cup {a})
          /\ Exact(n, AliveSet) /\ n.space = s.space \cup {a}
      BY <1>1, <1>3, <1>4, <2>3, OnstackGood
    <3>. HIDE DEF n
    <3>. QED
      BY <1>4, <2>1, <3>1
  <2>. QED
    BY <2>2, <2>3
<1>. HIDE DEF n
<1>6. Resident \cup {a} \subseteq Var
  BY <1>4
<1>7. DestPre(n, AliveSet, killed, AliveSet, Resident \cup {a}, v, {})
  BY <1>4, <1>5, <1>6 DEF DestPre
<1>. DEFINE m == Computed(d.st, v, d.reg)
<1>8. /\ Good(m, AliveSet \cup {v}, killed \cup {v}, AliveSet \cup {v},
              Resident \cup {a})
      /\ Exact(m, AliveSet \cup {v})
  BY <1>7, DestGood
<1>9. m.space = d.st.space
  BY DEF Computed
<1>10. d.st.space \subseteq n.space \cup AliveSet
  BY <1>4, <1>5, <1>6, DestSpace
<1>11. /\ st' = m /\ idx' = idx + 1 /\ blk' = blk /\ misread' = {}
  BY <1>2 DEF Step
<1>. HIDE DEF m
<1>12. st'.space \subseteq st.space \cup AliveSet \cup {v}
  BY <1>5, <1>9, <1>10, <1>11
<1>13. a \in defd \cup PhiVars
  BY <1>1, <1>4, VarAssumption DEF AliveSet, IndInv, Bookkeeping
<1>14. /\ is_const' \subseteq ConstVars
       /\ exposed' \subseteq AddrVars \cap (defd' \cup PhiVars)
       /\ Resident \cup exposed' \subseteq Resident \cup {a}
       /\ misread' \subseteq Var \cup {RetVal} /\ ret' \in BOOLEAN
  BY <1>1, <1>11, <1>13 DEF IndInv, TypeOK, Bookkeeping, Define, Resident
<1>15. v \notin PhiVars
  BY <1>1 DEF CanDef
<1>16. IndInv'
  BY <1>1, <1>8, <1>11, <1>12, <1>14, <1>15, DefStep
<1>. QED
  BY <1>11, <1>16 DEF OperandsFound

\* A store changes only variables that no register is mapped to.
LEMMA StoredGood ==
    ASSUME NEW s, NEW L, NEW K, NEW A, NEW S, L \subseteq Var, S \subseteq Var,
           Good(s, L, K, A, S), Exact(s, L),
           NEW W, W \subseteq Var, W \cap A = {}
    PROVE  /\ Good(Stored(s, W), L, K, A, S) /\ Exact(Stored(s, W), L)
           /\ Stored(s, W).space = s.space
<1>. DEFINE n == Stored(s, W)
<1>1. s \in StateType
  BY DEF Good
<1>2. /\ n \in StateType /\ n.REGS = s.REGS /\ n.space = s.space
      /\ n.phys_reg = s.phys_reg
      /\ \A i \in Reg : n.reg[i] = IF s.reg[i] \in W THEN Junk ELSE s.reg[i]
      /\ \A v \in Var : n.mem[v] = IF v \in W THEN v ELSE s.mem[v]
  BY <1>1 DEF Stored, StateType, Content
<1>3. \A v \in Var : SavedIn(s, v) => SavedIn(n, v)
  BY <1>2 DEF SavedIn
<1>. HIDE DEF n
<1>4. Truthful(n, L)
  <2>. SUFFICES ASSUME NEW i \in Reg, s.REGS[i].var \in L
                PROVE  n.reg[i] = s.REGS[i].var
    BY <1>2 DEF Truthful
  <2>1. s.reg[i] = s.REGS[i].var /\ s.REGS[i].var \in A
    BY NoneNotVar DEF Good, Truthful, Known
  <2>. QED
    BY <1>2, <2>1
<1>5. CleanSaved(n, L) /\ Present(n, L)
  BY <1>2, <1>3 DEF Good, CleanSaved, Present
<1>6. DirtyKilled(n, K \cap L) /\ Known(n, A) /\ InMemory(n, S)
  BY <1>2, <1>3 DEF Good, DirtyKilled, Known, InMemory
<1>7. Slots(n, L) /\ Exact(n, L)
  BY <1>2 DEF Good, Slots, Exact
<1>. QED
  BY <1>2, <1>4, <1>5, <1>6, <1>7 DEF Good, n

LEMMA StoredReady ==
    ASSUME NEW s, NEW R, Ready(s, R), NEW A, Known(s, A), A \subseteq AliveSet,
           NEW W, W \subseteq Var, W \cap A = {}
    PROVE  Ready(Stored(s, W), {})
<1>1. AliveSet \subseteq Var /\ Resident \subseteq Var
  BY ReadyTypes
<1>2. Good(s, AliveSet, killed, A, Resident) /\ Exact(s, AliveSet)
  BY DEF Ready, Good
<1>3. /\ Good(Stored(s, W), AliveSet, killed, A, Resident)
      /\ Exact(Stored(s, W), AliveSet) /\ Stored(s, W).space = s.space
  BY <1>1, <1>2, StoredGood
<1>4. Good(Stored(s, W), AliveSet, killed, AliveSet, Resident)
  BY <1>3 DEF Good, Known
<1>. QED
  BY <1>3, <1>4 DEF Ready

\* prepare_operand() maps no register to a variable other than its operand.
LEMMA OperandKnown ==
    ASSUME NEW s, NEW R, Ready(s, R), NEW a, CanUse(a),
           NEW A, Known(s, A), a \in A, NEW p \in prepare_operand(s, a, R)
    PROVE  Known(p.st, A)
<1>1. AliveSet \subseteq Var /\ Resident \subseteq Var /\ a \in AliveSet
  BY ReadyTypes
<1>2. /\ Good(s, AliveSet, killed, A, Resident) /\ Exact(s, AliveSet)
      /\ R \subseteq Reg /\ \A r \in R : s.REGS[r].var # None
  BY DEF Ready, Good
<1>3. Good(p.st, AliveSet, killed, A, Resident)
  BY <1>1, <1>2, OperandGood
<1>. QED
  BY <1>3 DEF Good

LEMMA WriteFuncInv ==
    ASSUME IndInv, Safe, NEW a \in Var, WriteFunc(a)
    PROVE  IndInv' /\ OperandsFound'
<1>1. /\ Idle /\ pending = {} /\ blk > 0 /\ CanUse(a)
      /\ NoDefine /\ UNCHANGED consumed /\ Straight
  BY DEF WriteFunc, InBlock
<1>2. PICK p \in prepare_operand(refresh(st), a, {}) :
        Step(Stored(p.st, {}), Missing(p.st, a, p.reg))
  BY DEF WriteFunc, Safe
<1>3. Ready(refresh(st), {})
  BY <1>1, Start
<1>4. Ready(p.st, {p.reg}) /\ p.st.reg[p.reg] = a
  BY <1>1, <1>3, FirstOperand
<1>5. Missing(p.st, a, p.reg) = {}
  BY <1>4 DEF Missing
<1>6. Known(p.st, AliveSet)
  BY <1>4 DEF Ready, Good
<1>7. Ready(Stored(p.st, {}), {})
  BY <1>4, <1>6, StoredReady
<1>8. IndInv'
  BY <1>1, <1>2, <1>5, <1>7, KeepStep
<1>. QED
  BY <1>2, <1>5, <1>8 DEF Step, OperandsFound

\* Before a store through a pointer no register is mapped to a local, so that
\* the exposed variables it changes are in memory only.
LEMMA WriteInv ==
    ASSUME IndInv, Safe, NEW a \in Var, NEW b \in Var, Write(a, b)
    PROVE  IndInv' /\ OperandsFound'
<1>1. /\ Idle /\ pending = {} /\ blk > 0 /\ CanUse(a) /\ CanUse(b)
      /\ NoDefine /\ UNCHANGED consumed /\ Straight
  BY DEF Write, InBlock
<1>. DEFINE r == refresh(st)
            s == spill_alive_write(r)
            W == Targets \ {a, b}
            A == (AliveSet \cap Global) \cup {a, b}
            M(n, i, j) == Missing(n, a, i) \cup Missing(n, b, j)
<1>2. PICK p0 \in prepare_operand(s, a, {}) :
        \E p1 \in prepare_operand(p0.st, b, {p0.reg}) :
          Step(Stored(p1.st, W), M(p1.st, p0.reg, p1.reg))
  BY DEF Write
<1>3. PICK p1 \in prepare_operand(p0.st, b, {p0.reg}) :
          Step(Stored(p1.st, W), M(p1.st, p0.reg, p1.reg))
  BY <1>2
<1>4. Ready(r, {})
  BY <1>1, Start
<1>5. /\ AliveSet \subseteq Var /\ Resident \subseteq Var /\ r \in StateType
      /\ a \in AliveSet /\ b \in AliveSet
  BY <1>1, <1>4, ReadyTypes
<1>. HIDE DEF r
<1>6. Ready(s, {}) /\ Known(s, A)
  <2>. DEFINE Q == {i \in Reg : r.REGS[i].var \in Local}
  <2>1. s = spill_var(r, Q) /\ Q \subseteq Reg
    BY DEF spill_alive_write
  <2>2. /\ Good(r, AliveSet, killed, AliveSet, Resident) /\ Exact(r, AliveSet)
        /\ r.space \subseteq st.space \cup AliveSet
    BY <1>4 DEF Ready
  <2>3. \A i \in Reg : spill_var(r, Q).REGS[i]
                         = IF i \in Q THEN Empty ELSE r.REGS[i]
    BY <1>5, <2>1, SpillType
  <2>4. \A i \in Reg \ Q : r.REGS[i].var \in (AliveSet \cap Global) \cup {None}
    BY <1>5, <2>2 DEF Good, Known, Var
  <2>. HIDE DEF Q
  <2>5. Known(spill_var(r, Q), A)
    <3>. SUFFICES ASSUME NEW i \in Reg
                  PROVE  spill_var(r, Q).REGS[i].var \in A \cup {None}
      BY DEF Known
    <3>1. CASE i \in Q
      BY <2>3, <3>1 DEF Empty
    <3>2. CASE i \notin Q
      BY <2>3, <2>4, <3>2
    <3>. QED
      BY <3>1, <3>2
  <2>. HIDE DEF A
  <2>6. /\ Good(spill_var(r, Q), AliveSet, killed, AliveSet, Resident)
        /\ Exact(spill_var(r, Q), AliveSet)
        /\ spill_var(r, Q).space \subseteq r.space \cup AliveSet
    BY <1>5, <2>1, <2>2, SpillGood
  <2>7. Ready(spill_var(r, Q), {})
    BY <1>4, <2>2, <2>6 DEF Ready
  <2>. QED
    BY <2>1, <2>5, <2>7
<1>. HIDE DEF s
<1>7. a \in A /\ b \in A /\ A \subseteq AliveSet
  BY <1>5
<1>8. W \subseteq Var /\ W \cap A = {}
  <2>1. Targets \subseteq Local
    BY VarAssumption DEF Targets, Safe, IndInv, TypeOK
  <2>. QED
    BY <2>1, VarAssumption DEF Var
<1>. HIDE DEF W, A
<1>9. Ready(p0.st, {p0.reg}) /\ p0.st.reg[p0.reg] = a
  BY <1>1, <1>6, FirstOperand
<1>10. Known(p0.st, A)
  BY <1>1, <1>6, <1>7, OperandKnown
<1>11. Ready(p1.st, {p0.reg, p1.reg})
  BY <1>1, <1>9, SecondOperand
<1>12. p1.st.reg[p1.reg] = b
  BY <1>1, <1>9, OperandReg
<1>13. p1.st.reg[p0.reg] = a
  BY <1>1, <1>9, OperandKeeps
<1>14. Known(p1.st, A)
  BY <1>1, <1>7, <1>9, <1>10, OperandKnown
<1>15. M(p1.st, p0.reg, p1.reg) = {}
  BY <1>12, <1>13 DEF Missing
<1>16. Ready(Stored(p1.st, W), {})
  BY <1>7, <1>8, <1>11, <1>14, StoredReady
<1>17. IndInv'
  BY <1>1, <1>3, <1>15, <1>16, KeepStep
<1>. QED
  BY <1>3, <1>15, <1>17 DEF Step, OperandsFound

-----------------------------------------------------------------------------
(* Blocks and functions.                                                   *)

\* At the end of a block some phi destinations have their new values already.
LEMMA EndGood ==
    ASSUME IndInv, Idle
    PROVE  /\ Good(refresh(st), AliveSet, killed, avail \cup Global, Resident)
           /\ Exact(refresh(st), AliveSet) /\ refresh(st).space = st.space
           /\ AliveSet \subseteq Var /\ Resident \subseteq Var
           /\ \A a : CanUse(a) => a \in AliveSet /\ a \in avail \cup Global
<1>1. \A a : CanUse(a) => a \in AliveSet /\ a \in avail \cup Global
  BY DEF CanUse, CanUseAt, AliveSet
<1>2. /\ Good(refresh(st), AliveSet, killed, AliveSet \cup pending, Resident)
      /\ Exact(refresh(st), AliveSet) /\ refresh(st).space = st.space
      /\ Known(refresh(st), avail \cup Global)
      /\ AliveSet \subseteq Var /\ Resident \subseteq Var
  BY RefreshGood
<1>3. Good(refresh(st), AliveSet, killed, avail \cup Global, Resident)
  BY <1>2 DEF Good
<1>. QED
  BY <1>1, <1>2, <1>3

LEMMA EndOperand ==
    ASSUME IndInv, Idle, NEW a, CanUse(a),
           NEW p \in prepare_operand(refresh(st), a, {})
    PROVE  /\ Good(p.st, AliveSet, killed, avail \cup Global, Resident)
           /\ Exact(p.st, AliveSet)
           /\ p.st.space \subseteq st.space \cup avail \cup Global
           /\ Missing(p.st, a, p.reg) = {}
<1>1. /\ Good(refresh(st), AliveSet, killed, avail \cup Global, Resident)
      /\ Exact(refresh(st), AliveSet) /\ refresh(st).space = st.space
      /\ AliveSet \subseteq Var /\ Resident \subseteq Var
      /\ a \in AliveSet \cap (avail \cup Global)
  BY EndGood
<1>2. /\ Good(p.st, AliveSet, killed, avail \cup Global, Resident)
      /\ Exact(p.st, AliveSet) /\ p.st.reg[p.reg] = a
      /\ p.st.space \subseteq refresh(st).space \cup (avail \cup Global)
  BY <1>1, OperandGood
<1>. QED
  BY <1>1, <1>2 DEF Missing

\* OP_unwound_phi stores to a slot that no dirty register is mapped to.
PhiStored(s, v) == [Stored(s, {v}) EXCEPT !.space = @ \cup {v}]

LEMMA PhiStoredGood ==
    ASSUME NEW s, NEW L, NEW K, NEW A, NEW S, L \subseteq Var, S \subseteq Var,
           Good(s, L, K, A, S), Exact(s, L), NEW v \in Var, v \notin K
    PROVE  /\ Good(PhiStored(s, v), L \ {v}, K, A, S \cup {v})
           /\ Exact(PhiStored(s, v), L \ {v})
           /\ PhiStored(s, v).space = s.space \cup {v}
<1>. DEFINE n == PhiStored(s, v)
<1>1. s \in StateType
  BY DEF Good
<1>2. /\ n \in StateType /\ n.REGS = s.REGS /\ n.space = s.space \cup {v}
      /\ n.phys_reg = s.phys_reg
      /\ \A i \in Reg : s.reg[i] # v => n.reg[i] = s.reg[i]
      /\ \A w \in Var : n.mem[w] = IF w = v THEN v ELSE s.mem[w]
  BY <1>1 DEF PhiStored, Stored, StateType, Content
<1>3. SavedIn(n, v) /\ \A w \in Var : SavedIn(s, w) => SavedIn(n, w)
  BY <1>2 DEF SavedIn
<1>. HIDE DEF n
<1>4. Truthful(n, L \ {v}) /\ CleanSaved(n, L \ {v})
  BY <1>2, <1>3 DEF Good, Truthful, CleanSaved
<1>5. Present(n, L \ {v}) /\ DirtyKilled(n, K \cap (L \ {v}))
  BY <1>2, <1>3 DEF Good, Present, DirtyKilled
<1>6. Known(n, A) /\ InMemory(n, S \cup {v})
  BY <1>2, <1>3 DEF Good, Known, InMemory
<1>7. Slots(n, L \ {v}) /\ Exact(n, L \ {v})
  BY <1>2 DEF Good, Slots, Exact
<1>. QED
  BY <1>2, <1>4, <1>5, <1>6, <1>7 DEF Good, n

LEMMA UnwoundPhiInv ==
    ASSUME IndInv, NEW v \in Var, NEW a, UnwoundPhi(v, a)
    PROVE  IndInv' /\ OperandsFound'
<1>1. /\ Idle /\ blk > 0 /\ CanUse(a) /\ v \in PhiVars
      /\ pending' = pending \cup {v} /\ ret' = FALSE
      /\ avail' = avail /\ defd' = defd /\ killed' = killed
      /\ live_out' = live_out /\ consumed' = consumed
      /\ is_const' = is_const /\ exposed' = exposed /\ call' = call
  BY DEF UnwoundPhi, NoDefine
<1>2. PICK p \in prepare_operand(refresh(st), a, {}) :
        Step(PhiStored(p.st, v), Missing(p.st, a, p.reg))
  BY DEF UnwoundPhi, PhiStored
<1>3. /\ Good(p.st, AliveSet, killed, avail \cup Global, Resident)
      /\ Exact(p.st, AliveSet)
      /\ p.st.space \subseteq st.space \cup avail \cup Global
      /\ Missing(p.st, a, p.reg) = {}
  BY <1>1, EndOperand
<1>4. AliveSet \subseteq Var /\ Resident \subseteq Var /\ v \notin killed
  BY <1>1, EndGood DEF IndInv, Bookkeeping
<1>5. /\ Good(PhiStored(p.st, v), AliveSet \ {v}, killed, avail \cup Global,
              Resident \cup {v})
      /\ Exact(PhiStored(p.st, v), AliveSet \ {v})
      /\ PhiStored(p.st, v).space = p.st.space \cup {v}
  BY <1>3, <1>4, PhiStoredGood
<1>6. st' = PhiStored(p.st, v) /\ idx' = idx + 1 /\ blk' = blk /\ misread' = {}
  BY <1>2, <1>3 DEF Step
<1>7. TypeOK'
  <2>1. ret' \in BOOLEAN /\ misread' \subseteq Var \cup {RetVal}
    BY <1>1, <1>6
  <2>2. TypeOK /\ st' \in StateType
    BY <1>5, <1>6 DEF IndInv, Good
  <2>3. idx' \in Nat /\ pending' \subseteq PhiVars
    BY <1>1, <1>6, <2>2 DEF TypeOK
  <2>. QED
    BY <1>1, <1>6, <2>1, <2>2, <2>3 DEF TypeOK
<1>8. AliveSet' \subseteq AliveSet \ {v}
  <2>. SUFFICES ASSUME NEW w \in AliveSet' PROVE w \in AliveSet /\ w # v
    OBVIOUS
  <2>1. /\ w \in (avail \cup Global) \ (pending \cup {v})
        /\ w \in live_out \/ consumed[w] >= idx + 1
    BY <1>1, <1>6 DEF AliveSet
  <2>2. consumed[w] \in Int /\ idx \in Int
    BY <2>1 DEF IndInv, TypeOK, Var
  <2>. QED
    BY <2>1, <2>2 DEF AliveSet
<1>9. Idle'
  BY <1>1 DEF Idle
<1>10. Bookkeeping'
  <2>1. st'.space \subseteq defd \cup PhiVars \cup Global
    BY <1>1, <1>3, <1>5, <1>6 DEF IndInv, Bookkeeping
  <2>. QED
    BY <1>1, <1>4, <1>6, <1>9, <2>1 DEF IndInv, Bookkeeping
<1>11. Resident' \subseteq Resident \cup {v}
  BY <1>1 DEF Resident
<1>12. IndInv'
  BY <1>1, <1>5, <1>6, <1>7, <1>8, <1>9, <1>10, <1>11, Establish
<1>. QED
  BY <1>6, <1>12 DEF OperandsFound

\* What the end of a block starts from.
EndState(s) ==
    /\ IndInv /\ Idle /\ blk > 0 /\ s \in StateType
    /\ Truthful(s, AliveSet) /\ CleanSaved(s, AliveSet) /\ Present(s, AliveSet)
    /\ DirtyKilled(s, killed) /\ Known(s, avail \cup Global)
    /\ InMemory(s, Resident)
    /\ s.space \subseteq st.space \cup avail \cup Global

Outgoing == (avail \cap live_out) \ pending

\* spill_live_out() leaves everything a successor reads in memory.
LEMMA SpillOut ==
    ASSUME NEW s, EndState(s)
    PROVE  /\ spill_live_out(s) \in StateType
           /\ \A i \in Reg : spill_live_out(s).REGS[i].var = None
           /\ InMemory(spill_live_out(s), Resident \cup Outgoing)
           /\ spill_live_out(s).space \subseteq defd \cup PhiVars \cup Global
<1>. DEFINE R1 == {i \in Reg : s.REGS[i].var \in live_out \cap killed}
            R2 == {i \in Reg : s.REGS[i].var # None}
            m == spill_var(s, R1)
            n == Drop(m, R2)
<1>1. n = spill_live_out(s)
  BY DEF spill_live_out
<1>2. /\ s \in StateType /\ R1 \subseteq Reg /\ R2 \subseteq Reg
      /\ avail \subseteq Var /\ Resident \subseteq Var
  BY VarAssumption DEF EndState, IndInv, TypeOK, Var, Resident
<1>3. \A i \in R1 : /\ s.reg[i] = s.REGS[i].var
                    /\ s.REGS[i].var \in avail \cup Global
                    /\ s.REGS[i].var \in AliveSet
  <2>. SUFFICES ASSUME NEW i \in R1
                PROVE  /\ s.reg[i] = s.REGS[i].var
                       /\ s.REGS[i].var \in avail \cup Global
                       /\ s.REGS[i].var \in AliveSet
    OBVIOUS
  <2>1. s.REGS[i].var \in live_out \cap killed /\ live_out \subseteq Var
    BY DEF EndState, IndInv, TypeOK, Var
  <2>2. s.REGS[i].var \in avail \cup Global
    BY <2>1, NoneNotVar DEF EndState, Known
  <2>3. s.REGS[i].var \in AliveSet
    BY <2>1, <2>2 DEF EndState, IndInv, Bookkeeping, AliveSet
  <2>. QED
    BY <2>2, <2>3 DEF EndState, Truthful
<1>. HIDE DEF R1
<1>4. /\ m \in StateType
      /\ \A i \in Reg : m.REGS[i] = IF i \in R1 THEN Empty ELSE s.REGS[i]
      /\ \A v \in Var :
                \/ /\ m.mem[v] = s.mem[v]
                   /\ v \in m.space <=> v \in s.space
                   /\ \A i \in R1 : s.REGS[i].var = v => ~s.REGS[i].polluted
                \/ /\ v \in m.space
                   /\ \E i \in R1 : /\ s.REGS[i].var = v /\ s.REGS[i].polluted
                                    /\ m.mem[v] = s.reg[i]
  BY <1>2, SpillType
<1>5. /\ n \in StateType /\ n.mem = m.mem /\ n.space = m.space
      /\ \A i \in Reg : n.REGS[i] = IF i \in R2 THEN Empty ELSE m.REGS[i]
  BY <1>2, <1>4, DropType
<1>. HIDE DEF m, n
<1>6. \A i \in Reg : n.REGS[i].var = None
  BY <1>4, <1>5 DEF Empty
<1>7. \A v \in Var : SavedIn(s, v) => SavedIn(n, v)
  BY <1>3, <1>4, <1>5 DEF SavedIn
<1>8. ASSUME NEW w \in Outgoing, w \in killed PROVE SavedIn(n, w)
  <2>1. w \in AliveSet /\ w \in Var
    BY <1>2 DEF Outgoing, AliveSet
  <2>2. CASE SavedIn(s, w)
    BY <1>7, <2>1, <2>2
  <2>3. CASE ~SavedIn(s, w)
    <3>1. PICK i \in Reg : s.REGS[i].var = w
      BY <2>1, <2>3 DEF EndState, Present
    <3>2. i \in R1
      BY <1>8, <3>1 DEF R1, Outgoing
    <3>3. s.REGS[i].polluted
      BY <2>1, <2>3, <3>1 DEF EndState, CleanSaved
    <3>. QED
      BY <1>3, <1>4, <1>5, <2>1, <3>1, <3>2, <3>3 DEF SavedIn
  <2>. QED
    BY <2>2, <2>3
<1>9. \A w \in Resident : SavedIn(n, w)
  BY <1>2, <1>7 DEF EndState, InMemory
<1>10. \A w \in Outgoing \ killed : w \in Resident
  BY DEF Outgoing, Resident
<1>11. InMemory(n, Resident \cup Outgoing)
  BY <1>8, <1>9, <1>10 DEF InMemory
<1>12. n.space \subseteq defd \cup PhiVars \cup Global
  <2>1. m.space \subseteq s.space \cup avail \cup Global
    BY <1>3, <1>4 DEF StateType
  <2>2. /\ avail \subseteq defd \cup PhiVars
        /\ st.space \subseteq defd \cup PhiVars \cup Global
        /\ s.space \subseteq st.space \cup avail \cup Global
    BY DEF EndState, IndInv, Bookkeeping
  <2>. QED
    BY <1>5, <2>1, <2>2
<1>. QED
  BY <1>1, <1>5, <1>6, <1>11, <1>12

\* A state whose registers are unmapped and whose memory is complete.
LEMMA Unmapped ==
    ASSUME TypeOK', Bookkeeping', \A i \in Reg : st'.REGS[i].var = None,
           InMemory(st', Resident'), InMemory(st', AliveSet')
    PROVE  IndInv'
<1>1. AliveSet' \subseteq Var
  BY DEF AliveSet, TypeOK, Var
<1>2. None \notin AliveSet' /\ None \notin Var
  BY <1>1, NoneNotVar
<1>3. Truthful(st', AliveSet') /\ CleanSaved(st', AliveSet')
  BY <1>2 DEF Truthful, CleanSaved
<1>4. Present(st', AliveSet') /\ DirtyKilled(st', killed')
  BY DEF Present, DirtyKilled, InMemory
<1>5. Known(st', (avail \cup Global)') /\ Slots(st', AliveSet')
  BY DEF Known, Slots, InMemory, SavedIn
<1>6. Exact(st', AliveSet')
  BY <1>2 DEF Exact
<1>. QED
  BY <1>3, <1>4, <1>5, <1>6 DEF IndInv

LEMMA NextBlockInv ==
    ASSUME NEW s, EndState(s), NextBlock(s, {}) PROVE IndInv' /\ OperandsFound'
<1>. DEFINE after == spill_live_out(s)
            known == (avail \ killed) \cup Outgoing \cup pending
<1>1. /\ blk' = blk + 1 /\ st' = [after EXCEPT !.reg = [i \in Reg |-> Junk]]
      /\ misread' = Stale(after, Outgoing)
      /\ avail' = known /\ live_out' \subseteq known
      /\ pending' = {} /\ killed' = {} /\ idx' = 0 /\ ret' = FALSE
      /\ defd' = defd /\ consumed' = consumed /\ is_const' = is_const
      /\ exposed' = exposed /\ call' = call
  BY DEF NextBlock, Outgoing
<1>2. /\ after \in StateType /\ InMemory(after, Resident \cup Outgoing)
      /\ \A i \in Reg : after.REGS[i].var = None
      /\ after.space \subseteq defd \cup PhiVars \cup Global
  BY SpillOut
<1>. HIDE DEF after
<1>3. /\ st' \in StateType /\ st'.space = after.space /\ st'.mem = after.mem
      /\ st'.REGS = after.REGS
  BY <1>1, <1>2 DEF StateType, Content
<1>4. TypeOK /\ Bookkeeping /\ Idle /\ blk > 0
  BY DEF EndState, IndInv
<1>5. known \subseteq Local /\ known \subseteq defd \cup PhiVars
  BY <1>4, VarAssumption DEF TypeOK, Bookkeeping, Outgoing
<1>6. misread' = {}
  BY <1>1, <1>2 DEF Stale, InMemory, SavedIn
<1>7. TypeOK'
  <2>1. ret' \in BOOLEAN /\ misread' \subseteq Var \cup {RetVal}
    BY <1>1, <1>6
  <2>2. /\ idx' \in Nat /\ blk' \in Nat /\ pending' \subseteq PhiVars
        /\ killed' \subseteq Var /\ avail' \subseteq Local
        /\ live_out' \subseteq Local
    BY <1>1, <1>4, <1>5 DEF TypeOK
  <2>. QED
    BY <1>1, <1>3, <1>4, <2>1, <2>2 DEF TypeOK
<1>8. Bookkeeping'
  <2>1. blk' > 0 /\ Idle'
    BY <1>1, <1>4 DEF Idle, TypeOK
  <2>2. st'.space \subseteq defd' \cup PhiVars \cup Global
    BY <1>1, <1>2, <1>3
  <2>. QED
    BY <1>1, <1>4, <1>5, <2>1, <2>2 DEF Bookkeeping
<1>9. Resident' \subseteq Resident \cup Outgoing
  BY <1>1 DEF Resident
<1>10. AliveSet' \subseteq Resident \cup Outgoing
  BY <1>1 DEF AliveSet, Resident
<1>11. InMemory(st', Resident') /\ InMemory(st', AliveSet')
  BY <1>2, <1>3, <1>9, <1>10 DEF InMemory, SavedIn
<1>12. IndInv'
  BY <1>2, <1>3, <1>7, <1>8, <1>11, Unmapped
<1>. QED
  BY <1>6, <1>12 DEF OperandsFound

LEMMA FallThroughInv ==
    ASSUME IndInv, FallThrough PROVE IndInv' /\ OperandsFound'
<1>1. NextBlock(st, {}) /\ Idle /\ blk > 0
  BY DEF FallThrough
<1>2. EndState(st)
  BY <1>1 DEF EndState, IndInv, TypeOK
<1>. QED
  BY <1>1, <1>2, NextBlockInv

LEMMA BranchInv ==
    ASSUME IndInv, NEW a, Branch(a) PROVE IndInv' /\ OperandsFound'
<1>1. Idle /\ blk > 0 /\ CanUse(a)
  BY DEF Branch
<1>2. PICK p \in prepare_operand(refresh(st), a, {}) :
        NextBlock(p.st, Missing(p.st, a, p.reg))
  BY DEF Branch
<1>3. /\ Good(p.st, AliveSet, killed, avail \cup Global, Resident)
      /\ p.st.space \subseteq st.space \cup avail \cup Global
      /\ Missing(p.st, a, p.reg) = {}
  BY <1>1, EndOperand
<1>4. EndState(p.st)
  BY <1>1, <1>3 DEF EndState, Good, DirtyKilled
<1>. QED
  BY <1>2, <1>3, <1>4, NextBlockInv

\* Between two functions nothing is mapped and the globals are in memory.
LEMMA OutsideGood ==
    /\ Outside \in StateType /\ Outside.space = Global
    /\ \A i \in Reg : Outside.REGS[i].var = None
    /\ InMemory(Outside, Global)
<1>1. /\ Outside \in StateType /\ Outside.space = Global
      /\ \A i \in Reg : Outside.REGS[i].var = None
  BY DEF Outside, StateType, Empty, Content, Var
<1>2. InMemory(Outside, Global)
  BY DEF Outside, InMemory, SavedIn, Var
<1>. QED
  BY <1>1, <1>2

LEMMA NoCallType == NoCall \in CallType
  BY RegAssumption DEF NoCall, CallType

LEMMA CallFields ==
    ASSUME NEW k \in CallType
    PROVE  /\ k.params \in Seq(Var) /\ Len(k.params) \in Nat /\ k.pos \in Nat
           /\ k.args \in Nat /\ k.args <= MAX_ARGS_IN_REG
           /\ k.on_stack \in BOOLEAN /\ k.out \in Seq(Content)
  BY RegAssumption DEF CallType

LEMMA LeaveInv ==
    ASSUME NEW s, InMemory(s, Global), Leave(s, {})
    PROVE  IndInv' /\ OperandsFound'
<1>1. /\ st' = Outside /\ misread' = Stale(s, Global)
      /\ avail' = {} /\ defd' = {} /\ killed' = {} /\ live_out' = {}
      /\ consumed' = [v \in Var |-> -1]
      /\ idx' = 0 /\ blk' = 0 /\ is_const' = ConstVars
      /\ exposed' = {} /\ pending' = {}
      /\ call' = NoCall /\ ret' = FALSE
  BY DEF Leave
<1>2. misread' = {}
  BY <1>1 DEF Stale, InMemory, SavedIn
<1>3. TypeOK'
  <2>1. ret' \in BOOLEAN /\ misread' \subseteq Var \cup {RetVal}
    BY <1>1, <1>2
  <2>2. /\ idx' \in Nat /\ blk' \in Nat /\ pending' \subseteq PhiVars
        /\ killed' \subseteq Var /\ avail' \subseteq Local
        /\ live_out' \subseteq Local /\ consumed' \in [Var -> Int]
        /\ defd' \subseteq Local /\ exposed' \subseteq AddrVars
    BY <1>1
  <2>. QED
    BY <1>1, <2>1, <2>2, OutsideGood, NoCallType DEF TypeOK
<1>4. Bookkeeping'
  BY <1>1, OutsideGood DEF Bookkeeping, Idle
<1>5. Resident' = Global
  BY <1>1 DEF Resident
<1>6. AliveSet' = {}
  BY <1>1 DEF AliveSet, Var
<1>7. /\ \A i \in Reg : st'.REGS[i].var = None
      /\ InMemory(st', Resident') /\ InMemory(st', AliveSet')
  BY <1>1, <1>5, <1>6, OutsideGood DEF InMemory
<1>8. IndInv'
  BY <1>3, <1>4, <1>7, Unmapped
<1>. QED
  BY <1>2, <1>8 DEF OperandsFound

LEMMA ReturnInv ==
    ASSUME IndInv, NEW a, Return(a) PROVE IndInv' /\ OperandsFound'
<1>1. Idle /\ CanUse(a)
  BY DEF Return
<1>2. PICK p \in prepare_operand(refresh(st), a, {}) :
        Leave(p.st, Missing(p.st, a, p.reg))
  BY DEF Return
<1>3. /\ Good(p.st, AliveSet, killed, avail \cup Global, Resident)
      /\ Missing(p.st, a, p.reg) = {}
  BY <1>1, EndOperand
<1>4. InMemory(p.st, Global)
  BY <1>3 DEF Good, InMemory, Resident
<1>. QED
  BY <1>2, <1>3, <1>4, LeaveInv

LEMMA ReturnVoidInv ==
    ASSUME IndInv, ReturnVoid PROVE IndInv' /\ OperandsFound'
<1>1. InMemory(st, Global) /\ Leave(st, {})
  BY DEF IndInv, InMemory, Resident, ReturnVoid
<1>. QED
  BY <1>1, LeaveInv

LEMMA InitInv == Init => IndInv /\ OperandsFound
<1>. SUFFICES ASSUME Init PROVE IndInv /\ OperandsFound
  OBVIOUS
<1>1. TypeOK
  <2>1. ret \in BOOLEAN /\ misread \subseteq Var \cup {RetVal}
    BY DEF Init
  <2>2. /\ idx \in Nat /\ blk \in Nat /\ pending \subseteq PhiVars
        /\ killed \subseteq Var /\ avail \subseteq Local
        /\ live_out \subseteq Local /\ consumed \in [Var -> Int]
        /\ defd \subseteq Local /\ exposed \subseteq AddrVars
    BY DEF Init
  <2>. QED
    BY <2>1, <2>2, OutsideGood, NoCallType DEF TypeOK, Init
<1>2. Bookkeeping
  BY OutsideGood DEF Bookkeeping, Init, Idle
<1>3. InMemory(st, Resident)
  BY OutsideGood DEF Init, Resident, InMemory
<1>4. AliveSet = {}
  BY DEF Init, AliveSet, Var
<1>5. \A i \in Reg : st.REGS[i].var = None
  BY OutsideGood DEF Init
<1>6. /\ Truthful(st, {}) /\ CleanSaved(st, {}) /\ Present(st, {})
      /\ DirtyKilled(st, killed) /\ Known(st, avail \cup Global)
      /\ Slots(st, {}) /\ Exact(st, {}) /\ InMemory(st, {})
  BY <1>5 DEF Truthful, CleanSaved, Present, DirtyKilled, Known, Slots, Exact,
              InMemory
<1>. QED
  BY <1>1, <1>2, <1>3, <1>4, <1>6 DEF IndInv, OperandsFound, Init

\* The head of the loop over FUNC_LIST.  The mapping 0 that a parameter starts
\* with is right for the first one, and does no harm to the others as long as
\* their address is not taken.
LEMMA NextFunctionInv ==
    ASSUME IndInv, Safe, NextFunction PROVE IndInv' /\ OperandsFound'
<1>. DEFINE inreg == {i \in Reg : i < Len(Params) /\ i < MAX_ARGS_IN_REG}
            placed == {Params[i + 1] : i \in inreg}
<1>1. PICK va_args \in BOOLEAN :
        /\ va_args => ~(Len(Params) > MAX_ARGS_IN_REG)
        /\ st' = Entry(va_args)
  BY DEF NextFunction, Safe
<1>2. /\ avail' = ParamSet /\ defd' = ParamSet /\ killed' = ParamSet
      /\ live_out' \subseteq ParamSet /\ blk' = 1 /\ misread' = {}
      /\ idx' = idx /\ is_const' = is_const /\ exposed' = exposed
      /\ pending' = pending /\ call' = call /\ ret' = ret
      /\ blk = 0
  BY DEF NextFunction
<1>3. /\ TypeOK /\ avail = {} /\ pending = {} /\ exposed = {} /\ Idle
  BY <1>2 DEF IndInv, Bookkeeping
<1>4. ret = FALSE
  BY <1>2, <1>3 DEF IndInv, Bookkeeping, TypeOK
<1>5. consumed' \in [Var -> Int]
  <2>1. PICK c \in [ParamSet \cup PhiVars \cup Global -> 0..(MaxIdx + 1)] :
          consumed' = [v \in Var |-> IF v \in DOMAIN c THEN c[v] ELSE -1]
    BY DEF NextFunction
  <2>2. \A v \in Var : (IF v \in DOMAIN c THEN c[v] ELSE -1) \in Int
    BY BoundAssumption
  <2>. QED
    BY <2>1, <2>2
<1>6. /\ Len(Params) \in Nat /\ Params \in [1..Len(Params) -> Local]
      /\ MAX_ARGS_IN_REG \in 1..REG_CNT /\ REG_CNT \in Nat
      /\ ParamSet \subseteq Local /\ ParamSet \subseteq Var
      /\ ParamSet \cap PhiVars = {} /\ Local \cap Global = {}
  BY VarAssumption, RegAssumption DEF Var
<1>7. /\ inreg \subseteq Reg
      /\ \A i \in inreg : /\ i + 1 \in 1..Len(Params) /\ i \in Nat
                          /\ Params[i + 1] \in ParamSet
  BY <1>6, RegNat DEF ParamSet
<1>8. placed \subseteq ParamSet
  BY <1>7
<1>. DEFINE saved == Global \cup (IF va_args THEN placed ELSE ParamSet \ placed)
<1>9. saved \subseteq Var /\ saved \subseteq ParamSet \cup Global
  BY <1>6, <1>8 DEF Var
<1>10. st' = [REGS |-> [i \in Reg |-> IF i \in inreg
                                   THEN [var |-> Params[i + 1],
                                         polluted |-> TRUE]
                                   ELSE Empty],
         phys_reg |-> [v \in Var |-> IF v \in ParamSet THEN 0 ELSE NoReg],
         space |-> saved,
         reg |-> [i \in Reg |-> IF i \in inreg THEN Params[i + 1] ELSE Junk],
         mem |-> [v \in Var |-> IF v \in saved THEN v ELSE Junk]]
  BY <1>1 DEF Entry
<1>. HIDE DEF inreg, placed, saved
<1>11. /\ st'.REGS = [i \in Reg |-> IF i \in inreg
                                   THEN [var |-> Params[i + 1],
                                         polluted |-> TRUE]
                                   ELSE Empty]
       /\ st'.phys_reg = [v \in Var |-> IF v \in ParamSet THEN 0 ELSE NoReg]
       /\ st'.space = saved
       /\ st'.reg = [i \in Reg |-> IF i \in inreg THEN Params[i + 1] ELSE Junk]
       /\ st'.mem = [v \in Var |-> IF v \in saved THEN v ELSE Junk]
  BY <1>10
<1>12. st' \in StateType
  <2>1. st'.REGS \in [Reg -> [var : Var \cup {None}, polluted : BOOLEAN]]
    BY <1>6, <1>7, <1>11 DEF Empty
  <2>2. st'.phys_reg \in [Var -> Reg \cup {NoReg}]
    BY <1>11, RegNat
  <2>3. st'.reg \in [Reg -> Content] /\ st'.mem \in [Var -> Content]
    BY <1>6, <1>7, <1>11 DEF Content
  <2>. QED
    BY <1>9, <1>10, <1>11, <2>1, <2>2, <2>3 DEF StateType
<1>13. TypeOK'
  <2>1. ret' \in BOOLEAN /\ misread' \subseteq Var \cup {RetVal}
    BY <1>2, <1>4
  <2>2. /\ idx' \in Nat /\ blk' \in Nat /\ pending' \subseteq PhiVars
        /\ killed' \subseteq Var /\ avail' \subseteq Local
        /\ live_out' \subseteq Local
        /\ defd' \subseteq Local /\ exposed' \subseteq AddrVars
    BY <1>2, <1>3, <1>6 DEF TypeOK
  <2>. QED
    BY <1>2, <1>3, <1>5, <1>12, <2>1, <2>2 DEF TypeOK
<1>14. Bookkeeping'
  <2>1. st'.space \subseteq defd' \cup PhiVars \cup Global
    BY <1>2, <1>9, <1>11
  <2>2. Idle'
    BY <1>2, <1>3 DEF Idle
  <2>. QED
    BY <1>2, <1>3, <1>4, <1>6, <2>1, <2>2 DEF Bookkeeping
<1>15. \A v \in saved : SavedIn(st', v)
  BY <1>9, <1>11 DEF SavedIn
<1>16. \A i \in Reg : IF i \in inreg
                        THEN /\ st'.REGS[i].var = Params[i + 1]
                             /\ st'.REGS[i].polluted
                             /\ st'.reg[i] = Params[i + 1]
                        ELSE st'.REGS[i] = Empty
  BY <1>11
<1>17. AliveSet' \subseteq ParamSet \cup Global
  BY <1>2 DEF AliveSet
<1>18. None \notin ParamSet \cup Global
  BY <1>6, NoneNotVar DEF Var
<1>19. Truthful(st', AliveSet') /\ CleanSaved(st', AliveSet')
  BY <1>16, <1>17, <1>18 DEF Truthful, CleanSaved, Empty
<1>20. Present(st', AliveSet')
  <2>. SUFFICES ASSUME NEW v \in AliveSet', ~SavedIn(st', v)
                PROVE  \E i \in Reg : st'.REGS[i].var = v
    BY DEF Present
  <2>1. v \in ParamSet /\ v \notin saved
    BY <1>15, <1>17 DEF saved
  <2>2. v \in placed
    <3>1. CASE ~va_args
      BY <2>1, <3>1 DEF saved
    <3>2. CASE va_args
      <4>1. PICK k \in 1..Len(Params) : v = Params[k]
        BY <2>1 DEF ParamSet
      <4>2. k - 1 \in inreg /\ Params[(k - 1) + 1] = v
        BY <1>1, <1>6, <3>2, <4>1 DEF inreg, Reg
      <4>. QED
        BY <4>2 DEF placed
    <3>. QED
      BY <3>1, <3>2
  <2>3. PICK i \in inreg : v = Params[i + 1]
    BY <2>2 DEF placed
  <2>. QED
    BY <1>7, <1>16, <2>3
<1>21. DirtyKilled(st', killed')
  BY <1>2, <1>6, <1>7, <1>16 DEF DirtyKilled, Empty
<1>22. Known(st', (avail \cup Global)')
  BY <1>2, <1>7, <1>16 DEF Known, Empty
<1>23. InMemory(st', Resident')
  <2>1. Resident' = Global
    BY <1>2, <1>3 DEF Resident
  <2>. QED
    BY <1>15, <2>1 DEF InMemory, saved
<1>24. Slots(st', AliveSet')
  BY <1>11, <1>15 DEF Slots, SavedIn
<1>25. Exact(st', AliveSet')
  <2>. SUFFICES ASSUME NEW i \in Reg,
                       st'.REGS[i].var \in AliveSet' \cap (AddrVars \cup Global)
                PROVE  st'.phys_reg[st'.REGS[i].var] = i
    BY DEF Exact
  <2>1. i \in inreg /\ st'.REGS[i].var = Params[i + 1]
    BY <1>16, <1>17, <1>18 DEF Empty
  <2>2. Params[i + 1] \in ParamSet /\ i + 1 \in 1..Len(Params) /\ i \in Nat
    BY <1>7, <2>1
  <2>3. Params[i + 1] \in AddrVars
    BY <1>6, <2>1, <2>2
  <2>4. i + 1 = 1 \/ i + 1 > MAX_ARGS_IN_REG
    BY <2>2, <2>3 DEF Safe
  <2>5. i < MAX_ARGS_IN_REG
    BY <2>1 DEF inreg
  <2>6. i = 0
    BY <1>6, <2>2, <2>4, <2>5
  <2>. QED
    BY <1>6, <1>11, <2>1, <2>2, <2>6
<1>26. Idle'
  BY <1>2, <1>3 DEF Idle
<1>27. IndInv'
  BY <1>13, <1>14, <1>19, <1>20, <1>21, <1>22, <1>23, <1>24, <1>25, <1>26
     DEF IndInv
<1>. QED
  BY <1>2, <1>27 DEF OperandsFound

-----------------------------------------------------------------------------
(* Calls.                                                                  *)

\* During a call, and after it, everything that is read again is in memory.
LEMMA Settled ==
    ASSUME TypeOK', Bookkeeping', Truthful(st', AliveSet'),
           InMemory(st', Resident'), InMemory(st', AliveSet'),
           DirtyKilled(st', killed'), Known(st', (avail \cup Global)'),
           Idle' => Exact(st', AliveSet')
    PROVE  IndInv'
<1>1. CleanSaved(st', AliveSet')
  BY DEF CleanSaved, InMemory
<1>2. Present(st', AliveSet') /\ Slots(st', AliveSet')
  BY DEF Present, Slots, InMemory, SavedIn
<1>. QED
  BY <1>1, <1>2 DEF IndInv

\* What is read after the current instruction.
LaterSet(cons) == {w \in (avail \cup Global) \ pending :
                     w \in live_out \/ cons[w] > idx}

\* extend_liveness() keeps an argument alive and forgets no other variable.
LEMMA ExtendAlive ==
    ASSUME TypeOK, NEW v \in Var, CanUse(v), NEW sz \in Nat, sz >= 1
    PROVE  /\ extend_liveness(v, sz) \in [Var -> Int]
           /\ \A w \in Var : extend_liveness(v, sz)[w] >= consumed[w]
           /\ LaterSet(extend_liveness(v, sz)) \subseteq AliveSet
           /\ v \in LaterSet(extend_liveness(v, sz))
           /\ v \in live_out \/ extend_liveness(v, sz)[v] >= idx + sz
<1>. DEFINE c == extend_liveness(v, sz)
<1>1. consumed \in [Var -> Int] /\ idx \in Nat /\ avail \cup Global \subseteq Var
  BY DEF TypeOK, Var
<1>2. /\ v \in (avail \cup Global) \ pending /\ consumed[v] >= idx
  BY DEF CanUse, CanUseAt
<1>3. c = IF v \notin live_out /\ idx + sz > consumed[v]
            THEN [consumed EXCEPT ![v] = idx + sz] ELSE consumed
  BY DEF extend_liveness
<1>. HIDE DEF c
<1>4. c \in [Var -> Int]
  BY <1>1, <1>3
<1>5. \A w \in Var : IF w = v THEN c[w] >= consumed[w]
                              ELSE c[w] = consumed[w]
  BY <1>1, <1>3
<1>6. v \in live_out \/ c[v] > idx
  BY <1>1, <1>2, <1>3
<1>7. v \in AliveSet
  BY <1>2 DEF AliveSet
<1>8. LaterSet(c) \subseteq AliveSet
  <2>. SUFFICES ASSUME NEW w \in LaterSet(c), w # v PROVE w \in AliveSet
    BY <1>7
  <2>1. w \in Var /\ c[w] = consumed[w]
    BY <1>1, <1>5 DEF LaterSet
  <2>. QED
    BY <1>1, <2>1 DEF LaterSet, AliveSet
<1>9. v \in LaterSet(c)
  BY <1>2, <1>6 DEF LaterSet
<1>10. \A w \in Var : c[w] >= consumed[w]
  BY <1>1, <1>5
<1>11. v \in live_out \/ c[v] >= idx + sz
  BY <1>1, <1>3
<1>. QED
  BY <1>4, <1>8, <1>9, <1>10, <1>11 DEF c

\* The set after the step.
LEMMA LaterAlive ==
    ASSUME TypeOK, NEW c, c \in [Var -> Int], consumed' = c, idx' = idx + 1,
           avail' = avail, live_out' = live_out, pending' = pending
    PROVE  AliveSet' = LaterSet(c)
<1>1. idx \in Nat /\ avail \cup Global \subseteq Var
  BY DEF TypeOK, Var
<1>2. \A w \in Var : c[w] > idx <=> c[w] >= idx + 1
  BY <1>1
<1>. QED
  BY <1>1, <1>2 DEF LaterSet, AliveSet

\* spill_alive() empties the registers of everything that is read later.
LEMMA SpillAlive ==
    ASSUME NEW s, NEW c, pending = {}, AliveSet \subseteq Var,
           Resident \subseteq Var, LaterSet(c) \subseteq AliveSet,
           Good(s, AliveSet, killed, AliveSet, Resident)
    PROVE  LET n == spill_alive(s, c)
           IN /\ Good(n, AliveSet, killed, AliveSet, Resident \cup LaterSet(c))
              /\ \A i \in Reg : n.REGS[i].var \notin LaterSet(c)
              /\ Exact(s, AliveSet) => Exact(n, AliveSet)
              /\ InMemory(s, AliveSet) => InMemory(n, AliveSet)
              /\ n.space \subseteq s.space \cup AliveSet
<1>. DEFINE R == {i \in Reg : /\ s.REGS[i].var # None
                              /\ \/ s.REGS[i].var \in live_out
                                 \/ c[s.REGS[i].var] > idx}
            n == spill_var(s, R)
<1>1. n = spill_alive(s, c)
  BY DEF spill_alive
<1>2. s \in StateType /\ None \notin AliveSet
  BY NoneNotVar DEF Good
<1>3. \A i \in Reg : s.REGS[i].var \in LaterSet(c) => i \in R
  BY <1>2 DEF LaterSet
<1>4. /\ Good(n, AliveSet, killed, AliveSet, Resident)
      /\ Exact(s, AliveSet) => Exact(n, AliveSet)
      /\ InMemory(s, AliveSet) => InMemory(n, AliveSet)
      /\ n.space \subseteq s.space \cup AliveSet
  BY SpillGood
<1>5. \A i \in Reg : n.REGS[i] = IF i \in R THEN Empty ELSE s.REGS[i]
  BY <1>2, SpillType
<1>. HIDE DEF n, R
<1>6. \A i \in Reg : n.REGS[i].var \notin LaterSet(c)
  BY <1>2, <1>3, <1>5 DEF Empty
<1>7. \A w \in LaterSet(c) : SavedIn(n, w)
  BY <1>4, <1>6 DEF Good, Present
<1>8. Good(n, AliveSet, killed, AliveSet, Resident \cup LaterSet(c))
  BY <1>4, <1>7 DEF Good, InMemory
<1>. QED
  BY <1>1, <1>4, <1>6, <1>8

\* The callee changes the variables it may reach in memory, and nothing else
\* there.
LEMMA CalleeKeeps ==
    ASSUME TypeOK, NEW s \in StateType
    PROVE  /\ Callee(s) \in StateType
           /\ Callee(s).REGS = s.REGS /\ Callee(s).space = s.space
           /\ \A w \in Var : SavedIn(s, w) => SavedIn(Callee(s), w)
<1>. DEFINE W == exposed \cup Global
            t == Stored(s, W)
            n == [t EXCEPT !.reg = [i \in Reg |-> IF i = 0 THEN RetVal ELSE Junk]]
<1>1. n = Callee(s)
  BY DEF Callee
<1>2. W \subseteq Var
  BY VarAssumption DEF TypeOK, Var
<1>3. /\ t \in StateType /\ t.REGS = s.REGS /\ t.space = s.space
      /\ t.mem = [v \in Var |-> IF v \in W THEN v ELSE s.mem[v]]
  BY DEF Stored, StateType, Content
<1>. HIDE DEF t, W
<1>4. /\ n \in StateType /\ n.REGS = t.REGS /\ n.space = t.space
      /\ n.mem = t.mem
  BY <1>3 DEF StateType, Content
<1>. HIDE DEF n
<1>5. \A w \in Var : SavedIn(s, w) => SavedIn(n, w)
  BY <1>3, <1>4 DEF SavedIn
<1>. QED
  BY <1>1, <1>3, <1>4, <1>5

LEMMA ReceivedType ==
    ASSUME TypeOK, NEW s PROVE Received(s) \subseteq Var
<1>1. \A i \in 1..Len(call.params) : call.params[i] \in Var
  BY CallFields DEF TypeOK
<1>2. exposed \cup Global \subseteq Var
  BY VarAssumption DEF TypeOK, Var
<1>. QED
  BY <1>1, <1>2 DEF Received, Stale

\* Before the code of a call, arguments or not: s is the state after refresh()
\* and, for a call without arguments, spill_alive().
LEMMA CallReady ==
    ASSUME IndInv, pending = {}, NEW none,
           Idle => none,
           NEW s, s = IF none THEN spill_alive(refresh(st), consumed)
                              ELSE refresh(st)
    PROVE  /\ Good(s, AliveSet, killed, AliveSet, Resident \cup LaterSet(consumed))
           /\ Exact(s, AliveSet) \/ InMemory(s, AliveSet)
           /\ s.space \subseteq st.space \cup AliveSet
           /\ LaterSet(consumed) \subseteq AliveSet
           /\ AliveSet \subseteq Var /\ Resident \subseteq Var
<1>1. /\ Good(refresh(st), AliveSet, killed, AliveSet \cup pending, Resident)
      /\ Idle => Exact(refresh(st), AliveSet)
      /\ ~Idle => InMemory(refresh(st), AliveSet)
      /\ refresh(st).space = st.space
      /\ AliveSet \subseteq Var /\ Resident \subseteq Var
  BY RefreshGood
<1>2. AliveSet \cup pending = AliveSet
  OBVIOUS
<1>3. Good(refresh(st), AliveSet, killed, AliveSet, Resident)
  BY <1>1, <1>2
<1>4. LaterSet(consumed) \subseteq AliveSet
  <2>1. consumed \in [Var -> Int] /\ idx \in Nat /\ avail \cup Global \subseteq Var
    BY DEF IndInv, TypeOK, Var
  <2>2. \A w \in Var : consumed[w] > idx => consumed[w] >= idx
    BY <2>1
  <2>. QED
    BY <2>1, <2>2 DEF LaterSet, AliveSet
<1>5. CASE none
  <2>1. s = spill_alive(refresh(st), consumed)
    BY <1>5
  <2>. QED
    BY <1>1, <1>3, <1>4, <2>1, SpillAlive
<1>6. CASE ~none
  <2>1. s = refresh(st) /\ ~Idle
    BY <1>6
  <2>2. InMemory(s, AliveSet)
    BY <1>1, <2>1
  <2>3. InMemory(s, Resident \cup LaterSet(consumed))
    BY <1>3, <1>4, <2>1, <2>2 DEF Good, InMemory
  <2>4. Good(s, AliveSet, killed, AliveSet, Resident \cup LaterSet(consumed))
    BY <1>3, <2>1, <2>3 DEF Good
  <2>. QED
    BY <1>1, <1>4, <2>1, <2>2, <2>4
<1>. QED
  BY <1>5, <1>6

\* The bookkeeping of a call that has been emitted.
LEMMA CallBookkeeping ==
    ASSUME IndInv, blk > 0, pending = {}, blk' = blk, idx' = idx + 1,
           NoDefine, UNCHANGED <<consumed, is_const, exposed, pending>>,
           call' = NoCall, ret' = TRUE, st' \in StateType,
           st'.space \subseteq st.space \cup AliveSet,
           misread' \subseteq Var \cup {RetVal}
    PROVE  /\ TypeOK' /\ Bookkeeping' /\ Idle'
           /\ AliveSet' = LaterSet(consumed) /\ Resident' = Resident
<1>1. TypeOK /\ Bookkeeping
  BY DEF IndInv
<1>2. TypeOK'
  <2>1. ret' \in BOOLEAN
    OBVIOUS
  <2>2. idx' \in Nat
    BY <1>1 DEF TypeOK
  <2>. QED
    BY <1>1, <2>1, <2>2, NoCallType DEF TypeOK, NoDefine
<1>3. Idle'
  BY DEF Idle
<1>4. AliveSet \subseteq defd \cup PhiVars \cup Global
  BY <1>1 DEF AliveSet, Bookkeeping
<1>5. st'.space \subseteq defd' \cup PhiVars \cup Global
  BY <1>1, <1>4 DEF Bookkeeping, NoDefine
<1>6. Bookkeeping'
  BY <1>1, <1>3, <1>5 DEF Bookkeeping, NoDefine
<1>7. AliveSet' = LaterSet(consumed)
  BY <1>1, LaterAlive DEF NoDefine, TypeOK
<1>8. Resident' = Resident
  BY DEF Resident, NoDefine
<1>. QED
  BY <1>2, <1>3, <1>6, <1>7, <1>8

LEMMA CallInv ==
    ASSUME IndInv, Call PROVE IndInv'
<1>. DEFINE none == call.params = <<>>
            s == IF none THEN spill_alive(refresh(st), consumed) ELSE refresh(st)
            n == [Callee(s) EXCEPT !.REGS = [i \in Reg |-> Empty]]
<1>1. /\ blk > 0 /\ pending = {} /\ Step(n, Received(s))
      /\ call' = NoCall /\ ret' = TRUE
      /\ NoDefine /\ UNCHANGED <<consumed, is_const, exposed, pending>>
  BY DEF Call
<1>2. Idle => none
  BY DEF Idle, NoCall
<1>. HIDE DEF none
<1>3. /\ Good(s, AliveSet, killed, AliveSet, Resident \cup LaterSet(consumed))
      /\ s.space \subseteq st.space \cup AliveSet
      /\ LaterSet(consumed) \subseteq AliveSet
      /\ AliveSet \subseteq Var /\ Resident \subseteq Var
  BY <1>1, <1>2, CallReady
<1>. HIDE DEF s
<1>4. TypeOK /\ s \in StateType
  BY <1>3 DEF IndInv, Good
<1>5. /\ Callee(s) \in StateType /\ Callee(s).space = s.space
      /\ \A w \in Var : SavedIn(s, w) => SavedIn(Callee(s), w)
  BY <1>4, CalleeKeeps
<1>6. /\ n \in StateType /\ n.space = Callee(s).space /\ n.mem = Callee(s).mem
      /\ \A i \in Reg : n.REGS[i].var = None
  BY <1>5 DEF StateType, Empty
<1>. HIDE DEF n
<1>7. st' = n /\ misread' = Received(s) /\ idx' = idx + 1 /\ blk' = blk
  BY <1>1 DEF Step
<1>8. misread' \subseteq Var \cup {RetVal}
  BY <1>4, <1>7, ReceivedType
<1>9. st'.space \subseteq st.space \cup AliveSet /\ st' \in StateType
  BY <1>3, <1>5, <1>6, <1>7
<1>10. /\ TypeOK' /\ Bookkeeping' /\ Idle'
       /\ AliveSet' = LaterSet(consumed) /\ Resident' = Resident
  BY <1>1, <1>7, <1>8, <1>9, CallBookkeeping
<1>11. \A w \in Resident \cup LaterSet(consumed) : SavedIn(n, w)
  BY <1>3, <1>5, <1>6 DEF Good, InMemory, SavedIn
<1>12. InMemory(st', Resident') /\ InMemory(st', AliveSet')
  BY <1>7, <1>10, <1>11 DEF InMemory
<1>. QED
  BY <1>6, <1>7, <1>10, <1>12, Unmapped

\* OP_indirect leaves REGS alone: what it names must not be read again.
LEMMA IndirectInv ==
    ASSUME IndInv, Safe, NEW f, Indirect(f) PROVE IndInv'
<1>. DEFINE none == call.args = 0
            s == IF none THEN spill_alive(refresh(st), consumed) ELSE refresh(st)
<1>1. /\ blk > 0 /\ pending = {} /\ CanUse(f)
      /\ call' = NoCall /\ ret' = TRUE
      /\ NoDefine /\ UNCHANGED <<consumed, is_const, exposed, pending>>
  BY DEF Indirect
<1>2. PICK p \in prepare_operand(s, f, {}) :
        /\ \A i \in Reg : LET w == p.st.REGS[i].var
                          IN w = None \/ (w \in Local \ live_out
                                          /\ consumed[w] <= idx)
        /\ Step(Callee(p.st), Missing(p.st, f, p.reg) \cup Received(p.st))
  BY DEF Indirect, Safe
<1>3. Idle => none
  BY DEF Idle, NoCall
<1>. HIDE DEF none
<1>4. /\ Good(s, AliveSet, killed, AliveSet, Resident \cup LaterSet(consumed))
      /\ Exact(s, AliveSet) \/ InMemory(s, AliveSet)
      /\ s.space \subseteq st.space \cup AliveSet
      /\ LaterSet(consumed) \subseteq AliveSet
      /\ AliveSet \subseteq Var /\ Resident \subseteq Var
  BY <1>1, <1>3, CallReady
<1>. HIDE DEF s
<1>5. f \in AliveSet /\ f \in Var
  BY <1>1, <1>4 DEF CanUse, CanUseAt, AliveSet
<1>6. /\ Good(p.st, AliveSet, killed, AliveSet, Resident \cup LaterSet(consumed))
      /\ p.st.space \subseteq s.space \cup AliveSet
  BY <1>4, <1>5, OperandGood
<1>7. TypeOK /\ p.st \in StateType
  BY <1>6 DEF IndInv, Good
<1>8. /\ st' = Callee(p.st) /\ idx' = idx + 1 /\ blk' = blk
      /\ misread' = Missing(p.st, f, p.reg) \cup Received(p.st)
  BY <1>2 DEF Step
<1>9. /\ st' \in StateType /\ st'.space = p.st.space /\ st'.REGS = p.st.REGS
      /\ \A w \in Var : SavedIn(p.st, w) => SavedIn(st', w)
  BY <1>7, <1>8, CalleeKeeps
<1>10. misread' \subseteq Var \cup {RetVal}
  BY <1>5, <1>7, <1>8, ReceivedType DEF Missing
<1>11. st'.space \subseteq st.space \cup AliveSet
  BY <1>4, <1>6, <1>9
<1>12. /\ TypeOK' /\ Bookkeeping' /\ Idle'
       /\ AliveSet' = LaterSet(consumed) /\ Resident' = Resident
  BY <1>1, <1>8, <1>9, <1>10, <1>11, CallBookkeeping
<1>13. \A w \in Resident \cup LaterSet(consumed) : SavedIn(st', w)
  BY <1>4, <1>6, <1>9 DEF Good, InMemory
<1>14. InMemory(st', Resident') /\ InMemory(st', AliveSet')
  BY <1>12, <1>13 DEF InMemory
<1>15. \A i \in Reg : st'.REGS[i].var \notin AliveSet'
  <2>. SUFFICES ASSUME NEW i \in Reg, p.st.REGS[i].var \in LaterSet(consumed)
                PROVE  FALSE
    BY <1>9, <1>12
  <2>1. p.st.REGS[i].var \in Var /\ p.st.REGS[i].var # None
    BY <1>4, NoneNotVar
  <2>2. consumed[p.st.REGS[i].var] \in Int /\ idx \in Int
    BY <1>7, <2>1 DEF TypeOK
  <2>. QED
    BY <1>2, <2>1, <2>2 DEF LaterSet
<1>16. Truthful(st', AliveSet') /\ Exact(st', AliveSet')
  BY <1>15 DEF Truthful, Exact
<1>17. DirtyKilled(st', killed')
  BY <1>1, <1>6, <1>9 DEF Good, DirtyKilled, NoDefine
<1>18. Known(st', (avail \cup Global)')
  <2>1. AliveSet \subseteq avail \cup Global
    BY DEF AliveSet
  <2>. QED
    BY <1>1, <1>6, <1>9, <2>1 DEF Good, Known, NoDefine
<1>. QED
  BY <1>12, <1>14, <1>16, <1>17, <1>18, Settled

\* The state in which the operand of an OP_push is prepared; c is the value
\* of consumed after extend_liveness().
PushPre(s, L, c) ==
    /\ IndInv /\ pending = {} /\ L \subseteq AliveSet /\ LaterSet(c) \subseteq L
    /\ Good(s, L, killed, L, Resident \cup LaterSet(c))
    /\ Exact(s, L) \/ InMemory(s, L)
    /\ s.space \subseteq st.space \cup AliveSet

\* The state after it.
PushPost(n, c) ==
    /\ n \in StateType
    /\ Truthful(n, LaterSet(c)) /\ InMemory(n, Resident \cup LaterSet(c))
    /\ DirtyKilled(n, killed) /\ Known(n, AliveSet)
    /\ n.space \subseteq st.space \cup AliveSet

LEMMA PushSkipped ==
    ASSUME NEW s, NEW L, NEW c, PushPre(s, L, c) PROVE PushPost(s, c)
<1>1. /\ Good(s, L, killed, L, Resident \cup LaterSet(c))
      /\ L \subseteq AliveSet /\ LaterSet(c) \subseteq L
      /\ s.space \subseteq st.space \cup AliveSet
  BY DEF PushPre
<1>2. Truthful(s, LaterSet(c)) /\ DirtyKilled(s, killed) /\ Known(s, AliveSet)
  BY <1>1 DEF Good, Truthful, DirtyKilled, Known
<1>. QED
  BY <1>1, <1>2 DEF PushPost, Good

\* OP_push copies its operand to argument register r.
Argument(p, v, r) ==
    [p.st EXCEPT !.reg = [@ EXCEPT ![r] = p.st.reg[p.reg]],
                 !.REGS = [@ EXCEPT ![r] = [var |-> v, polluted |-> FALSE]]]

LEMMA PushPassed ==
    ASSUME NEW s, NEW L, NEW c, PushPre(s, L, c), NEW v \in L,
           NEW p \in prepare_operand(s, v, {}), NEW r \in Reg
    PROVE  PushPost(Argument(p, v, r), c) /\ p.st.reg[p.reg] = v
<1>. DEFINE n == Argument(p, v, r)
<1>1. /\ Good(s, L, killed, L, Resident \cup LaterSet(c))
      /\ Exact(s, L) \/ InMemory(s, L)
      /\ L \subseteq AliveSet /\ LaterSet(c) \subseteq L
      /\ s.space \subseteq st.space \cup AliveSet
  BY DEF PushPre
<1>2. AliveSet \subseteq Var /\ Resident \subseteq Var
  BY RefreshGood DEF PushPre
<1>3. L \subseteq Var /\ Resident \cup LaterSet(c) \subseteq Var /\ v \in L \cap L
  BY <1>1, <1>2
<1>4. /\ p.reg \in Reg
      /\ Good(p.st, L, killed, L, Resident \cup LaterSet(c))
      /\ p.st.reg[p.reg] = v
      /\ p.st.space \subseteq s.space \cup L
  BY <1>1, <1>3, OperandGood
<1>5. p.st \in StateType /\ v \in Var
  BY <1>3, <1>4 DEF Good
<1>6. /\ n \in StateType /\ n.mem = p.st.mem /\ n.space = p.st.space
      /\ n.reg = [p.st.reg EXCEPT ![r] = v]
      /\ n.REGS = [p.st.REGS EXCEPT ![r] = [var |-> v, polluted |-> FALSE]]
  BY <1>4, <1>5 DEF Argument, StateType, Content
<1>. HIDE DEF n
<1>7. Truthful(n, LaterSet(c))
  BY <1>1, <1>4, <1>5, <1>6 DEF Good, Truthful, StateType
<1>8. InMemory(n, Resident \cup LaterSet(c))
  BY <1>4, <1>6 DEF Good, InMemory, SavedIn
<1>9. DirtyKilled(n, killed)
  BY <1>4, <1>5, <1>6 DEF Good, DirtyKilled, StateType
<1>10. Known(n, AliveSet)
  BY <1>1, <1>4, <1>5, <1>6 DEF Good, Known, StateType
<1>11. n.space \subseteq st.space \cup AliveSet
  BY <1>1, <1>4, <1>6
<1>. QED
  BY <1>4, <1>6, <1>7, <1>8, <1>9, <1>10, <1>11 DEF PushPost, n

\* The record of the call being set up.
CallOK(k) ==
    /\ k \in CallType
    /\ k.pos < Len(k.params) /\ k.args <= k.pos
    /\ k.on_stack \/ Len(k.params) <= MAX_ARGS_IN_REG
    /\ \A i \in (k.pos + 1)..Len(k.params) :
         CanUseAt(k.params[i], idx + i - k.pos - 1)

LEMMA PassedStep ==
    ASSUME NEW s, NEW L, NEW c, PushPre(s, L, c), NEW k, CallOK(k),
           k.params[k.pos + 1] \in L, Passed(k, s, k.params[k.pos + 1])
    PROVE  /\ PushPost(st', c) /\ misread' = {}
           /\ idx' = idx + 1 /\ blk' = blk
           /\ call' \in CallType
           /\ call'.params = k.params /\ call'.on_stack = k.on_stack
           /\ call'.out = k.out
           /\ call'.pos = k.pos + 1 /\ call'.args <= call'.pos
           /\ \/ /\ k.args >= MAX_ARGS_IN_REG
                 /\ call'.args = k.args /\ st' = s
              \/ /\ k.args < MAX_ARGS_IN_REG /\ call'.args = k.args + 1
                 /\ \E p \in prepare_operand(s, k.params[k.pos + 1], {}) :
                      /\ p.st.reg[p.reg] = k.params[k.pos + 1]
                      /\ st' = Argument(p, k.params[k.pos + 1], k.args)
<1>. DEFINE v == k.params[k.pos + 1]
<1>0. /\ k \in CallType /\ k.pos \in Nat /\ k.args \in Nat
      /\ Len(k.params) \in Nat
      /\ k.pos < Len(k.params) /\ k.args <= k.pos
      /\ k.on_stack \/ Len(k.params) <= MAX_ARGS_IN_REG
  BY CallFields DEF CallOK
<1>1. CASE k.on_stack /\ k.args >= MAX_ARGS_IN_REG
  <2>1. Step(s, {}) /\ call' = [k EXCEPT !.pos = @ + 1]
    BY <1>1 DEF Passed
  <2>2. PushPost(s, c)
    BY PushSkipped
  <2>3. \A x \in Nat : LET m == [k EXCEPT !.pos = x]
                        IN /\ m \in CallType /\ m.params = k.params
                           /\ m.on_stack = k.on_stack /\ m.out = k.out
                           /\ m.pos = x /\ m.args = k.args
    BY <1>0 DEF CallType
  <2>4. k.pos + 1 \in Nat /\ k.args <= k.pos + 1
    BY <1>0
  <2>5. call' = [k EXCEPT !.pos = k.pos + 1]
    BY <2>1
  <2>6. /\ call' \in CallType /\ call'.params = k.params
        /\ call'.on_stack = k.on_stack /\ call'.out = k.out
        /\ call'.pos = k.pos + 1 /\ call'.args = k.args
    BY <2>3, <2>4, <2>5
  <2>. QED
    BY <1>1, <2>1, <2>2, <2>4, <2>6 DEF Step
<1>2. CASE ~(k.on_stack /\ k.args >= MAX_ARGS_IN_REG)
  <2>1. PICK p \in prepare_operand(s, v, {}) :
          /\ Step(Argument(p, v, k.args), Missing(p.st, v, p.reg))
          /\ call' = [k EXCEPT !.pos = @ + 1, !.args = @ + 1]
    BY <1>2 DEF Passed, Argument
  <2>2. k.args \in Reg /\ k.args < MAX_ARGS_IN_REG
    BY <1>0, <1>2, RegAssumption DEF Reg
  <2>3. PushPost(Argument(p, v, k.args), c) /\ p.st.reg[p.reg] = v
    BY <2>2, PushPassed
  <2>4. Missing(p.st, v, p.reg) = {}
    BY <2>3 DEF Missing
  <2>5. st' = Argument(p, v, k.args) /\ misread' = {} /\ idx' = idx + 1
        /\ blk' = blk
    BY <2>1, <2>4 DEF Step
  <2>6. call' = [k EXCEPT !.pos = @ + 1, !.args = @ + 1]
    BY <2>1
  <2>7. /\ call' \in CallType
        /\ call'.params = k.params /\ call'.on_stack = k.on_stack
        /\ call'.pos = k.pos + 1 /\ call'.args = k.args + 1
        /\ call'.out = k.out
    <3>1. k.pos + 1 \in Nat /\ k.args + 1 \in 0..MAX_ARGS_IN_REG
      BY <1>0, <2>2, RegAssumption
    <3>2. \A x \in Nat, y \in 0..MAX_ARGS_IN_REG :
            LET m == [k EXCEPT !.pos = x, !.args = y]
            IN /\ m \in CallType
               /\ m.params = k.params /\ m.on_stack = k.on_stack
               /\ m.pos = x /\ m.args = y /\ m.out = k.out
      BY <1>0 DEF CallType
    <3>3. LET m == [k EXCEPT !.pos = k.pos + 1, !.args = k.args + 1]
          IN /\ m \in CallType
             /\ m.params = k.params /\ m.on_stack = k.on_stack
             /\ m.pos = k.pos + 1 /\ m.args = k.args + 1
             /\ m.out = k.out
      BY <3>1, <3>2
    <3>. QED
      BY <2>6, <3>3
  <2>8. call'.args <= call'.pos
    BY <1>0, <2>7
  <2>. QED
    BY <2>2, <2>3, <2>5, <2>7, <2>8
<1>. QED
  BY <1>1, <1>2

LEMMA Shift ==
    \A x, y, z \in Int : (x + 1) + z - (y + 1) - 1 = x + z - y - 1
  OBVIOUS

\* The invariant after an OP_push.
LEMMA PushInv ==
    ASSUME NEW s, NEW L, NEW c, PushPre(s, L, c), NEW k, CallOK(k),
           k.params[k.pos + 1] \in L, Passed(k, s, k.params[k.pos + 1]),
           blk > 0, c \in [Var -> Int], \A w \in Var : c[w] >= consumed[w],
           consumed' = c, NoDefine, UNCHANGED <<is_const, exposed, pending>>,
           ret' \in BOOLEAN
    PROVE  IndInv' /\ OperandsFound'
<1>1. IndInv /\ TypeOK /\ Bookkeeping /\ pending = {}
  BY DEF PushPre, IndInv
<1>2. /\ PushPost(st', c) /\ misread' = {}
      /\ idx' = idx + 1 /\ blk' = blk
      /\ call' \in CallType
      /\ call'.params = k.params /\ call'.on_stack = k.on_stack
      /\ call'.pos = k.pos + 1 /\ call'.args <= call'.pos
  BY PassedStep
<1>3. /\ avail' = avail /\ defd' = defd /\ killed' = killed
      /\ live_out' = live_out /\ pending' = pending /\ is_const' = is_const
      /\ exposed' = exposed
  BY DEF NoDefine
<1>4. TypeOK'
  <2>1. misread' \subseteq Var \cup {RetVal}
    BY <1>2
  <2>2. idx' \in Nat /\ blk' \in Nat
    BY <1>1, <1>2 DEF TypeOK
  <2>3. st' \in StateType
    BY <1>2 DEF PushPost
  <2>. QED
    BY <1>1, <1>2, <1>3, <2>1, <2>2, <2>3 DEF TypeOK
<1>5. ~Idle'
  <2>1. k.pos \in Nat /\ NoCall.pos = 0
    BY CallFields DEF CallOK, NoCall
  <2>. QED
    BY <1>2, <2>1 DEF Idle
<1>6. AliveSet' = LaterSet(c) /\ Resident' = Resident
  <2>1. AliveSet' = LaterSet(c)
    BY <1>1, <1>2, <1>3, LaterAlive
  <2>. QED
    BY <1>3, <2>1 DEF Resident
<1>7. Bookkeeping'
  <2>1. st'.space \subseteq defd' \cup PhiVars \cup Global
    <3>1. AliveSet \subseteq defd \cup PhiVars \cup Global
      BY <1>1 DEF AliveSet, Bookkeeping
    <3>. QED
      BY <1>1, <1>2, <1>3, <3>1 DEF Bookkeeping, PushPost
  <2>2. /\ call'.pos \in 1..Len(call'.params)
        /\ call'.on_stack \/ Len(call'.params) <= MAX_ARGS_IN_REG
    BY <1>2, CallFields DEF CallOK
  <2>3. \A i \in (call'.pos + 1)..Len(call'.params) :
          CanUseAt(call.params[i], idx + i - call.pos - 1)'
    <3>. SUFFICES ASSUME NEW i \in (k.pos + 2)..Len(k.params)
                  PROVE  CanUseAt(call.params[i], idx + i - call.pos - 1)'
      BY <1>2, CallFields DEF CallOK
    <3>1. k.pos \in Nat /\ Len(k.params) \in Nat /\ idx \in Nat
      BY <1>1, CallFields DEF CallOK, TypeOK
    <3>2. CanUseAt(k.params[i], idx + i - k.pos - 1)
      BY <3>1 DEF CallOK
    <3>3. k.params[i] \in Var
      BY <1>1, <3>2 DEF CanUseAt, TypeOK, Var
    <3>4. c[k.params[i]] >= consumed[k.params[i]]
      BY <3>3
    <3>5. c[k.params[i]] \in Int /\ consumed[k.params[i]] \in Int
      BY <1>1, <3>3 DEF TypeOK
    <3>6. idx' = idx + 1 /\ call'.pos = k.pos + 1 /\ call'.params = k.params
      BY <1>2
    <3>7. i \in Int
      BY <3>1
    <3>8. idx' + i - call'.pos - 1 = idx + i - k.pos - 1
      <4>1. k.pos \in Int /\ idx \in Int
        BY <3>1
      <4>2. (idx + 1) + i - (k.pos + 1) - 1 = idx + i - k.pos - 1
        BY <3>7, <4>1, Shift, Zenon
      <4>. QED
        BY <3>6, <4>2
    <3>9. /\ k.params[i] \in (avail' \cup Global) \ pending'
          /\ consumed'[k.params[i]] >= idx + i - k.pos - 1
      BY <1>3, <3>1, <3>2, <3>4, <3>5, <3>7 DEF CanUseAt
    <3>. QED
      BY <3>6, <3>8, <3>9 DEF CanUseAt
  <2>4. ~(blk' = 0)
    BY <1>1, <1>2 DEF TypeOK
  <2>. QED
    BY <1>1, <1>2, <1>3, <1>5, <2>1, <2>2, <2>3, <2>4 DEF Bookkeeping
<1>8. /\ Truthful(st', AliveSet') /\ InMemory(st', Resident')
      /\ InMemory(st', AliveSet')
  BY <1>2, <1>6 DEF PushPost, InMemory
<1>9. DirtyKilled(st', killed') /\ Known(st', (avail \cup Global)')
  BY <1>2, <1>3 DEF PushPost, Known, AliveSet
<1>10. IndInv'
  BY <1>4, <1>5, <1>7, <1>8, <1>9, Settled
<1>. QED
  BY <1>2, <1>10 DEF OperandsFound

\* What the lemmas on OP_push need: s is the state in which the operand is
\* prepared, c the new value of consumed, k the call so far.
Pushing(s, L, c, k) ==
    /\ PushPre(s, L, c) /\ CallOK(k)
    /\ k.params[k.pos + 1] \in L /\ Passed(k, s, k.params[k.pos + 1])
    /\ blk > 0
    /\ c \in [Var -> Int] /\ \A w \in Var : c[w] >= consumed[w]
    /\ \/ k.params[k.pos + 1] \in live_out
       \/ c[k.params[k.pos + 1]] >= idx + (Len(k.params) - k.pos)
    /\ consumed' = c /\ NoDefine /\ UNCHANGED <<is_const, exposed, pending>>

LEMMA NextPushReady ==
    ASSUME IndInv, NextPush
    PROVE  /\ ~Idle /\ ret' = ret
           /\ \E c : Pushing(refresh(st), AliveSet, c, call)
<1>. DEFINE v == call.params[call.pos + 1]
            sz == Len(call.params) - call.pos
            c == extend_liveness(v, sz)
<1>1. /\ call.pos \in 1..(Len(call.params) - 1)
      /\ consumed' = c /\ Passed(call, refresh(st), v)
      /\ NoDefine /\ UNCHANGED <<is_const, exposed, pending, ret>>
  BY DEF NextPush
<1>2. TypeOK /\ Bookkeeping
  BY DEF IndInv
<1>3. call.params \in Seq(Var) /\ Len(call.params) \in Nat /\ call.pos \in Nat
  BY <1>2, CallFields DEF TypeOK
<1>4. ~Idle
  BY <1>1, <1>3 DEF Idle, NoCall
<1>5. pending = {} /\ CallOK(call)
  <2>1. call \in CallType
    BY <1>2 DEF TypeOK
  <2>2. call.pos < Len(call.params)
    BY <1>1, <1>3
  <2>. QED
    BY <1>2, <1>4, <2>1, <2>2 DEF Bookkeeping, CallOK
<1>6. blk > 0
  BY <1>2, <1>4 DEF Bookkeeping, TypeOK
<1>7. v \in Var /\ CanUse(v) /\ sz \in Nat /\ sz >= 1
  <2>1. call.pos + 1 \in (call.pos + 1)..Len(call.params)
    BY <1>1, <1>3
  <2>2. CanUseAt(v, idx + (call.pos + 1) - call.pos - 1)
    BY <1>5, <2>1 DEF CallOK
  <2>3. idx + (call.pos + 1) - call.pos - 1 = idx
    BY <1>2, <1>3 DEF TypeOK
  <2>4. CanUse(v)
    BY <2>2, <2>3 DEF CanUse
  <2>5. v \in Var
    BY <1>1, <1>3
  <2>6. sz \in Nat /\ sz >= 1
    BY <1>1, <1>3
  <2>. QED
    BY <2>4, <2>5, <2>6
<1>. HIDE DEF v, sz
<1>8. /\ c \in [Var -> Int] /\ \A w \in Var : c[w] >= consumed[w]
      /\ LaterSet(c) \subseteq AliveSet /\ v \in LaterSet(c)
      /\ v \in live_out \/ c[v] >= idx + sz
  BY <1>2, <1>7, ExtendAlive
<1>. HIDE DEF c
<1>9. /\ Good(refresh(st), AliveSet, killed, AliveSet \cup pending, Resident)
      /\ InMemory(refresh(st), AliveSet) /\ refresh(st).space = st.space
  BY <1>4, RefreshGood
<1>10. Good(refresh(st), AliveSet, killed, AliveSet, Resident \cup LaterSet(c))
  <2>1. AliveSet \cup pending = AliveSet
    BY <1>5
  <2>2. InMemory(refresh(st), Resident \cup LaterSet(c))
    BY <1>8, <1>9 DEF Good, InMemory
  <2>. QED
    BY <1>9, <2>1, <2>2 DEF Good
<1>11. PushPre(refresh(st), AliveSet, c)
  BY <1>5, <1>8, <1>9, <1>10 DEF PushPre
<1>12. v \in AliveSet
  BY <1>8
<1>. QED
  BY <1>1, <1>4, <1>5, <1>6, <1>8, <1>11, <1>12 DEF Pushing, v, sz

LEMMA NextPushInv ==
    ASSUME IndInv, NextPush PROVE IndInv' /\ OperandsFound'
<1>1. PICK c : Pushing(refresh(st), AliveSet, c, call)
  BY NextPushReady
<1>2. ret' \in BOOLEAN
  BY NextPushReady DEF IndInv, TypeOK
<1>. QED
  BY <1>1, <1>2, PushInv DEF Pushing

\* abi_lower_call_args() overwrites one register, whose entry it clears.
LEMMA LowerGood ==
    ASSUME IndInv, NEW s, NEW c, LaterSet(c) \subseteq AliveSet,
           NEW ps, \A i \in (MAX_ARGS_IN_REG + 1)..Len(ps) : ps[i] \in LaterSet(c),
           Len(ps) \in Nat,
           Good(s, AliveSet, killed, AliveSet, Resident \cup LaterSet(c)),
           \A i \in Reg : s.REGS[i].var \notin LaterSet(c),
           Exact(s, AliveSet)
    PROVE  LET a == abi_lower_call_args(s, ps)
               L == LaterSet(c) \cup {w \in AliveSet : Holding(a.st, w) # {}}
           IN /\ Good(a.st, L, killed, L, Resident \cup LaterSet(c))
              /\ Exact(a.st, L) /\ a.st.space = s.space
              /\ \A i \in Reg : a.st.REGS[i].var \notin LaterSet(c)
<1>. DEFINE a == abi_lower_call_args(s, ps)
            n == a.st
            L == LaterSet(c) \cup {w \in AliveSet : Holding(n, w) # {}}
            last == MAX_ARGS_IN_REG - 1
            extra == (MAX_ARGS_IN_REG + 1)..Len(ps)
<1>1. s \in StateType /\ AliveSet \subseteq Var /\ last \in Reg
  BY RefreshGood, RegAssumption DEF Good, Reg
<1>2. /\ n \in StateType /\ n.mem = s.mem /\ n.space = s.space
      /\ \A i \in Reg : \/ n.REGS[i] = s.REGS[i] /\ n.reg[i] = s.reg[i]
                        \/ n.REGS[i] = Empty
      /\ \A v \in Var \ LaterSet(c) : n.phys_reg[v] = s.phys_reg[v]
  <2>1. CASE extra = {}
    <3>1. n = s
      BY <2>1 DEF abi_lower_call_args
    <3>. QED
      BY <1>1, <3>1
  <2>2. CASE extra # {}
    <3>. DEFINE x == Fetch(s, ps[last + 2])
    <3>1. n = [s EXCEPT !.reg = [@ EXCEPT ![last] = x],
                        !.REGS = [@ EXCEPT ![last] = Empty],
                        !.phys_reg = [v \in Var |-> IF \E i \in extra : ps[i] = v
                                                      THEN last
                                                      ELSE s.phys_reg[v]]]
      BY <2>2 DEF abi_lower_call_args
    <3>2. x \in Content
      <4>1. last + 2 \in extra /\ last + 2 = MAX_ARGS_IN_REG + 1
        BY <2>2, RegAssumption
      <4>2. ps[last + 2] \in Var
        BY <1>1, <4>1
      <4>. QED
        BY <1>1, <4>2 DEF Fetch, StateType, Content
    <3>3. \A v \in Var \ LaterSet(c) : ~\E i \in extra : ps[i] = v
      OBVIOUS
    <3>. HIDE DEF x, extra, last
    <3>4. /\ n.reg = [s.reg EXCEPT ![last] = x]
          /\ n.REGS = [s.REGS EXCEPT ![last] = Empty]
          /\ n.phys_reg = [v \in Var |-> IF \E i \in extra : ps[i] = v
                                           THEN last ELSE s.phys_reg[v]]
          /\ n.mem = s.mem /\ n.space = s.space
      BY <1>1, <3>1 DEF StateType
    <3>5. n \in StateType
      <4>1. Empty \in [var : Var \cup {None}, polluted : BOOLEAN]
        BY DEF Empty
      <4>2. n.phys_reg \in [Var -> Reg \cup {NoReg}]
        BY <1>1, <3>4 DEF StateType
      <4>3. n.reg \in [Reg -> Content]
        BY <1>1, <3>2, <3>4 DEF StateType
      <4>4. n.REGS \in [Reg -> [var : Var \cup {None}, polluted : BOOLEAN]]
        BY <1>1, <3>4, <4>1 DEF StateType
      <4>. QED
        BY <1>1, <3>1, <4>2, <4>3, <4>4 DEF StateType
    <3>6. \A i \in Reg : \/ n.REGS[i] = s.REGS[i] /\ n.reg[i] = s.reg[i]
                         \/ n.REGS[i] = Empty
      BY <1>1, <3>4 DEF StateType
    <3>. QED
      BY <3>3, <3>4, <3>5, <3>6
  <2>. QED
    BY <2>1, <2>2
<1>. HIDE DEF n, L
<1>3. \A w : SavedIn(n, w) <=> SavedIn(s, w)
  BY <1>2 DEF SavedIn
<1>4. None \notin AliveSet /\ L \subseteq AliveSet /\ LaterSet(c) \subseteq L
  BY <1>1, NoneNotVar DEF L
<1>5. Truthful(n, L) /\ CleanSaved(n, L)
  BY <1>2, <1>3, <1>4 DEF Good, Truthful, CleanSaved, Empty
<1>6. Present(n, L)
  BY <1>3, <1>4 DEF Good, Present, InMemory, L, Holding
<1>7. \A i \in Reg : n.REGS[i].var \in AliveSet => n.REGS[i].var \in L
  BY DEF L, Holding
<1>8. DirtyKilled(n, killed \cap L) /\ Known(n, L)
  BY <1>2, <1>7 DEF Good, DirtyKilled, Known, Empty
<1>9. InMemory(n, Resident \cup LaterSet(c)) /\ Slots(n, L)
  BY <1>2, <1>3, <1>4 DEF Good, InMemory, Slots
<1>10. Exact(n, L)
  <2>. SUFFICES ASSUME NEW i \in Reg,
                       n.REGS[i].var \in L \cap (AddrVars \cup Global)
                PROVE  n.phys_reg[n.REGS[i].var] = i
    BY DEF Exact
  <2>1. n.REGS[i] = s.REGS[i] /\ s.REGS[i].var \in AliveSet
    BY <1>2, <1>4 DEF Empty
  <2>2. s.REGS[i].var \in Var \ LaterSet(c)
    BY <1>1, <2>1
  <2>3. s.phys_reg[s.REGS[i].var] = i
    BY <2>1 DEF Exact
  <2>. QED
    BY <1>2, <2>1, <2>2, <2>3
<1>11. \A i \in Reg : n.REGS[i].var \notin LaterSet(c)
  BY <1>2, <1>4 DEF Empty
<1>. QED
  BY <1>2, <1>5, <1>6, <1>8, <1>9, <1>10, <1>11 DEF Good, n, L

\* The types of what abi_lower_call_args() puts in the record of the call.
LEMMA LowerType ==
    ASSUME NEW s \in StateType, NEW ps \in Seq(Var)
    PROVE  LET a == abi_lower_call_args(s, ps)
           IN /\ a.on_stack \in BOOLEAN /\ a.out \in Seq(Content)
              /\ a.on_stack \/ Len(ps) <= MAX_ARGS_IN_REG
<1>. DEFINE extra == (MAX_ARGS_IN_REG + 1)..Len(ps)
            a == abi_lower_call_args(s, ps)
<1>1. MAX_ARGS_IN_REG \in Nat /\ Len(ps) \in Nat
  BY RegAssumption
<1>2. CASE extra = {}
  <2>1. a = [st |-> s, on_stack |-> FALSE, out |-> <<>>]
    BY <1>2 DEF abi_lower_call_args
  <2>2. Len(ps) <= MAX_ARGS_IN_REG
    BY <1>1, <1>2
  <2>. QED
    BY <2>1, <2>2
<1>3. CASE extra # {}
  <2>1. /\ a.on_stack = TRUE
        /\ a.out = [i \in 1..(Len(ps) - MAX_ARGS_IN_REG) |->
                      Fetch(s, ps[MAX_ARGS_IN_REG + i])]
    BY <1>3 DEF abi_lower_call_args
  <2>2. Len(ps) - MAX_ARGS_IN_REG \in Nat
    BY <1>1, <1>3
  <2>3. \A i \in 1..(Len(ps) - MAX_ARGS_IN_REG) :
          Fetch(s, ps[MAX_ARGS_IN_REG + i]) \in Content
    <3>. SUFFICES ASSUME NEW i \in 1..(Len(ps) - MAX_ARGS_IN_REG)
                  PROVE  Fetch(s, ps[MAX_ARGS_IN_REG + i]) \in Content
      OBVIOUS
    <3>1. MAX_ARGS_IN_REG + i \in 1..Len(ps)
      BY <1>1
    <3>2. ps[MAX_ARGS_IN_REG + i] \in Var
      BY <3>1
    <3>. QED
      BY <3>2 DEF Fetch, StateType, Content
  <2>4. a.out \in Seq(Content)
    BY <2>1, <2>2, <2>3
  <2>. QED
    BY <2>1, <2>4
<1>. QED
  BY <1>2, <1>3

\* The outgoing area of a call holds the arguments beyond the registers.
LEMMA LowerOut ==
    ASSUME NEW s, NEW c, NEW ps, Len(ps) \in Nat,
           InMemory(s, LaterSet(c)),
           \A i \in (MAX_ARGS_IN_REG + 1)..Len(ps) : ps[i] \in LaterSet(c)
    PROVE  \A i \in (MAX_ARGS_IN_REG + 1)..Len(ps) :
             abi_lower_call_args(s, ps).out[i - MAX_ARGS_IN_REG] = ps[i]
<1>. SUFFICES ASSUME NEW i \in (MAX_ARGS_IN_REG + 1)..Len(ps)
              PROVE  abi_lower_call_args(s, ps).out[i - MAX_ARGS_IN_REG] = ps[i]
  OBVIOUS
<1>1. MAX_ARGS_IN_REG \in Nat
  BY RegAssumption
<1>2. abi_lower_call_args(s, ps).out
        = [j \in 1..(Len(ps) - MAX_ARGS_IN_REG) |->
             Fetch(s, ps[MAX_ARGS_IN_REG + j])]
  BY DEF abi_lower_call_args
<1>3. /\ i - MAX_ARGS_IN_REG \in 1..(Len(ps) - MAX_ARGS_IN_REG)
      /\ MAX_ARGS_IN_REG + (i - MAX_ARGS_IN_REG) = i
  BY <1>1
<1>4. Fetch(s, ps[i]) = ps[i]
  BY DEF InMemory, SavedIn, Fetch
<1>. QED
  BY <1>2, <1>3, <1>4

\* The record with which the first OP_push of a call begins.
NewCall(ps, on_stack, out) ==
    [params |-> ps, pos |-> 0, args |-> 0, on_stack |-> on_stack, out |-> out]

LEMMA FirstPushReady ==
    ASSUME IndInv, NEW ps \in Calls(MAX_PARAMS), FirstPush(ps)
    PROVE  \E s, L, c, on_stack, out :
             /\ Pushing(s, L, c, NewCall(ps, on_stack, out))
             /\ \A i \in Reg : s.REGS[i].var \notin LaterSet(c)
             /\ \A i \in (MAX_ARGS_IN_REG + 1)..Len(ps) :
                  out[i - MAX_ARGS_IN_REG] = ps[i]
             /\ ps \in Seq(Var) /\ Len(ps) \in 1..MAX_PARAMS
             /\ ret' = FALSE
<1>. DEFINE c == extend_liveness(ps[1], Len(ps))
            s == spill_alive(refresh(st), c)
            a == abi_lower_call_args(s, ps)
            L == LaterSet(c) \cup {w \in AliveSet : Holding(a.st, w) # {}}
            k == NewCall(ps, a.on_stack, a.out)
<1>1. /\ Idle /\ InBlock /\ ps # <<>>
      /\ \A i \in 1..Len(ps) : CanUseAt(ps[i], idx + i - 1)
      /\ consumed' = c /\ Passed(k, a.st, ps[1])
      /\ NoDefine /\ UNCHANGED <<is_const, exposed, pending>> /\ ret' = FALSE
  BY DEF FirstPush, NewCall
<1>2. /\ ps \in Seq(Var) /\ Len(ps) \in Nat /\ Len(ps) >= 1
      /\ Len(ps) \in 1..MAX_PARAMS
  <2>1. PICK n \in 1..MAX_PARAMS : ps \in [1..n -> Var]
    BY DEF Calls
  <2>2. n \in Nat /\ n >= 1
    BY RegAssumption
  <2>. QED
    BY <2>1, <2>2
<1>3. TypeOK /\ idx \in Nat /\ pending = {} /\ blk > 0
  BY <1>1 DEF IndInv, TypeOK, InBlock
<1>4. ps[1] \in Var /\ CanUse(ps[1])
  <2>1. CanUseAt(ps[1], idx + 1 - 1) /\ idx + 1 - 1 = idx
    BY <1>1, <1>2, <1>3
  <2>. QED
    BY <1>2, <2>1 DEF CanUse
<1>5. /\ c \in [Var -> Int] /\ \A w \in Var : c[w] >= consumed[w]
      /\ LaterSet(c) \subseteq AliveSet /\ ps[1] \in LaterSet(c)
      /\ ps[1] \in live_out \/ c[ps[1]] >= idx + Len(ps)
  BY <1>2, <1>3, <1>4, ExtendAlive
<1>. HIDE DEF c
<1>6. \A i \in (MAX_ARGS_IN_REG + 1)..Len(ps) : ps[i] \in LaterSet(c)
  <2>. SUFFICES ASSUME NEW i \in (MAX_ARGS_IN_REG + 1)..Len(ps)
                PROVE  ps[i] \in LaterSet(c)
    OBVIOUS
  <2>1. i \in 1..Len(ps) /\ i >= 2 /\ i \in Int
    BY <1>2, RegAssumption
  <2>2. CanUseAt(ps[i], idx + i - 1) /\ ps[i] \in Var
    BY <1>1, <1>2, <2>1
  <2>3. c[ps[i]] >= consumed[ps[i]] /\ c[ps[i]] \in Int /\ consumed[ps[i]] \in Int
    BY <1>3, <1>5, <2>2 DEF TypeOK
  <2>4. consumed[ps[i]] >= idx + i - 1
    BY <2>2 DEF CanUseAt
  <2>5. c[ps[i]] > idx
    BY <1>3, <2>1, <2>3, <2>4
  <2>. QED
    BY <2>2, <2>5 DEF CanUseAt, LaterSet
<1>7. /\ Good(refresh(st), AliveSet, killed, AliveSet \cup pending, Resident)
      /\ Exact(refresh(st), AliveSet) /\ refresh(st).space = st.space
      /\ AliveSet \subseteq Var /\ Resident \subseteq Var
  BY <1>1, RefreshGood
<1>8. Good(refresh(st), AliveSet, killed, AliveSet, Resident)
  <2>1. AliveSet \cup pending = AliveSet
    BY <1>3
  <2>. QED
    BY <1>7, <2>1
<1>9. /\ Good(s, AliveSet, killed, AliveSet, Resident \cup LaterSet(c))
      /\ \A i \in Reg : s.REGS[i].var \notin LaterSet(c)
      /\ Exact(s, AliveSet)
      /\ s.space \subseteq refresh(st).space \cup AliveSet
  BY <1>3, <1>5, <1>7, <1>8, SpillAlive
<1>. HIDE DEF s
<1>10. /\ Good(a.st, L, killed, L, Resident \cup LaterSet(c))
       /\ Exact(a.st, L) /\ a.st.space = s.space
       /\ \A i \in Reg : a.st.REGS[i].var \notin LaterSet(c)
  BY <1>2, <1>5, <1>6, <1>9, LowerGood
<1>11. /\ a.on_stack \in BOOLEAN /\ a.out \in Seq(Content)
       /\ a.on_stack \/ Len(ps) <= MAX_ARGS_IN_REG
       /\ \A i \in (MAX_ARGS_IN_REG + 1)..Len(ps) :
            a.out[i - MAX_ARGS_IN_REG] = ps[i]
  <2>1. InMemory(s, LaterSet(c))
    BY <1>9 DEF Good, InMemory
  <2>. QED
    BY <1>2, <1>6, <1>9, <2>1, LowerType, LowerOut DEF Good
<1>12. L \subseteq AliveSet /\ LaterSet(c) \subseteq L
  BY <1>5
<1>13. PushPre(a.st, L, c)
  BY <1>3, <1>7, <1>9, <1>10, <1>12 DEF PushPre
<1>. HIDE DEF L, a
<1>. USE DEF NewCall
<1>14. CallOK(k)
  <2>1. \A i \in 1..Len(ps) : CanUseAt(ps[i], idx + i - 0 - 1)
    <3>1. \A i \in 1..Len(ps) : idx + i - 0 - 1 = idx + i - 1
      BY <1>2, <1>3
    <3>. QED
      BY <1>1, <3>1
  <2>2. k \in CallType
    BY <1>2, <1>11, RegAssumption DEF CallType
  <2>. QED
    BY <1>2, <1>11, <2>1, <2>2 DEF CallOK
<1>15. k.params[k.pos + 1] = ps[1] /\ ps[1] \in L
  BY <1>5, <1>12
<1>16. Passed(k, a.st, k.params[k.pos + 1])
  BY <1>1, <1>15
<1>17. k.params = ps /\ Len(ps) - k.pos = Len(ps)
  BY <1>2
<1>. HIDE DEF k
<1>18. Pushing(a.st, L, c, k)
  BY <1>1, <1>3, <1>5, <1>13, <1>14, <1>15, <1>16, <1>17 DEF Pushing
<1>19. Pushing(a.st, L, c, NewCall(ps, a.on_stack, a.out))
  BY <1>18 DEF k
<1>. HIDE DEF NewCall
<1>. WITNESS a.st, L, c, a.on_stack, a.out
<1>. QED
  BY <1>1, <1>2, <1>10, <1>11, <1>19

LEMMA FirstPushInv ==
    ASSUME IndInv, NEW ps \in Calls(MAX_PARAMS), FirstPush(ps)
    PROVE  IndInv' /\ OperandsFound'
<1>1. PICK s, L, c, on_stack, out :
        Pushing(s, L, c, NewCall(ps, on_stack, out)) /\ ret' = FALSE
  BY FirstPushReady
<1>2. ret' \in BOOLEAN
  BY <1>1
<1>. QED
  BY <1>1, <1>2, PushInv DEF Pushing

\* A call, and the instruction that moves its result out of register 0.
CallStep ==
    \/ Call
    \/ \E f \in Var : Indirect(f)
    \/ \E v \in Var : FuncRet(v)

LEMMA NextInv ==
    ASSUME IndInv, Safe, Next PROVE IndInv' /\ (CallStep \/ OperandsFound')
<1>1. CASE NextFunction
  BY <1>1, NextFunctionInv
<1>2. CASE \E v \in Var : LoadImmediate(v)
  BY <1>2, LoadImmediateInv
<1>3. ASSUME NEW v \in Var, NEW a \in Var,
             \/ Unary(v, a) \/ Read(v, a) \/ Assign(v, a) \/ AssignDead(v, a)
             \/ AddressOf(v, a) \/ GlobalAddressOf(v, a) \/ UnwoundPhi(v, a)
      PROVE  IndInv' /\ OperandsFound'
  BY <1>3, UnaryInv, ReadInv, AssignInv, AssignDeadInv, AddressOfInv,
     GlobalAddressOfInv, UnwoundPhiInv
<1>4. CASE \E v, a, b \in Var : Binary(v, a, b)
  BY <1>4, BinaryInv
<1>5. CASE \E v \in Var : AllocatScalar(v)
  BY <1>5, AllocatScalarInv
<1>6. CASE \E v \in Var : FuncRet(v)
  BY <1>6, FuncRetInv DEF CallStep
<1>7. CASE \E v \in Var, array \in BOOLEAN : AllocatAggregate(v, array)
  BY <1>7, AllocatAggregateInv
<1>8. CASE \E a, b \in Var : Write(a, b)
  BY <1>8, WriteInv
<1>9. CASE \E a \in Var : WriteFunc(a)
  BY <1>9, WriteFuncInv
<1>10. CASE \E a \in Var : Indirect(a)
  BY <1>10, IndirectInv DEF CallStep
<1>11. CASE \E ps \in Calls(MAX_PARAMS) : FirstPush(ps)
  BY <1>11, FirstPushInv
<1>12. CASE NextPush
  BY <1>12, NextPushInv
<1>13. CASE Call
  BY <1>13, CallInv DEF CallStep
<1>14. CASE FallThrough
  BY <1>14, FallThroughInv
<1>15. CASE \E a \in Var : Branch(a) \/ Return(a)
  BY <1>15, BranchInv, ReturnInv
<1>16. CASE ReturnVoid
  BY <1>16, ReturnVoidInv
<1>. QED
  BY <1>1, <1>2, <1>3, <1>4, <1>5, <1>6, <1>7, <1>8, <1>9, <1>10, <1>11,
     <1>12, <1>13, <1>14, <1>15, <1>16 DEF Next

LEMMA StutterInv ==
    ASSUME IndInv, UNCHANGED vars PROVE IndInv'
  BY DEF IndInv, vars, TypeOK, Bookkeeping, AliveSet, Resident, Idle, CanUseAt

-----------------------------------------------------------------------------
(* The arguments of a call.  Between two OP_push the registers 0..n-1 hold *)
(* the n arguments passed so far, and at most one other register is taken  *)
(* once refresh() has run: the one an argument was loaded into.            *)

\* A register is left for the next argument, and for the pointer of an
\* indirect call, without evicting an argument: 4 of 8 registers are for
\* arguments on ARM; on RISC-V all 8, so that at most 6 arguments are safe.
Spare == MAX_ARGS_IN_REG + 1 < REG_CNT \/ MAX_PARAMS + 1 < REG_CNT

\* At most register e is taken beyond the first n.
OneBeyond(s, n) ==
    \E e \in Reg : \A r \in Reg : r >= n /\ r # e => s.REGS[r].var = None

Placed(s, ps, n) ==
    /\ \A i \in 1..n : s.REGS[i - 1].var = ps[i] /\ s.reg[i - 1] = ps[i]
    /\ OneBeyond(s, n)

\* What was passed stays alive up to the call, which comes after the
\* remaining OP_push.
Kept(c) ==
    \A i \in 1..c.args : \/ c.params[i] \in live_out
                         \/ consumed[c.params[i]] >= idx + (Len(c.params) - c.pos)

\* One register per argument until they run out; the rest has been stored.
Counted(c) ==
    /\ c.args = IF c.pos <= MAX_ARGS_IN_REG THEN c.pos ELSE MAX_ARGS_IN_REG
    /\ Len(c.params) <= MAX_PARAMS
    /\ \A i \in (MAX_ARGS_IN_REG + 1)..Len(c.params) :
         c.out[i - MAX_ARGS_IN_REG] = c.params[i]

\* The part of the inductive invariant that is about calls.
ArgsInv ==
    /\ ret => Idle /\ st.reg[0] = RetVal
    /\ ~Idle => /\ Counted(call) /\ Kept(call)
                /\ Placed(refresh(st), call.params, call.args)

\* prepare_operand() finds the variable in a register, or loads it into one
\* and leaves the others alone.
LEMMA OperandFrame ==
    ASSUME NEW s \in StateType, NEW v \in Var,
           NEW p \in prepare_operand(s, v, {})
    PROVE  /\ p.reg \in Reg /\ p.st.REGS[p.reg].var = v
           /\ \A i \in Reg \ {p.reg} : /\ p.st.REGS[i] = s.REGS[i]
                                       /\ p.st.reg[i] = s.reg[i]
           /\ \/ s.REGS[p.reg].var = v /\ p.st.REGS = s.REGS /\ p.st.reg = s.reg
              \/ p.reg \in Free(s) /\ \A i \in Free(s) : p.reg <= i
              \/ Free(s) = {}
<1>1. CASE Mapped(s, v)
  <2>1. p = [reg |-> s.phys_reg[v], st |-> s]
    BY <1>1 DEF prepare_operand
  <2>. QED
    BY <1>1, <2>1 DEF Mapped
<1>2. CASE ~Mapped(s, v) /\ Holding(s, v) # {} /\ v \notin AddrVars
  <2>. DEFINE r == Least(Holding(s, v))
  <2>1. p = [reg |-> r, st |-> [s EXCEPT !.phys_reg = [@ EXCEPT ![v] = r]]]
    BY <1>2 DEF prepare_operand
  <2>2. r \in Reg /\ s.REGS[r].var = v
    BY <1>2, LeastIn DEF Holding
  <2>. HIDE DEF r
  <2>3. p.reg = r /\ p.st.REGS = s.REGS /\ p.st.reg = s.reg
    BY <2>1 DEF StateType
  <2>. QED
    BY <2>2, <2>3
<1>3. CASE /\ ~Mapped(s, v) /\ ~(Holding(s, v) # {} /\ v \notin AddrVars)
           /\ Free(s) # {}
  <2>. DEFINE r == Least(Free(s))
  <2>1. p = [reg |-> r, st |-> load_var(s, v, r)]
    BY <1>3 DEF prepare_operand
  <2>2. Free(s) \subseteq Reg
    BY DEF Free, Holding
  <2>3. r \in Reg /\ r \in Free(s) /\ \A i \in Free(s) : r <= i
    BY <1>3, <2>2, LeastIn
  <2>. HIDE DEF r
  <2>4. p.reg = r /\ p.st = load_var(s, v, r)
    BY <2>1
  <2>5. /\ load_var(s, v, r).reg = [s.reg EXCEPT ![r] = Fetch(s, v)]
        /\ load_var(s, v, r).REGS
             = [s.REGS EXCEPT ![r] = [var |-> v, polluted |-> FALSE]]
    BY <2>3 DEF load_var, StateType
  <2>. QED
    BY <2>3, <2>4, <2>5 DEF StateType
<1>4. CASE /\ ~Mapped(s, v) /\ ~(Holding(s, v) # {} /\ v \notin AddrVars)
           /\ Free(s) = {}
  <2>1. PICK r \in find_best_spill(s, {}) :
               p = [reg |-> r, st |-> load_var(spill_var(s, {r}), v, r)]
    BY <1>4 DEF prepare_operand
  <2>. DEFINE n == spill_var(s, {r})
  <2>2. r \in Reg
    BY DEF find_best_spill
  <2>3. /\ n \in StateType /\ n.reg = s.reg
        /\ \A i \in Reg \ {r} : n.REGS[i] = s.REGS[i]
    BY <2>2, SpillType
  <2>. HIDE DEF n
  <2>4. p.reg = r /\ p.st = load_var(n, v, r)
    BY <2>1 DEF n
  <2>5. /\ load_var(n, v, r).reg = [n.reg EXCEPT ![r] = Fetch(n, v)]
        /\ load_var(n, v, r).REGS
             = [n.REGS EXCEPT ![r] = [var |-> v, polluted |-> FALSE]]
    BY <2>2, <2>3 DEF load_var, StateType
  <2>. QED
    BY <1>4, <2>2, <2>3, <2>4, <2>5 DEF StateType
<1>. QED
  BY <1>1, <1>2, <1>3, <1>4

\* With a register to spare an operand is found or loaded without disturbing
\* the arguments, and loaded into one of the next two registers.
LEMMA OperandBeyond ==
    ASSUME NEW s \in StateType, NEW v \in Var, NEW ps, NEW n \in Nat,
           n + 1 < REG_CNT, Placed(s, ps, n), \A i \in 1..n : ps[i] \in Var,
           NEW p \in prepare_operand(s, v, {})
    PROVE  /\ \A i \in 1..n : /\ p.st.REGS[i - 1].var = ps[i]
                              /\ p.st.reg[i - 1] = ps[i]
           /\ \/ p.st.REGS = s.REGS
              \/ /\ p.reg \in Free(s) /\ p.reg \in {n, n + 1}
                 /\ p.reg = n + 1 => n \notin Free(s)
                 /\ \A i \in Reg \ {p.reg} : p.st.REGS[i] = s.REGS[i]
<1>1. /\ p.reg \in Reg
      /\ \A i \in Reg \ {p.reg} : /\ p.st.REGS[i] = s.REGS[i]
                                  /\ p.st.reg[i] = s.reg[i]
      /\ \/ s.REGS[p.reg].var = v /\ p.st.REGS = s.REGS /\ p.st.reg = s.reg
         \/ p.reg \in Free(s) /\ \A i \in Free(s) : p.reg <= i
         \/ Free(s) = {}
  BY OperandFrame
<1>2. \A i \in 1..n : s.REGS[i - 1].var = ps[i] /\ s.reg[i - 1] = ps[i]
  BY DEF Placed
<1>3. n \in Reg /\ n + 1 \in Reg /\ \A i \in 1..n : i - 1 \in Reg
  BY RegAssumption DEF Reg
<1>4. \A i \in 1..n : i - 1 \notin Free(s)
  BY <1>2, NoneNotVar DEF Free, Holding
<1>5. Free(s) \cap {n, n + 1} # {}
  <2>1. PICK e \in Reg : \A r \in Reg : r >= n /\ r # e => s.REGS[r].var = None
    BY DEF Placed, OneBeyond
  <2>2. n >= n /\ n + 1 >= n /\ n # n + 1
    OBVIOUS
  <2>3. n # e => n \in Free(s)
    BY <1>3, <2>1, <2>2 DEF Free, Holding
  <2>4. n = e => n + 1 \in Free(s)
    BY <1>3, <2>1, <2>2 DEF Free, Holding
  <2>. QED
    BY <2>3, <2>4
<1>6. CASE s.REGS[p.reg].var = v /\ p.st.REGS = s.REGS /\ p.st.reg = s.reg
  BY <1>2, <1>6
<1>7. CASE p.reg \in Free(s) /\ \A i \in Free(s) : p.reg <= i
  <2>1. p.reg \in Nat
    BY <1>1, RegNat
  <2>2. p.reg <= n + 1 /\ (n \in Free(s) => p.reg <= n)
    BY <1>5, <1>7, <2>1
  <2>3. p.reg >= n
    <3>. SUFFICES ASSUME p.reg < n PROVE FALSE
      BY <2>1
    <3>1. p.reg + 1 \in 1..n /\ (p.reg + 1) - 1 = p.reg
      BY <2>1
    <3>. QED
      BY <1>4, <1>7, <3>1
  <2>4. p.reg \in {n, n + 1} /\ (p.reg = n + 1 => n \notin Free(s))
    BY <2>1, <2>2, <2>3
  <2>5. \A i \in 1..n : i - 1 # p.reg
    BY <2>1, <2>3
  <2>. QED
    BY <1>1, <1>2, <1>3, <1>7, <2>4, <2>5
<1>. QED
  BY <1>1, <1>5, <1>6, <1>7

\* OP_push adds its argument to the ones already placed.
LEMMA ArgumentPlaced ==
    ASSUME NEW s \in StateType, NEW v \in Var, NEW ps, NEW n \in Nat,
           n + 1 < REG_CNT, Placed(s, ps, n), \A i \in 1..n : ps[i] \in Var,
           NEW p \in prepare_operand(s, v, {}), p.st \in StateType,
           p.st.reg[p.reg] = v, v = ps[n + 1]
    PROVE  Placed(Argument(p, v, n), ps, n + 1)
<1>. DEFINE t == Argument(p, v, n)
<1>1. n \in Reg /\ n + 1 \in Reg /\ \A i \in 1..n : i - 1 \in Reg
  BY RegAssumption DEF Reg
<1>2. /\ t.REGS[n] = [var |-> v, polluted |-> FALSE] /\ t.reg[n] = v
      /\ \A r \in Reg \ {n} : t.REGS[r] = p.st.REGS[r] /\ t.reg[r] = p.st.reg[r]
  BY <1>1 DEF Argument, StateType
<1>. HIDE DEF t
<1>3. /\ \A i \in 1..n : /\ p.st.REGS[i - 1].var = ps[i]
                         /\ p.st.reg[i - 1] = ps[i]
      /\ \/ p.st.REGS = s.REGS
         \/ /\ p.reg \in Free(s) /\ p.reg \in {n, n + 1}
            /\ p.reg = n + 1 => n \notin Free(s)
            /\ \A i \in Reg \ {p.reg} : p.st.REGS[i] = s.REGS[i]
  BY OperandBeyond
<1>4. ASSUME NEW i \in 1..(n + 1)
      PROVE  t.REGS[i - 1].var = ps[i] /\ t.reg[i - 1] = ps[i]
  <2>1. CASE i = n + 1
    <3>1. i - 1 = n
      BY <2>1
    <3>. QED
      BY <1>2, <2>1, <3>1
  <2>2. CASE i # n + 1
    <3>1. i \in 1..n /\ i - 1 # n
      BY <2>2
    <3>. QED
      BY <1>1, <1>2, <1>3, <3>1
  <2>. QED
    BY <2>1, <2>2
<1>5. PICK e \in Reg : \A r \in Reg : r >= n /\ r # e => s.REGS[r].var = None
  BY DEF Placed, OneBeyond
<1>6. \A r \in Reg : r \in Int /\ (r >= n + 1 => r >= n /\ r # n)
  BY RegNat
<1>7. OneBeyond(t, n + 1)
  <2>1. CASE p.st.REGS = s.REGS
    <3>1. \A r \in Reg : r >= n + 1 /\ r # e => t.REGS[r].var = None
      BY <1>2, <1>5, <1>6, <2>1
    <3>. QED
      BY <3>1 DEF OneBeyond
  <2>2. CASE p.reg = n /\ \A i \in Reg \ {p.reg} : p.st.REGS[i] = s.REGS[i]
    <3>1. \A r \in Reg : r >= n + 1 /\ r # e => t.REGS[r].var = None
      BY <1>2, <1>5, <1>6, <2>2
    <3>. QED
      BY <3>1 DEF OneBeyond
  <2>3. CASE /\ p.reg = n + 1 /\ n \notin Free(s)
             /\ \A i \in Reg \ {p.reg} : p.st.REGS[i] = s.REGS[i]
    <3>1. e = n
      BY <1>1, <1>5, <2>3 DEF Free, Holding
    <3>2. \A r \in Reg : r >= n + 1 /\ r # n + 1 => t.REGS[r].var = None
      BY <1>2, <1>5, <1>6, <2>3, <3>1
    <3>. QED
      BY <1>1, <3>2 DEF OneBeyond
  <2>. QED
    BY <1>3, <2>1, <2>2, <2>3
<1>. QED
  BY <1>4, <1>7 DEF Placed, t

\* refresh() leaves them where they are as long as they are kept alive.
LEMMA RefreshPlaced ==
    ASSUME TypeOK', NEW ps, NEW n \in Nat, n <= REG_CNT,
           \A i \in 1..n : /\ ps[i] \in Var
                           /\ ps[i] \in live_out' \/ consumed'[ps[i]] >= idx',
           Placed(st', ps, n)
    PROVE  Placed(refresh(st)', ps, n)
<1>. DEFINE R == {i \in Reg : /\ st'.REGS[i].var # None
                              /\ st'.REGS[i].var \notin live_out'
                              /\ consumed'[st'.REGS[i].var] < idx'}
            t == Drop(st', R)
<1>1. t = refresh(st)'
  BY DEF refresh, Drop
<1>2. /\ \A i \in Reg : t.REGS[i] = IF i \in R THEN Empty ELSE st'.REGS[i]
      /\ t.reg = st'.reg
  BY DropType DEF TypeOK
<1>3. ASSUME NEW i \in 1..n PROVE i - 1 \in Reg /\ i - 1 \notin R
  <2>1. i - 1 \in Reg /\ st'.REGS[i - 1].var = ps[i]
    BY RegAssumption DEF Reg, Placed
  <2>2. consumed'[ps[i]] \in Int /\ idx' \in Int
    BY DEF TypeOK
  <2>. QED
    BY <2>1, <2>2
<1>. HIDE DEF R, t
<1>4. \A i \in 1..n : t.REGS[i - 1].var = ps[i] /\ t.reg[i - 1] = ps[i]
  BY <1>2, <1>3 DEF Placed
<1>5. OneBeyond(t, n)
  BY <1>2 DEF Placed, OneBeyond, Empty
<1>. QED
  BY <1>1, <1>4, <1>5 DEF Placed

LEMMA Room ==
    ASSUME Spare, NEW k \in CallType, Counted(k), k.pos <= Len(k.params)
    PROVE  k.args \in Nat /\ k.args + 1 < REG_CNT /\ k.args <= REG_CNT
<1>1. /\ k.args \in Nat /\ k.args <= MAX_ARGS_IN_REG /\ k.pos \in Nat
      /\ Len(k.params) \in Nat /\ Len(k.params) <= MAX_PARAMS
      /\ MAX_PARAMS \in Nat /\ MAX_ARGS_IN_REG \in Nat /\ REG_CNT \in Nat
  BY CallFields, RegAssumption DEF Counted
<1>2. k.args <= k.pos
  BY <1>1 DEF Counted
<1>. QED
  BY <1>1, <1>2 DEF Spare

\* The bookkeeping part: what Passed does to the record of the call.
LEMMA PassedCounted ==
    ASSUME IndInv, NEW s, NEW L, NEW c, NEW k, Pushing(s, L, c, k),
           Counted(k), Kept(k)
    PROVE  Counted(call') /\ Kept(call)'
<1>1. /\ k \in CallType /\ k.pos \in Nat /\ k.args \in Nat
      /\ k.args <= MAX_ARGS_IN_REG
      /\ k.pos < Len(k.params) /\ Len(k.params) \in Nat
      /\ k.params \in Seq(Var) /\ k.args <= k.pos
      /\ MAX_ARGS_IN_REG \in Nat
  BY CallFields, RegAssumption DEF Pushing, CallOK
<1>2. /\ idx' = idx + 1 /\ call'.params = k.params /\ call'.out = k.out
      /\ call'.pos = k.pos + 1
      /\ \/ k.args >= MAX_ARGS_IN_REG /\ call'.args = k.args
         \/ k.args < MAX_ARGS_IN_REG /\ call'.args = k.args + 1
  BY PassedStep DEF Pushing
<1>3. /\ consumed' = c /\ live_out' = live_out /\ c \in [Var -> Int]
      /\ \A w \in Var : c[w] >= consumed[w]
      /\ \/ k.params[k.pos + 1] \in live_out
         \/ c[k.params[k.pos + 1]] >= idx + (Len(k.params) - k.pos)
  BY DEF Pushing, NoDefine
<1>4. consumed \in [Var -> Int] /\ idx \in Nat
  BY DEF IndInv, TypeOK
<1>5. k.args = IF k.pos <= MAX_ARGS_IN_REG THEN k.pos ELSE MAX_ARGS_IN_REG
  BY DEF Counted
<1>6. call'.args = IF call'.pos <= MAX_ARGS_IN_REG THEN call'.pos
                                                   ELSE MAX_ARGS_IN_REG
  BY <1>1, <1>2, <1>5
<1>7. Counted(call')
  BY <1>2, <1>6 DEF Counted
<1>8. idx' + (Len(call'.params) - call'.pos) = idx + (Len(k.params) - k.pos)
  <2>1. \A x, y, z \in Int : (x + 1) + (y - (z + 1)) = x + (y - z)
    OBVIOUS
  <2>2. idx \in Int /\ Len(k.params) \in Int /\ k.pos \in Int
    BY <1>1, <1>4
  <2>3. (idx + 1) + (Len(k.params) - (k.pos + 1)) = idx + (Len(k.params) - k.pos)
    BY <2>1, <2>2, Zenon
  <2>. QED
    BY <1>2, <2>3
<1>9. ASSUME NEW i \in 1..call'.args
      PROVE  \/ k.params[i] \in live_out
             \/ c[k.params[i]] >= idx + (Len(k.params) - k.pos)
  <2>1. CASE i \in 1..k.args
    <3>1. \/ k.params[i] \in live_out
          \/ consumed[k.params[i]] >= idx + (Len(k.params) - k.pos)
      BY <2>1 DEF Kept
    <3>2. k.params[i] \in Var
      BY <1>1, <2>1
    <3>3. c[k.params[i]] >= consumed[k.params[i]]
      BY <1>3, <3>2
    <3>4. c[k.params[i]] \in Int /\ consumed[k.params[i]] \in Int
      BY <1>3, <1>4, <3>2
    <3>5. idx + (Len(k.params) - k.pos) \in Int
      BY <1>1, <1>4
    <3>6. \A x, y, z \in Int : x >= y /\ y >= z => x >= z
      OBVIOUS
    <3>. QED
      BY <3>1, <3>3, <3>4, <3>5, <3>6, Zenon
  <2>2. CASE i \notin 1..k.args
    <3>1. i = k.args + 1 /\ k.args < MAX_ARGS_IN_REG
      BY <1>1, <1>2, <2>2
    <3>2. i = k.pos + 1
      BY <1>1, <1>5, <3>1
    <3>. QED
      BY <1>3, <3>2
  <2>. QED
    BY <2>1, <2>2
<1>10. Kept(call)'
  <2>. SUFFICES ASSUME NEW i \in 1..call'.args
                PROVE  \/ call'.params[i] \in live_out'
                       \/ consumed'[call'.params[i]]
                            >= idx' + (Len(call'.params) - call'.pos)
    BY DEF Kept
  <2>. QED
    BY <1>2, <1>3, <1>8, <1>9
<1>. QED
  BY <1>7, <1>10

\* What is kept up to the call survives the next refresh().
LEMMA KeptPlaced ==
    ASSUME IndInv', Spare, ~Idle', Counted(call'), Kept(call)',
           Placed(st', call'.params, call'.args)
    PROVE  Placed(refresh(st)', call'.params, call'.args)
<1>1. /\ TypeOK' /\ call' \in CallType
      /\ call'.pos \in 1..Len(call'.params) /\ call'.args <= call'.pos
  BY DEF IndInv, TypeOK, Bookkeeping
<1>2. call'.args \in Nat /\ call'.args <= REG_CNT
  <2>1. Len(call'.params) \in Nat
    BY <1>1, CallFields
  <2>2. call'.pos <= Len(call'.params)
    BY <1>1, <2>1
  <2>. QED
    BY <1>1, <2>2, Room
<1>3. \A i \in 1..call'.args :
        /\ call'.params[i] \in Var
        /\ call'.params[i] \in live_out' \/ consumed'[call'.params[i]] >= idx'
  <2>. SUFFICES ASSUME NEW i \in 1..call'.args
                PROVE  /\ call'.params[i] \in Var
                       /\ \/ call'.params[i] \in live_out'
                          \/ consumed'[call'.params[i]] >= idx'
    OBVIOUS
  <2>1. /\ call'.params \in Seq(Var) /\ Len(call'.params) \in Nat
        /\ call'.pos \in Nat
    BY <1>1, CallFields
  <2>2. call'.params[i] \in Var
    BY <1>1, <1>2, <2>1
  <2>3. \/ call'.params[i] \in live_out'
        \/ consumed'[call'.params[i]] >= idx' + (Len(call'.params) - call'.pos)
    BY DEF Kept
  <2>4. consumed'[call'.params[i]] \in Int /\ idx' \in Int
    BY <1>1, <2>2 DEF TypeOK
  <2>. QED
    BY <1>1, <2>1, <2>2, <2>3, <2>4
<1>. QED
  BY <1>1, <1>2, <1>3, RefreshPlaced

LEMMA PushOperand ==
    ASSUME NEW s, NEW L, NEW c, NEW k, Pushing(s, L, c, k),
           NEW p \in prepare_operand(s, k.params[k.pos + 1], {})
    PROVE  p.st \in StateType
<1>1. /\ Good(s, L, killed, L, Resident \cup LaterSet(c))
      /\ Exact(s, L) \/ InMemory(s, L)
      /\ L \subseteq AliveSet /\ LaterSet(c) \subseteq L
      /\ k.params[k.pos + 1] \in L
  BY DEF Pushing, PushPre
<1>2. AliveSet \subseteq Var /\ Resident \subseteq Var
  BY RefreshGood DEF Pushing, PushPre
<1>3. /\ L \subseteq Var /\ Resident \cup LaterSet(c) \subseteq Var
      /\ k.params[k.pos + 1] \in L \cap L
  BY <1>1, <1>2
<1>4. Good(p.st, L, killed, L, Resident \cup LaterSet(c))
  BY <1>1, <1>3, OperandGood
<1>. QED
  BY <1>4 DEF Good

LEMMA NextPushArgs ==
    ASSUME IndInv, ArgsInv, Spare, NextPush PROVE ArgsInv'
<1>1. PICK c : Pushing(refresh(st), AliveSet, c, call)
  BY NextPushReady
<1>2. ~Idle /\ ~ret' /\ IndInv'
  BY NextPushReady, NextPushInv DEF ArgsInv
<1>3. /\ Counted(call) /\ Kept(call)
      /\ Placed(refresh(st), call.params, call.args)
  BY <1>2 DEF ArgsInv
<1>4. Counted(call') /\ Kept(call)'
  BY <1>1, <1>3, PassedCounted
<1>. DEFINE v == call.params[call.pos + 1]
<1>5. /\ call'.params = call.params
      /\ call'.pos = call.pos + 1
      /\ \/ call'.args = call.args /\ st' = refresh(st)
         \/ /\ call.args < MAX_ARGS_IN_REG /\ call'.args = call.args + 1
            /\ \E p \in prepare_operand(refresh(st), v, {}) :
                 p.st.reg[p.reg] = v /\ st' = Argument(p, v, call.args)
  BY <1>1, PassedStep DEF Pushing
<1>6. /\ call \in CallType /\ call.pos \in Nat
      /\ call.pos < Len(call.params) /\ Len(call.params) \in Nat
      /\ call.params \in Seq(Var)
  BY <1>1, CallFields DEF Pushing, CallOK
<1>7. call.args \in Nat /\ call.args + 1 < REG_CNT
  BY <1>3, <1>6, Room
<1>8. call.args <= call.pos
  BY <1>1 DEF Pushing, CallOK
<1>9. ~Idle'
  BY <1>5, <1>6 DEF Idle, NoCall
<1>10. Placed(st', call'.params, call'.args)
  <2>1. CASE call'.args = call.args /\ st' = refresh(st)
    BY <1>3, <1>5, <2>1
  <2>2. CASE /\ call.args < MAX_ARGS_IN_REG /\ call'.args = call.args + 1
             /\ \E p \in prepare_operand(refresh(st), v, {}) :
                  p.st.reg[p.reg] = v /\ st' = Argument(p, v, call.args)
    <3>1. PICK p \in prepare_operand(refresh(st), v, {}) :
                 p.st.reg[p.reg] = v /\ st' = Argument(p, v, call.args)
      BY <2>2
    <3>2. call.args = call.pos
      BY <1>3, <1>6, <1>7, <2>2, RegAssumption DEF Counted
    <3>3. v = call.params[call.args + 1] /\ v \in Var
      BY <1>6, <3>2
    <3>4. \A i \in 1..call.args : call.params[i] \in Var
      BY <1>6, <1>7, <1>8
    <3>5. refresh(st) \in StateType
      BY RefreshGood DEF Good
    <3>6. p.st \in StateType
      BY <1>1, <3>5, PushOperand DEF Pushing
    <3>. HIDE DEF v
    <3>7. Placed(Argument(p, v, call.args), call.params, call.args + 1)
      BY <1>3, <1>7, <3>1, <3>3, <3>4, <3>5, <3>6, ArgumentPlaced
    <3>. QED
      BY <1>5, <2>2, <3>1, <3>7
  <2>. QED
    BY <1>5, <2>1, <2>2
<1>11. Placed(refresh(st)', call'.params, call'.args)
  BY <1>2, <1>4, <1>9, <1>10, KeptPlaced
<1>. QED
  BY <1>2, <1>4, <1>11 DEF ArgsInv


\* The first OP_push: what spill_alive() has left in the registers is not
\* read after it and forgotten by the next refresh().
LEMMA FirstPlaced ==
    ASSUME IndInv, NEW s, NEW L, NEW c, NEW k, Pushing(s, L, c, k),
           k.pos = 0, k.args = 0,
           \A i \in Reg : s.REGS[i].var \notin LaterSet(c)
    PROVE  Placed(refresh(st)', k.params, 1)
<1>. DEFINE v == k.params[k.pos + 1]
<1>1. /\ s \in StateType /\ L \subseteq AliveSet /\ Known(s, L) /\ v \in L
      /\ pending = {}
  BY DEF Pushing, PushPre, Good
<1>2. AliveSet \subseteq Var /\ AliveSet \subseteq avail \cup Global
  BY RefreshGood DEF AliveSet
<1>3. /\ idx' = idx + 1 /\ consumed' = c /\ live_out' = live_out
      /\ c \in [Var -> Int] /\ idx \in Nat /\ TypeOK
      /\ c[v] >= idx + (Len(k.params) - k.pos) \/ v \in live_out
  BY PassedStep DEF Pushing, NoDefine, IndInv, TypeOK
<1>4. PICK p \in prepare_operand(s, v, {}) :
        p.st.reg[p.reg] = v /\ st' = Argument(p, v, 0)
  BY PassedStep, RegAssumption DEF Pushing
<1>5. v \in Var /\ v = k.params[1] /\ p.st \in StateType
  BY <1>1, <1>2, PushOperand
<1>6. /\ k.params \in Seq(Var) /\ Len(k.params) \in Nat
      /\ Len(k.params) >= 1
  BY CallFields DEF Pushing, CallOK
<1>. HIDE DEF v
<1>7. /\ p.reg \in Reg
      /\ \A i \in Reg \ {p.reg} : p.st.REGS[i] = s.REGS[i]
  BY <1>1, <1>4, <1>5, OperandFrame
<1>8. /\ st' \in StateType /\ 0 \in Reg
      /\ st'.REGS[0].var = v /\ st'.reg[0] = v
      /\ \A r \in Reg \ {0} : st'.REGS[r] = p.st.REGS[r]
  BY <1>4, <1>5, RegNat DEF Argument, StateType, Content
<1>. DEFINE R == {i \in Reg : /\ st'.REGS[i].var # None
                              /\ st'.REGS[i].var \notin live_out'
                              /\ consumed'[st'.REGS[i].var] < idx'}
            t == Drop(st', R)
<1>9. t = refresh(st)'
  BY DEF refresh, Drop
<1>10. /\ \A i \in Reg : t.REGS[i] = IF i \in R THEN Empty ELSE st'.REGS[i]
       /\ t.reg = st'.reg
  BY <1>8, DropType
<1>11. 0 \notin R
  <2>1. c[v] \in Int
    BY <1>3, <1>5
  <2>2. k.pos = 0 /\ idx + (Len(k.params) - 0) = idx + Len(k.params)
    BY <1>3, <1>6
  <2>3. c[v] >= idx + 1 \/ v \in live_out
    BY <1>3, <1>6, <2>1, <2>2
  <2>. QED
    BY <1>3, <1>8, <2>1, <2>3
<1>12. ASSUME NEW r \in Reg, r # 0, r # p.reg, st'.REGS[r].var # None
       PROVE  r \in R
  <2>1. st'.REGS[r].var = s.REGS[r].var
    BY <1>7, <1>8, <1>12
  <2>. DEFINE w == st'.REGS[r].var
  <2>2. w \in AliveSet /\ w \notin LaterSet(c)
    BY <1>1, <1>12, <2>1 DEF Known
  <2>3. w \notin live_out /\ ~(c[w] > idx)
    BY <1>1, <1>2, <2>2 DEF LaterSet
  <2>4. c[w] \in Int
    BY <1>2, <1>3, <2>2
  <2>. QED
    BY <1>3, <1>12, <2>3, <2>4
<1>. HIDE DEF R, t
<1>13. OneBeyond(t, 1)
  <2>1. \A r \in Reg : r >= 1 /\ r # p.reg => t.REGS[r].var = None
    BY <1>10, <1>12 DEF Empty
  <2>. QED
    BY <1>7, <2>1 DEF OneBeyond
<1>14. \A i \in 1..1 : t.REGS[i - 1].var = k.params[i] /\ t.reg[i - 1] = k.params[i]
  BY <1>5, <1>8, <1>10, <1>11
<1>. QED
  BY <1>9, <1>13, <1>14 DEF Placed

LEMMA FirstPushArgs ==
    ASSUME IndInv, Spare, NEW ps \in Calls(MAX_PARAMS), FirstPush(ps)
    PROVE  ArgsInv'
<1>1. PICK s, L, c, on_stack, out :
        /\ Pushing(s, L, c, NewCall(ps, on_stack, out))
        /\ \A i \in Reg : s.REGS[i].var \notin LaterSet(c)
        /\ \A i \in (MAX_ARGS_IN_REG + 1)..Len(ps) :
             out[i - MAX_ARGS_IN_REG] = ps[i]
        /\ ps \in Seq(Var) /\ Len(ps) \in 1..MAX_PARAMS
        /\ ret' = FALSE
  BY FirstPushReady
<1>. DEFINE k == NewCall(ps, on_stack, out)
<1>2. /\ k.params = ps /\ k.pos = 0 /\ k.args = 0 /\ k.out = out
      /\ MAX_ARGS_IN_REG \in Nat /\ MAX_ARGS_IN_REG >= 1
  BY RegAssumption DEF NewCall
<1>. HIDE DEF k
<1>3. Counted(k) /\ Kept(k)
  BY <1>1, <1>2, RegAssumption DEF Counted, Kept
<1>4. Pushing(s, L, c, k)
  BY <1>1 DEF k
<1>5. Counted(call') /\ Kept(call)'
  BY <1>3, <1>4, PassedCounted
<1>6. call'.params = ps /\ call'.pos = 1 /\ call'.args = 1
  <2>1. /\ call'.params = k.params /\ call'.pos = k.pos + 1
        /\ \/ k.args >= MAX_ARGS_IN_REG
           \/ call'.args = k.args + 1
    BY <1>4, PassedStep DEF Pushing
  <2>. QED
    BY <1>2, <2>1
<1>7. Placed(refresh(st)', ps, 1)
  BY <1>1, <1>2, <1>4, FirstPlaced
<1>. QED
  BY <1>1, <1>5, <1>6, <1>7 DEF ArgsInv

\* What a callee finds.
LEMMA ReceivedAll ==
    ASSUME IndInv, NEW k, k = call, k.pos = Len(k.params),
           NEW s, InMemory(s, Resident),
           k.params # <<>> =>
             /\ Counted(k)
             /\ \A i \in 1..k.args : s.reg[i - 1] = k.params[i]
    PROVE  Received(s) = {}
<1>1. Stale(s, exposed \cup Global) = {}
  BY DEF Stale, InMemory, Resident, SavedIn
<1>2. k \in CallType /\ Len(k.params) \in Nat /\ MAX_ARGS_IN_REG \in Nat
  BY CallFields, RegAssumption DEF IndInv, TypeOK
<1>3. CASE k.params = <<>>
  <2>1. \A j \in 1..Len(k.params) : FALSE
    BY <1>3
  <2>. QED
    BY <1>1, <2>1 DEF Received
<1>4. CASE k.params # <<>>
  <2>1. \A j \in 1..Len(k.params) : j <= MAX_ARGS_IN_REG => j \in 1..k.args
    BY <1>2, <1>4 DEF Counted
  <2>2. \A j \in 1..Len(k.params) : ~(j <= MAX_ARGS_IN_REG)
            => j \in (MAX_ARGS_IN_REG + 1)..Len(k.params)
    BY <1>2
  <2>3. \A j \in 1..Len(k.params) :
          /\ j <= MAX_ARGS_IN_REG => s.reg[j - 1] = k.params[j]
          /\ ~(j <= MAX_ARGS_IN_REG) => k.out[j - MAX_ARGS_IN_REG] = k.params[j]
    BY <1>4, <2>1, <2>2 DEF Counted
  <2>. QED
    BY <1>1, <2>3 DEF Received
<1>. QED
  BY <1>3, <1>4

\* A call without arguments is set up by no OP_push.
LEMMA NoArguments ==
    ASSUME IndInv, ArgsInv
    PROVE  /\ Idle <=> call.params = <<>>
           /\ Idle <=> call.args = 0
<1>1. Idle => call.params = <<>> /\ call.args = 0
  BY DEF Idle, NoCall
<1>2. ASSUME ~Idle PROVE call.params # <<>> /\ call.args # 0
  <2>1. call.pos \in 1..Len(call.params) /\ Counted(call)
    BY <1>2 DEF IndInv, Bookkeeping, ArgsInv
  <2>2. call.pos \in Nat /\ call.pos >= 1 /\ Len(call.params) >= 1
    <3>1. Len(call.params) \in Nat
      BY CallFields DEF IndInv, TypeOK
    <3>. QED
      BY <2>1, <3>1
  <2>. QED
    BY <2>1, <2>2, RegAssumption DEF Counted
<1>. QED
  BY <1>1, <1>2

LEMMA CallArgs ==
    ASSUME IndInv, ArgsInv, Call PROVE ArgsInv' /\ OperandsFound'
<1>. DEFINE s == IF call.params = <<>> THEN spill_alive(refresh(st), consumed)
                                       ELSE refresh(st)
            n == [Callee(s) EXCEPT !.REGS = [i \in Reg |-> Empty]]
<1>1. /\ pending = {} /\ Step(n, Received(s)) /\ call' = NoCall
      /\ call.pos = Len(call.params)
  BY DEF Call
<1>2. Idle <=> call.params = <<>>
  BY NoArguments
<1>3. Good(s, AliveSet, killed, AliveSet, Resident \cup LaterSet(consumed))
  BY <1>1, <1>2, CallReady
<1>4. InMemory(s, Resident) /\ s \in StateType
  BY <1>3 DEF Good, InMemory
<1>5. call.params # <<>> =>
        /\ Counted(call)
        /\ \A i \in 1..call.args : s.reg[i - 1] = call.params[i]
  BY <1>2 DEF ArgsInv, Placed
<1>. HIDE DEF s
<1>6. Received(s) = {}
  BY <1>1, <1>4, <1>5, ReceivedAll
<1>7. n.reg[0] = RetVal
  BY RegNat DEF Callee, Stored
<1>8. Idle' /\ st' = n /\ misread' = {}
  BY <1>1, <1>6 DEF Idle, Step
<1>. QED
  BY <1>7, <1>8 DEF ArgsInv, OperandsFound

\* The pointer of an indirect call is loaded beside the arguments.
LEMMA IndirectArgs ==
    ASSUME IndInv, ArgsInv, Spare, Safe, NEW f \in Var, Indirect(f)
    PROVE  ArgsInv' /\ OperandsFound'
<1>. DEFINE s == IF call.args = 0 THEN spill_alive(refresh(st), consumed)
                                  ELSE refresh(st)
<1>1. /\ blk > 0 /\ pending = {} /\ CanUse(f) /\ call' = NoCall
      /\ call.pos = Len(call.params)
  BY DEF Indirect
<1>2. PICK p \in prepare_operand(s, f, {}) :
        Step(Callee(p.st), Missing(p.st, f, p.reg) \cup Received(p.st))
  BY DEF Indirect
<1>3. (Idle <=> call.params = <<>>) /\ (Idle <=> call.args = 0)
  BY NoArguments
<1>4. /\ Good(s, AliveSet, killed, AliveSet, Resident \cup LaterSet(consumed))
      /\ Exact(s, AliveSet) \/ InMemory(s, AliveSet)
      /\ LaterSet(consumed) \subseteq AliveSet
      /\ AliveSet \subseteq Var /\ Resident \subseteq Var
  BY <1>1, <1>3, CallReady
<1>5. ~Idle => s = refresh(st)
  BY <1>3
<1>. HIDE DEF s
<1>6. f \in AliveSet \cap AliveSet
  BY <1>1 DEF CanUse, CanUseAt, AliveSet
<1>7. /\ Good(p.st, AliveSet, killed, AliveSet, Resident \cup LaterSet(consumed))
      /\ p.st.reg[p.reg] = f
  BY <1>4, <1>6, OperandGood
<1>8. InMemory(p.st, Resident) /\ s \in StateType /\ p.st \in StateType
  BY <1>4, <1>7 DEF Good, InMemory
<1>9. ASSUME call.params # <<>>
      PROVE  /\ Counted(call)
             /\ \A i \in 1..call.args : p.st.reg[i - 1] = call.params[i]
  <2>1. Counted(call) /\ Placed(s, call.params, call.args)
    BY <1>3, <1>5, <1>9 DEF ArgsInv
  <2>2. /\ call \in CallType /\ call.params \in Seq(Var)
        /\ Len(call.params) \in Nat /\ call.args <= call.pos
    BY <1>3, <1>9, CallFields DEF IndInv, TypeOK, Bookkeeping
  <2>3. call.args \in Nat /\ call.args + 1 < REG_CNT
    BY <1>1, <2>1, <2>2, Room
  <2>4. \A i \in 1..call.args : call.params[i] \in Var
    BY <1>1, <2>2, <2>3
  <2>5. \A i \in 1..call.args : p.st.reg[i - 1] = call.params[i]
    BY <1>8, <2>1, <2>3, <2>4, OperandBeyond
  <2>. QED
    BY <2>1, <2>5
<1>10. Received(p.st) = {}
  BY <1>1, <1>8, <1>9, ReceivedAll
<1>11. Missing(p.st, f, p.reg) = {}
  BY <1>7 DEF Missing
<1>12. Idle' /\ st' = Callee(p.st) /\ misread' = {}
  BY <1>1, <1>2, <1>10, <1>11 DEF Idle, Step
<1>13. Callee(p.st).reg[0] = RetVal
  BY RegNat DEF Callee, Stored
<1>. QED
  BY <1>12, <1>13 DEF ArgsInv, OperandsFound

\* OP_func_ret comes before anything can be put in register 0.
LEMMA FuncRetFound ==
    ASSUME IndInv, ArgsInv, NEW v \in Var, FuncRet(v)
    PROVE  OperandsFound'
<1>1. PICK d \in prepare_dest(refresh(st), v, {}) :
          Step(Computed(d.st, v, d.reg),
               IF d.st.reg[0] = RetVal THEN {} ELSE {RetVal})
  BY DEF FuncRet
<1>2. refresh(st) \in StateType /\ refresh(st).reg = st.reg
  BY RefreshGood DEF Good
<1>3. d.st.reg = refresh(st).reg
  BY <1>2, DestReg
<1>4. st.reg[0] = RetVal
  BY DEF FuncRet, ArgsInv
<1>. QED
  BY <1>1, <1>2, <1>3, <1>4 DEF Step, OperandsFound

\* Outside calls there is nothing to keep.
LEMMA OutsideCalls ==
    ASSUME Idle', ret' = FALSE PROVE ArgsInv'
  BY DEF ArgsInv

LEMMA StraightArgs ==
    ASSUME Idle, Straight PROVE ArgsInv'
  BY OutsideCalls DEF Straight, Idle

LEMMA EndArgs ==
    ASSUME Idle, NEW s, NEW miss, NextBlock(s, miss) \/ Leave(s, miss)
    PROVE  ArgsInv'
  BY OutsideCalls DEF NextBlock, Leave, Idle

LEMMA NextArgs ==
    ASSUME IndInv, ArgsInv, Safe, Spare, Next PROVE ArgsInv' /\ OperandsFound'
<1>1. IndInv' /\ (CallStep \/ OperandsFound')
  BY NextInv
<1>2. CASE Call
  BY <1>2, CallArgs
<1>3. ASSUME NEW f \in Var, Indirect(f) PROVE ArgsInv' /\ OperandsFound'
  BY <1>3, IndirectArgs
<1>4. ASSUME NEW v \in Var, FuncRet(v) PROVE OperandsFound'
  BY <1>4, FuncRetFound
<1>5. OperandsFound'
  BY <1>1, <1>2, <1>3, <1>4 DEF CallStep
<1>6. CASE NextFunction
  <2>1. Idle /\ ret = FALSE
    BY <1>6 DEF IndInv, TypeOK, Bookkeeping, NextFunction
  <2>2. Idle' /\ ret' = FALSE
    BY <1>6, <2>1 DEF NextFunction, Idle
  <2>. QED
    BY <1>5, <2>2, OutsideCalls
<1>7. ASSUME NEW v \in Var, LoadImmediate(v) \/ AllocatScalar(v) \/ FuncRet(v)
      PROVE  ArgsInv'
  BY <1>7, StraightArgs DEF LoadImmediate, AllocatScalar, FuncRet
<1>8. ASSUME NEW v \in Var, NEW a \in Var,
             \/ Unary(v, a) \/ Read(v, a) \/ Assign(v, a) \/ AssignDead(v, a)
             \/ GlobalAddressOf(v, a)
      PROVE  ArgsInv'
  BY <1>8, StraightArgs DEF Unary, Read, Assign, AssignDead, GlobalAddressOf
<1>9. ASSUME NEW v \in Var, NEW a \in Var, AddressOf(v, a) \/ UnwoundPhi(v, a)
      PROVE  ArgsInv'
  BY <1>9, OutsideCalls DEF AddressOf, UnwoundPhi, Idle
<1>10. ASSUME NEW v \in Var, NEW a \in Var, NEW b \in Var, Binary(v, a, b)
       PROVE  ArgsInv'
  BY <1>10, StraightArgs DEF Binary
<1>11. ASSUME NEW v \in Var, NEW array \in BOOLEAN, AllocatAggregate(v, array)
       PROVE  ArgsInv'
  BY <1>11, StraightArgs DEF AllocatAggregate
<1>12. ASSUME NEW a \in Var, NEW b \in Var, Write(a, b) PROVE ArgsInv'
  BY <1>12, StraightArgs DEF Write
<1>13. ASSUME NEW a \in Var, WriteFunc(a) PROVE ArgsInv'
  BY <1>13, StraightArgs DEF WriteFunc
<1>14. ASSUME NEW ps \in Calls(MAX_PARAMS), FirstPush(ps) PROVE ArgsInv'
  BY <1>14, FirstPushArgs
<1>15. CASE NextPush
  BY <1>5, <1>15, NextPushArgs
<1>16. CASE FallThrough \/ ReturnVoid
  BY <1>5, <1>16, EndArgs DEF FallThrough, ReturnVoid
<1>17. ASSUME NEW a \in Var, Branch(a) \/ Return(a) PROVE ArgsInv'
  BY <1>17, EndArgs DEF Branch, Return
<1>. QED
  BY <1>2, <1>3, <1>5, <1>6, <1>7, <1>8, <1>9, <1>10, <1>11, <1>12, <1>13,
     <1>14, <1>15, <1>16, <1>17 DEF Next

-----------------------------------------------------------------------------
(* The theorems.                                                           *)

\* IndInv is an inductive invariant of the allocator, for every number of
\* registers, variables, parameters and blocks, as long as the program stays
\* within what reg_alloc() compiles right.
THEOREM Inductive == ASSUME Safe PROVE Spec => []IndInv
<1>1. Init => IndInv
  BY InitInv
<1>2. IndInv /\ [Next]_vars => IndInv'
  BY NextInv, StutterInv
<1>. QED
  BY <1>1, <1>2, PTL DEF Spec

\* The allocator's tables keep their types: every mapping names an existing
\* register, every argument goes to one of the registers of the machine.
THEOREM TypeCorrect == ASSUME Safe PROVE Spec => []TypeOK
<1>1. IndInv => TypeOK
  BY DEF IndInv
<1>. QED
  BY <1>1, Inductive, PTL

\* find_in_regs() and the vreg mapping never hand out a register that does
\* not contain the variable asked for.
THEOREM RegistersTruthful == ASSUME Safe PROVE Spec => []RegsTruthful
<1>1. IndInv => RegsTruthful
  BY DEF IndInv, Truthful, RegsTruthful
<1>. QED
  BY <1>1, Inductive, PTL

\* Whatever is evicted, spilled or dropped at calls, stores through pointers
\* and block boundaries, a value that is read again is not lost.
THEOREM NoValueLost == ASSUME Safe PROVE Spec => []NothingLost
<1>1. IndInv => NothingLost
  <2>. SUFFICES ASSUME IndInv, NEW v \in AliveSet, ~SavedIn(st, v)
                PROVE  \E i \in Reg : st.REGS[i] = [var |-> v, polluted |-> TRUE]
    BY DEF NothingLost
  <2>1. PICK i \in Reg : st.REGS[i].var = v
    BY DEF IndInv, Present
  <2>2. st.REGS[i] \in [var : Var \cup {None}, polluted : BOOLEAN]
    BY DEF IndInv, TypeOK, StateType
  <2>3. st.REGS[i].polluted = TRUE
    BY <2>1, <2>2 DEF IndInv, CleanSaved
  <2>. QED
    BY <2>1, <2>2, <2>3
<1>. QED
  BY <1>1, Inductive, PTL

\* After OP_address_of a variable stays in memory, so that a load or a store
\* through the pointer meets its value.
THEOREM AddressedInMemory == ASSUME Safe PROVE Spec => []ExposedInMemory
<1>1. IndInv => ExposedInMemory
  BY DEF IndInv, InMemory, Resident, ExposedInMemory
<1>. QED
  BY <1>1, Inductive, PTL

\* Every instruction other than a call finds its operands in the registers it
\* was given, and every block finds its variables in memory.
THEOREM StraightLineCorrect ==
    ASSUME Safe PROVE Spec => [][CallStep \/ OperandsFound']_vars
<1>1. IndInv /\ [Next]_vars => [CallStep \/ OperandsFound']_vars
  BY NextInv
<1>. QED
  BY <1>1, Inductive, PTL DEF Spec

\* In every state the arguments passed so far are in their registers and stay
\* alive up to the call, and the result of a call waits in register 0.
THEOREM ArgumentsStay == ASSUME Safe, Spare PROVE Spec => []ArgsInv
<1>1. Init => ArgsInv
  BY DEF Init, ArgsInv, Idle
<1>2. IndInv /\ ArgsInv /\ [Next]_vars => ArgsInv'
  <2>1. ASSUME IndInv, ArgsInv, UNCHANGED vars PROVE ArgsInv'
    BY <2>1 DEF vars, ArgsInv, Idle, Counted, Kept, Placed, OneBeyond,
                refresh, Drop
  <2>. QED
    BY <2>1, NextArgs
<1>. QED
  BY <1>1, <1>2, Inductive, PTL DEF Spec

\* Every instruction, calls and the moves of their results included, finds
\* its operands: with a register to spare no argument is evicted while the
\* next ones, or the pointer of an indirect call, are loaded.
THEOREM EveryOperandFound == ASSUME Safe, Spare PROVE Spec => []OperandsFound
<1>1. Init => OperandsFound
  BY InitInv
<1>2. /\ IndInv /\ ArgsInv /\ OperandsFound /\ [Next]_vars => OperandsFound'
  <2>1. UNCHANGED vars /\ OperandsFound => OperandsFound'
    BY DEF vars, OperandsFound
  <2>. QED
    BY <2>1, NextArgs
<1>. QED
  BY <1>1, <1>2, Inductive, ArgumentsStay, PTL DEF Spec
=============================================================================
