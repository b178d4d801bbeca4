------------------------------ MODULE Peephole ------------------------------
(***************************************************************************)
(* The peephole pass of shecc (src/src/peephole.c) on one basic block of   *)
(* phase-2 code, that is, on what the register allocator emitted.  The     *)
(* cursor `ir' moves over the list; at each place the first function whose *)
(* pattern matches rewrites the code from there on, and the cursor moves   *)
(* on whether or not one did.                                              *)
(*                                                                         *)
(* A function gets w, the code from the cursor on, and returns what is     *)
(* there afterwards, or None when it returns false.  Instructions keep the *)
(* fields of ph2_ir_t as the code generators read them: a store has its    *)
(* value in src0, its offset in src1 and 0 in dest; a load its offset in   *)
(* src0.  The patterns compare these fields, whatever they stand for.      *)
(***************************************************************************)
EXTENDS Word, SequencesExt

CONSTANTS
    Regs,       \* physical registers, by their numbers
    Offsets,    \* stack and global offsets, multiples of 4
    Imms,       \* constants that are loaded
    Ops,        \* operations in the programs of two instructions
    LongOps,    \* operations in the programs of three
    Sample,     \* values the registers start with
    Uses        \* what the programs may do, see Expected

ASSUME FieldAssumption ==
    /\ 0 \in Regs /\ Regs \subseteq Nat
    /\ Offsets \subseteq Nat /\ Imms \subseteq Word
    /\ Ops \subseteq Binary \cup Unary /\ LongOps \subseteq Ops
    /\ Sample \subseteq Word

VARIABLES
    code,       \* bb->ph2_ir_list
    ir,         \* the cursor, an index of code
    before,     \* the list as the allocator emitted it
    live        \* registers that the code behind the list reads

vars == <<code, ir, before, live>>

None == << >>

-----------------------------------------------------------------------------
(* The code the block stands for.                                          *)

Insn(op, dest, src0, src1) ==
    [op |-> op, dest |-> dest, src0 |-> src0, src1 |-> src1]

Alu(O) ==
    {Insn(op, d, s, t) : op \in O \cap Binary, d \in Regs, s \in Regs, t \in Regs}
    \cup {Insn(op, d, s, 0) : op \in O \cap Unary, d \in Regs, s \in Regs}
Constants == {Insn("load_constant", d, c, 0) : d \in Regs, c \in Imms}
Moves == {Insn("assign", d, s, 0) : d \in Regs, s \in Regs}
Loads == {Insn(op, d, o, 0) : op \in {"load", "global_load"}, d \in Regs,
                              o \in Offsets}
Stores == {Insn(op, 0, s, o) : op \in {"store", "global_store"}, s \in Regs,
                               o \in Offsets}

Global(op) == op \in {"global_load", "global_store"}
IsStore(i) == i.op \in {"store", "global_store"}
IsLoad(i) == i.op \in {"load", "global_load"}

Reads(i) ==
    CASE i.op \in Binary -> {i.src0, i.src1}
      [] i.op \in Unary \cup {"assign"} \/ IsStore(i) -> {i.src0}
      [] OTHER -> {}
Writes(i) == IF IsStore(i) THEN {} ELSE {i.dest}

\* One instruction on the registers and the memory of machine m.
Execute(m, i) ==
    LET a == m.reg[i.src0]
        put(v) == [m EXCEPT !.reg[i.dest] = v]
    IN  CASE i.op = "load_constant" -> put(i.src0)
          [] i.op = "assign" -> put(a)
          [] IsLoad(i) -> put(m.mem[<<Global(i.op), i.src0>>])
          [] IsStore(i) -> [m EXCEPT !.mem[<<Global(i.op), i.src1>>] = a]
          [] i.op \in Binary -> put(Meaning(i.op, a, m.reg[i.src1]))
          [] OTHER -> put(Meaning(i.op, a, 0))

\* The machine after each instruction of c, the start first.
Trace(m, c) ==
    LET T[k \in 0..Len(c)] == IF k = 0 THEN m ELSE Execute(T[k - 1], c[k])
    IN  T
Run(m, c) == FoldLeft(Execute, m, c)

-----------------------------------------------------------------------------
(* The patterns, in the order of the source.                               *)

\* is_fusible_insn()
Fusible == (Binary \ {"eq", "neq", "lt", "gt", "leq", "geq"})
           \cup {"log_not", "negate", "load", "global_load"}

Rest(w, n) == SubSeq(w, n + 1, Len(w))

\* Mutant of IsPower: the test of c & (c - 1) is left out.
IsPositive(c) == c > 0

IsPower(c) == c > 0 /\ c \in Powers

insn_fusion(w) ==
    LET a == w[1]
        b == w[2]
        imm(c) == a.op = "load_constant" /\ a.src0 = c
        left == a.dest = b.src0
        right == a.dest = b.src1
        other == IF left THEN b.src1 ELSE b.src0
        one(op, s) == <<[a EXCEPT !.op = op, !.src0 = s, !.dest = b.dest]>>
                      \o Rest(w, 2)
    IN  CASE b.op = "assign" /\ a.op \in Fusible /\ left ->
                 one(a.op, a.src0)
          [] imm(0) /\ b.op = "add" /\ (left \/ right) -> one("assign", other)
          [] imm(0) /\ b.op = "sub" /\ right -> one("assign", b.src0)
          [] imm(0) /\ b.op = "sub" /\ left /\ ~right -> one("negate", b.src1)
          [] imm(0) /\ b.op = "mul" /\ (left \/ right) ->
                 one("load_constant", 0)
          [] imm(1) /\ b.op = "mul" /\ (left \/ right) -> one("assign", other)
          [] imm(-1) /\ b.op = "bit_and" /\ right -> one("assign", b.src0)
          [] imm(0) /\ b.op \in {"lshift", "rshift", "bit_or", "bit_xor"}
             /\ right -> one("assign", b.src0)
          [] a.op = "load_constant" /\ a.src0 # 1 /\ IsPower(a.src0)
             /\ b.op = "mul" /\ right ->
                 <<[a EXCEPT !.src0 = Log2(@)], [b EXCEPT !.op = "lshift"]>>
                 \o Rest(w, 2)
          [] OTHER -> None

\* All seven patterns keep the second of two writes to one register.
redundant_move_elim(w) ==
    LET a == w[1]
        b == w[2]
        kinds == <<IF IsLoad(a) THEN "load" ELSE a.op,
                   IF IsLoad(b) THEN "load" ELSE b.op>>
    IN  IF a.dest = b.dest
           /\ kinds \in {"assign", "load", "load_constant"} \X
                        {"assign", "load", "load_constant"}
           /\ kinds # <<"load", "load_constant">>
           /\ kinds # <<"load_constant", "load">>
        THEN <<[b EXCEPT !.src1 = IF b.op = "load_constant" THEN 0 ELSE @]>>
             \o Rest(w, 2)
        ELSE None

eliminate_load_store_pairs(w) ==
    LET a == w[1]
        b == w[2]
        same == a.src0 = b.src0 /\ a.src1 = b.src1
        reuse == <<a, [b EXCEPT !.op = "assign", !.src0 = a.dest, !.src1 = 0]>>
                 \o Rest(w, 2)
    IN  CASE a.op = "store" /\ b.op = "store" /\ same ->
                 <<[a EXCEPT !.dest = b.dest]>> \o Rest(w, 2)
          [] a.op = "load" /\ b.op = "load" /\ same -> reuse
          [] a.op = "store" /\ b.op = "load" /\ same -> reuse
          [] a.op = "load" /\ b.op = "store" /\ same /\ a.dest = b.dest ->
                 <<a>> \o Rest(w, 2)
          [] a.op = "global_store" /\ b.op = "global_store" /\ same ->
                 <<[a EXCEPT !.dest = b.dest]>> \o Rest(w, 2)
          [] a.op = "global_load" /\ b.op = "global_load" /\ same -> reuse
          [] OTHER -> None

algebraic_simplification(w) ==
    LET a == w[1]
        self == a.op \in Binary /\ a.src0 = a.src1
    IN  CASE self /\ a.op \in {"sub", "bit_xor"} ->
                 <<Insn("load_constant", a.dest, 0, 0)>> \o Rest(w, 1)
          [] self /\ a.op \in {"bit_or", "bit_and"} ->
                 <<Insn("assign", a.dest, a.src0, 0)>> \o Rest(w, 1)
          [] OTHER -> None

strength_reduction(w) ==
    LET a == w[1]
        b == w[2]
        to(c, op, x) ==
            <<[a EXCEPT !.src0 = c],
              [b EXCEPT !.op = op, !.src0 = x, !.src1 = a.dest]>> \o Rest(w, 2)
        n == Log2(a.src0)
    IN  CASE a.op # "load_constant" \/ ~IsPower(a.src0) -> None
          [] b.op = "div" /\ b.src1 = a.dest -> to(n, "rshift", b.src0)
          [] b.op = "mod" /\ b.src1 = a.dest ->
                 to(a.src0 - 1, "bit_and", b.src0)
          [] b.op = "mul" /\ b.src0 = a.dest -> to(n, "lshift", b.src1)
          [] b.op = "mul" /\ b.src0 # a.dest /\ b.src1 = a.dest ->
                 to(n, "lshift", b.src0)
          [] OTHER -> None

comparison_optimization(w) ==
    LET a == w[1]
        self == a.op \in Binary /\ a.src0 = a.src1
    IN  CASE self /\ a.op \in {"neq", "lt", "gt"} ->
                 <<Insn("load_constant", a.dest, 0, 0)>> \o Rest(w, 1)
          [] self /\ a.op \in {"eq", "leq", "geq"} ->
                 <<Insn("load_constant", a.dest, 1, 0)>> \o Rest(w, 1)
          [] OTHER -> None

\* Patterns 2 to 7 rewrite the second instruction and then unlink it: only
\* the load of the constant stays.
bitwise_optimization(w) ==
    LET a == w[1]
        b == w[2]
        imm(c) == a.op = "load_constant" /\ a.src0 = c
        right == b.src1 = a.dest
        either == right \/ b.src0 = a.dest
    IN  CASE a.op = "negate" /\ b.op = "negate" /\ b.src0 = a.dest ->
                 <<Insn("assign", b.dest, a.src0, 0)>> \o Rest(w, 2)
          [] \/ imm(-1) /\ b.op = "bit_and" /\ right
             \/ imm(0) /\ b.op \in {"bit_or", "bit_xor", "lshift", "rshift"}
                       /\ right
             \/ imm(0) /\ b.op = "bit_and" /\ either
             \/ imm(-1) /\ b.op = "bit_or" /\ either -> <<a>> \o Rest(w, 2)
          [] OTHER -> None

triple_pattern_optimization(w) ==
    LET a == w[1]
        b == w[2]
        c == w[3]
        loaded == /\ <<a.op, b.op, c.op>> = <<"store", "load", "store">>
                  /\ a.src1 = b.src0 /\ a.dest = b.src1
                  /\ b.src0 = c.src1 /\ b.src1 = c.dest
                  /\ c.src0 # b.dest
        stored == /\ <<a.op, b.op, c.op>> = <<"store", "store", "store">>
                  /\ a.src1 = b.src1 /\ a.dest = b.dest
                  /\ b.src1 = c.src1 /\ b.dest = c.dest
    IN  IF Len(w) < 3 THEN None
        ELSE CASE loaded -> <<a>> \o Rest(w, 2)
               [] stored -> <<[a EXCEPT !.src0 = c.src0]>> \o Rest(w, 3)
               [] OTHER -> None

\* The move behind the cursor is dropped when it moves a register to itself.
self_assignment(w) ==
    IF w[2].op = "assign" /\ w[2].dest = w[2].src0
    THEN <<w[1]>> \o Rest(w, 2) ELSE None

-----------------------------------------------------------------------------
(* The loop of peephole().                                                 *)

Here == SubSeq(code, ir, Len(code))

\* What each function makes of the code at the cursor, in the order in which
\* they are tried.
Tried(w) == <<self_assignment(w), triple_pattern_optimization(w),
              insn_fusion(w), comparison_optimization(w),
              strength_reduction(w), algebraic_simplification(w),
              bitwise_optimization(w), redundant_move_elim(w),
              eliminate_load_store_pairs(w)>>

\* The k-th function is the first that rewrites.
Rewrite(k) ==
    /\ Len(Here) >= 2
    /\ LET t == Tried(Here)
       IN  /\ t[k] # None
           /\ \A j \in 1..(k - 1) : t[j] = None
           /\ code' = SubSeq(code, 1, ir - 1) \o t[k]
    /\ ir' = ir + 1
    /\ UNCHANGED <<before, live>>

SelfAssignment == Rewrite(1)
Triple == Rewrite(2)
Fusion == Rewrite(3)
Comparison == Rewrite(4)
Strength == Rewrite(5)
Algebraic == Rewrite(6)
Bits == Rewrite(7)
RedundantMove == Rewrite(8)
LoadStore == Rewrite(9)

Advance ==
    /\ Len(Here) >= 1
    /\ Len(Here) >= 2 => \A k \in 1..9 : Tried(Here)[k] = None
    /\ ir' = ir + 1
    /\ UNCHANGED <<code, before, live>>

\* The code behind the cursor has come to its end.
Finished == ir > Len(code)
Stop == Finished /\ UNCHANGED vars

-----------------------------------------------------------------------------
(* What the allocator emits.                                               *)

\* Where the register that c[k] sets is read by c[k + 1], and one of the two
\* may go: behind them only the result is meant to be used.  (In a program
\* that uses "shared", also the register itself.)
Temporary(c, k) ==
    LET a == c[k]
        b == c[k + 1]
    IN  /\ Writes(a) \cap Reads(b) # {} /\ a.dest # b.dest
        /\ \/ b.op = "assign" \/ a.op = "load_constant"
           \/ a.op = "negate" /\ b.op = "negate"
\* A load between two stores to the same place is of no use.
Useless(c, k) ==
    /\ k > 1 /\ IsStore(c[k - 1]) /\ IsLoad(c[k]) /\ IsStore(c[k + 1])
    /\ c[k - 1].src1 = c[k].src0 /\ c[k].src0 = c[k + 1].src1

Gone(c, k) ==
    IF k < Len(c) /\ (("shared" \notin Uses /\ Temporary(c, k)) \/ Useless(c, k))
    THEN {c[k].dest} ELSE {}
ReadLater(c, k, r) ==
    \E j \in (k + 2)..Len(c) :
        r \in Reads(c[j]) /\ \A i \in (k + 2)..(j - 1) : r \notin Writes(c[i])
WrittenLater(c, k, r) == \E j \in (k + 2)..Len(c) : r \in Writes(c[j])

\* optimize() has folded operations on two constants, and those whose second
\* operand alone decides the result: x & 0 and x | -1.
Folded(a, b) ==
    /\ a.op = "load_constant" /\ b.op \in Binary /\ b.src1 = a.dest
    /\ \/ b.src0 = a.dest
       \/ <<a.src0, b.op>> \in {<<0, "bit_and">>, <<-1, "bit_or">>}

\* 0 & x and -1 | x, which it has not.
DecidedLeft(a, b) ==
    /\ a.op = "load_constant" /\ b.src0 = a.dest /\ a.dest # b.dest
    /\ <<a.src0, b.op>> \in {<<0, "bit_and">>, <<-1, "bit_or">>}

\* A store and a load, in this order or the other, where one field holds the
\* number of a register in one and an equal offset in the other.
Numbered(a, b) ==
    /\ {a.op, b.op} = {"store", "load"}
    /\ a.src0 = b.src0 /\ a.src1 = b.src1 /\ a.src0 # 0
    /\ a.dest = 0

Expected(c) ==
    /\ \A k \in 1..(Len(c) - 1) :
           /\ ~Folded(c[k], c[k + 1])
           /\ "left" \in Uses \/ ~DecidedLeft(c[k], c[k + 1])
           /\ "numbered" \in Uses \/ ~Numbered(c[k], c[k + 1])
    /\ \A k \in 1..Len(c) : \A r \in Gone(c, k) : ~ReadLater(c, k, r)

Begin(c) ==
    /\ Expected(c)
    /\ code = c /\ before = c /\ ir = 1
    /\ live = Regs \ UNION {{r \in Gone(c, k) : ~WrittenLater(c, k, r)} :
                              k \in 1..Len(c)}

Memory == Loads \cup Stores
Pair == \E a, b \in Alu(Ops) \cup Constants \cup Moves \cup Memory :
            Begin(<<a, b>>)
Accesses == \E a, b, c \in Memory \cup Moves : Begin(<<a, b, c>>)
Computes ==
    \E a \in Alu(LongOps) \cup Constants, b, c \in Alu(LongOps) \cup Moves :
        Begin(<<a, b, c>>)

Init == Pair \/ Accesses \/ Computes

Next ==
    \/ SelfAssignment \/ Triple \/ Fusion \/ Comparison \/ Strength
    \/ Algebraic \/ Bits \/ RedundantMove \/ LoadStore
    \/ Advance \/ Stop

Spec == Init /\ [][Next]_vars

-----------------------------------------------------------------------------
(* Properties.                                                             *)

Starts ==
    {[reg |-> f, mem |-> [x \in BOOLEAN \X Offsets |-> x[2] - (IF x[1] THEN 3 ELSE 1)]] :
        f \in [Regs -> Sample]}

\* A shift or a mask is a division only for dividends that are not negative.
NegativeDividend(m, c) ==
    \E k \in 1..Len(c) : /\ c[k].op \in {"div", "mod"}
                         /\ Trace(m, c)[k - 1].reg[c[k].src0] < 0

\* The rewritten block leaves in memory, and in every register that the code
\* behind it reads, what the block as the allocator emitted it would have
\* left there, from any state of the machine.
SameEffect ==
    Finished /\ code # before =>
        \A m \in Starts :
            "negative" \in Uses \/ ~NegativeDividend(m, before) =>
                LET was == Run(m, before)
                    is == Run(m, code)
                IN  /\ is.mem = was.mem
                    /\ \A r \in live : is.reg[r] = was.reg[r]
=============================================================================
