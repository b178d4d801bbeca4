------------------------------ MODULE Codegen ------------------------------
(***************************************************************************)
(* One instruction of the phase-2 code: the words either code generator    *)
(* writes for it are executed one by one, from any contents of the         *)
(* registers, and compared with what the instruction means.                *)
(***************************************************************************)
EXTENDS Word, SequencesExt

CONSTANTS
    ImmBits, DataStart,
    Sample,     \* values registers start with
    Numbers,    \* constants and offsets in the instructions
    Includes    \* kinds of instructions that are compared: "self", a division
                \* by the dividend's own register; "narrow", an extension of a
                \* char to a short

ASSUME SampleAssumption ==
    /\ ImmBits \in 2..(W - 1) /\ DataStart \in Nat
    /\ Sample \subseteq Word /\ Numbers \subseteq Word

VARIABLES
    target,     \* "arm" or "riscv"
    i,          \* the instruction
    code,       \* elf_code
    m,          \* the machine: pc, reg, flags, mem
    start       \* the machine before

vars == <<target, i, code, m, start>>

ARM == INSTANCE Arm WITH CodeStart <- 0
RISCV == INSTANCE Riscv WITH CodeStart <- 0

Step(machine, w) ==
    IF target = "arm" THEN ARM!Step(machine, w) ELSE RISCV!Step(machine, w)

-----------------------------------------------------------------------------
(* The instructions: which of the operands have the same register.         *)

Regs == 0..3
Insn(op, dest, src0, src1) ==
    [op |-> op, dest |-> dest, src0 |-> src0, src1 |-> src1]
Fields == {<<0, 0, 0>>, <<0, 0, 1>>, <<0, 1, 0>>, <<1, 0, 0>>, <<2, 0, 1>>}
Moving == {<<0, 0>>, <<1, 0>>}

\* Sizes in bytes; an extension has the source's in the upper half.
Sizes == {1, 2, 4}
Extension(from, to) == from * 2^(W \div 2) + to

Instructions ==
    {Insn(op, f[1], f[2], f[3]) : op \in Binary, f \in Fields}
    \cup {Insn(op, f[1], f[2], 0) : op \in Unary \cup {"cast"}, f \in Moving}
    \cup {Insn("assign", 1, 0, 0)}
    \cup {Insn("trunc", f[1], f[2], sz) : f \in Moving, sz \in Sizes}
    \cup {Insn("sign_ext", f[1], f[2], Extension(s[1], s[2])) :
            f \in Moving, s \in {<<1, 2>>, <<1, 4>>, <<2, 4>>}}
    \cup {Insn(op, 0, v, 0) :
            op \in {"load_constant", "load_data_address"}, v \in Numbers}
    \cup {Insn(op, 0, v, 0) :
            op \in {"address_of", "global_address_of", "load", "global_load"},
            v \in Numbers}
    \cup {Insn(op, 0, 0, v) : op \in {"store", "global_store"}, v \in Numbers}
    \cup {Insn("read", f[1], f[2], sz) : f \in Moving, sz \in Sizes}
    \cup {Insn("write", sz, f[1], f[2]) : f \in Moving, sz \in Sizes}

\* Offsets on ARM are not negative: update_elf_offset() aborts.
Offset(j) ==
    CASE j.op \in {"address_of", "global_address_of", "load", "global_load"} -> j.src0
      [] j.op \in {"store", "global_store"} -> j.src1
      [] OTHER -> 0

\* Operands for which C leaves the result open.
Defined(j, x, y) ==
    /\ j.op \in {"div", "mod"} => y # 0
    /\ j.op \in {"lshift", "rshift"} => y \in 0..(W - 1)

Kinds(j) ==
    {k \in {"self", "narrow"} :
       \/ k = "self" /\ j.op \in {"div", "mod"} /\ j.src0 = j.src1
       \/ k = "narrow" /\ j.op = "sign_ext" /\ j.src1 = Extension(1, 2)}

-----------------------------------------------------------------------------
(* What an instruction means.                                              *)

sp == IF target = "arm" THEN 13 ELSE 2
gp == IF target = "arm" THEN 12 ELSE 3
\* Where the target keeps register r of the allocator.
Reg(machine, r) == machine.reg[IF target = "arm" THEN r ELSE r + 10]

Low(v, sz) == v % 2^(sz * (W \div 4))
Base == start.reg[IF i.op \in {"load", "store", "address_of"} THEN sp ELSE gp]
Address == IF i.op \in {"read", "write"} THEN Reg(start, i.src0)
           ELSE Signed(Base + Offset(i))

HasResult == i.op \notin {"store", "global_store", "write"}
\* The results the instruction may have; how a char is read into a register,
\* signed or not, is left to the target.
Results ==
    LET x == Reg(start, i.src0)
        y == Reg(start, i.src1)
        sz == i.src1 \div 2^(W \div 2)
    IN  CASE i.op = "load_constant" -> {i.src0}
          [] i.op = "load_data_address" -> {Signed(DataStart + i.src0)}
          [] i.op \in {"assign", "cast"} -> {x}
          [] i.op \in {"address_of", "global_address_of"} -> {Address}
          [] i.op \in {"load", "global_load"} -> {At(start.mem, Address)}
          [] i.op = "trunc" -> {IF i.src1 = 4 THEN x ELSE Low(x, i.src1)}
          [] i.op = "sign_ext" -> {SignExtend(x, sz * (W \div 4))}
          [] i.op = "read" ->
                 {v \in Word : Low(v, i.src1) = Low(At(start.mem, Address), i.src1)}
          [] i.op \in Unary -> {Meaning(i.op, x, 0)}
          [] OTHER -> {Meaning(i.op, x, y)}

Memory ==
    CASE i.op \in {"store", "global_store"} ->
             Store(start.mem, Address, Reg(start, i.src0), W)
      [] i.op = "write" ->
             Store(start.mem, Address, Reg(start, i.src1), i.dest * (W \div 4))
      [] OTHER -> start.mem

-----------------------------------------------------------------------------
(* The run.  The stack pointer and the one of the globals are apart; the   *)
(* other registers hold something of their own.                            *)

Top == 2^(W - 2)
Machine(x, y) ==
    [pc |-> 0, mem |-> << >>, flags |-> ARM!NoFlags,
     reg |-> IF target = "arm"
             THEN [r \in ARM!Registers |->
                     CASE r = sp -> Top [] r = gp -> -Top
                       [] r = 0 -> x [] r = 1 -> y [] OTHER -> r]
             ELSE [r \in RISCV!Registers |->
                     CASE r = sp -> Top [] r = gp -> -Top [] r = 0 -> 0
                       [] r = 10 -> x [] r = 11 -> y [] OTHER -> r]]

Init ==
    /\ target \in {"arm", "riscv"}
    /\ i \in {j \in Instructions : /\ Kinds(j) \subseteq Includes
                                   /\ target = "arm" => Offset(j) >= 0}
    /\ \E hard \in BOOLEAN, x \in Sample, y \in Sample :
         /\ Defined(i, IF i.src0 = 0 THEN x ELSE y, IF i.src1 = 0 THEN x ELSE y)
         /\ LET c == [size |-> 0, offset |-> << >>, hard |-> hard,
                      dynlink |-> FALSE, extern |-> {}]
            IN  code = IF target = "arm" THEN ARM!Words(i, c) ELSE RISCV!Words(i, c)
         /\ start = Machine(x, y)
    /\ m = start

Done == m.pc = 4 * Len(code)

Run ==
    /\ ~Done
    /\ m' = Step(m, code[m.pc \div 4 + 1])
    /\ UNCHANGED <<target, i, code, start>>
Stop == Done /\ UNCHANGED vars

Next == Run \/ Stop

\* The processor goes on.
Spec == Init /\ [][Next]_vars /\ WF_vars(Run)

-----------------------------------------------------------------------------
(* Properties.                                                             *)

\* emit_ph2_ir(): the words leave the result in the register of the result,
\* whichever operands share a register, and memory as the instruction says;
\* the other registers of the allocator, the stack and the globals' pointer
\* are as before.  Below the stack pointer the division may have pushed.
Correct ==
    Done =>
      /\ HasResult => Reg(m, i.dest) \in Results
      /\ \A r \in Regs :
           (HasResult /\ r = i.dest) \/ Reg(m, r) = Reg(start, r)
      /\ m.reg[sp] = Top /\ m.reg[gp] = -Top
      /\ \A a \in DOMAIN m.mem \ {Top - 4, Top - 8} :
           m.mem[a] = At(Memory, a)
      /\ \A a \in DOMAIN Memory : At(m.mem, a) = Memory[a]

\* The loops of the emulated multiplication and division end.
Ends == <>Done
=============================================================================
