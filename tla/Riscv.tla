------------------------------- MODULE Riscv -------------------------------
(***************************************************************************)
(* The RISC-V code generator (src/src/riscv-codegen.c over                 *)
(* src/src/riscv.c): how many bytes update_elf_offset() counts for an      *)
(* instruction of the phase-2 code, which machine words emit_ph2_ir()      *)
(* writes for it, and what such a word does.  A word is a record of its    *)
(* fields instead of their packing into 32 bits.                           *)
(*                                                                         *)
(* c is the state of the compiler: c.size is elf_code->size, c.offset the  *)
(* elf_offset of the blocks, c.hard the option hard_mul_div.               *)
(***************************************************************************)
EXTENDS Word, SequencesExt

CONSTANTS
    ImmBits,    \* bits of an immediate operand, 12
    CodeStart,  \* elf_code_start
    DataStart   \* elf_data_start

\* rv_reg; a0 + r holds register r of the allocator.
zero == 0   ra == 1   sp == 2   gp == 3
t0 == 5     t1 == 6   t2 == 7   s0 == 8
a0 == 10    a7 == 17  t3 == 28  t4 == 29   t5 == 30

Registers == {zero, ra, sp, gp, t0, t1, t2, s0, t3, t4, t5} \cup a0..a7

-----------------------------------------------------------------------------
(* riscv.c: the words.                                                     *)

Encode(op, rd, rs1, rs2, imm) ==
    [op |-> op, rd |-> rd, rs1 |-> rs1, rs2 |-> rs2, imm |-> imm]
Short(v) == v \in -(2^(ImmBits - 1))..(2^(ImmBits - 1) - 1)

\* Mutant of rv_hi: what a negative low half takes away is not added.
rv_hi_unrounded(v) == v

rv_hi(v) == v + (IF Bit(v, ImmBits - 1) = 1 THEN 2^ImmBits ELSE 0)
rv_lo(v) == (v % 2^ImmBits) - (IF Bit(v, ImmBits - 1) = 1 THEN 2^ImmBits ELSE 0)

rv_encode_R(op, rd, rs1, rs2) == Encode(op, rd, rs1, rs2, 0)
\* "Offset too large"
rv_encode_I(op, rd, rs1, imm) ==
    IF Short(imm) THEN Encode(op, rd, rs1, 0, imm) ELSE Encode("fatal", 0, 0, 0, 0)
rv_encode_S(op, rs2, rs1, imm) ==
    IF Short(imm) THEN Encode(op, 0, rs1, rs2, imm) ELSE Encode("fatal", 0, 0, 0, 0)
rv_encode_B(op, rs1, rs2, imm) == Encode(op, 0, rs1, rs2, imm)
rv_encode_J(rd, imm) == Encode("jal", rd, 0, 0, imm)
\* The low bits are cut off.
rv_encode_U(rd, imm) == Encode("lui", rd, 0, 0, imm \div 2^ImmBits)

addi(rd, rs, imm) == rv_encode_I("addi", rd, rs, imm)
lui_addi(rd, v) == <<rv_encode_U(rd, rv_hi(v)), addi(rd, rd, rv_lo(v))>>

-----------------------------------------------------------------------------
(* update_elf_offset(), with the sizes cfg_flatten() gives the code around *)
(* the instructions and, as "define", a function's prologue.               *)

Half == 2^(W \div 2)
Byte == W \div 4            \* bits of a char
SourceSize(i) == i.src1 \div Half
TargetSize(i) == i.src1 % Half

Size(i, c) ==
    CASE i.op = "start" -> 60
      [] i.op = "main" -> 16
      [] i.op = "exit" -> 8
      [] i.op = "label" -> 0
      [] i.op = "define" -> 16
      [] i.op = "load_constant" -> IF Short(i.src0) THEN 4 ELSE 8
      [] i.op \in {"address_of", "global_address_of"} ->
             IF Short(i.src0) THEN 4 ELSE 12
      [] i.op \in {"load", "global_load"} -> IF Short(i.src0) THEN 4 ELSE 16
      [] i.op \in {"store", "global_store"} -> IF Short(i.src1) THEN 4 ELSE 16
      [] i.op = "mul" -> IF c.hard THEN 4 ELSE 52
      [] i.op \in {"div", "mod"} -> IF c.hard THEN 4 ELSE 108
      [] i.op \in {"load_data_address", "neq", "geq", "leq", "log_not"} -> 8
      [] i.op \in {"address_of_func", "eq"} -> 12
      [] i.op = "branch" -> 20
      [] i.op = "return" -> 24
      [] i.op = "trunc" -> IF i.src1 = 2 THEN 8 ELSE 4
      [] i.op = "sign_ext" -> IF SourceSize(i) = 2 THEN 8 ELSE 12
      [] OTHER -> 4

-----------------------------------------------------------------------------
(* emit_ph2_ir() and the fixed parts of code_generate().                   *)

SoftMul(rd, rs1, rs2) ==
    <<addi(t0, zero, 0), addi(t1, zero, 0), addi(t3, rs1, 0), addi(t4, rs2, 0),
      rv_encode_B("beq", t3, zero, 32),
      rv_encode_B("beq", t4, zero, 28),
      rv_encode_I("andi", t1, t4, 1),
      rv_encode_B("beq", t1, zero, 8),
      rv_encode_R("add", t0, t0, t3),
      rv_encode_I("slli", t3, t3, 1),
      rv_encode_I("srli", t4, t4, 1),
      rv_encode_J(zero, -28),
      addi(rd, t0, 0)>>

\* The second loop of the division, on the bit of the quotient and the
\* divisor; in the mutant the bit is not moved.
SubtractStuck(bit, divisor) ==
    <<rv_encode_B("bltu", t2, divisor, 12),
      rv_encode_R("sub", t2, t2, divisor),
      rv_encode_R("add", t0, t0, bit),
      rv_encode_I("srli", divisor, divisor, 1),
      rv_encode_I("srli", divisor, divisor, 1),
      rv_encode_B("bne", bit, zero, -20)>>
Subtract(bit, divisor) ==
    <<rv_encode_B("bltu", t2, divisor, 12),
      rv_encode_R("sub", t2, t2, divisor),
      rv_encode_R("add", t0, t0, bit),
      rv_encode_I("srli", bit, bit, 1),
      rv_encode_I("srli", divisor, divisor, 1),
      rv_encode_B("bne", bit, zero, -20)>>

SoftDiv(rd, rs1, rs2, interm, divisor_mask) ==
    <<addi(t2, rs1, 0), addi(t3, rs2, 0),
      rv_encode_I("srai", t0, t2, W - 1),
      rv_encode_R("add", t2, t2, t0),
      rv_encode_R("xor", t2, t2, t0),
      rv_encode_I("srai", t1, t3, W - 1),
      rv_encode_R("add", t3, t3, t1),
      rv_encode_R("xor", t3, t3, t1),
      rv_encode_R("xor", t5, t0, divisor_mask),
      addi(t0, zero, 0), addi(t1, zero, 1),
      rv_encode_B("beq", t3, zero, 52),
      rv_encode_B("beq", t2, zero, 48),
      rv_encode_B("beq", t2, t3, 20),
      rv_encode_B("bltu", t2, t3, 16),
      rv_encode_I("slli", t3, t3, 1),
      rv_encode_I("slli", t1, t1, 1),
      rv_encode_J(zero, -16)>>
    \o Subtract(t1, t3) \o
    <<addi(rd, interm, 0),
      rv_encode_B("beq", t5, zero, 8),
      rv_encode_R("sub", rd, zero, rd)>>

\* The address base + ofs in t0 when it does not fit into an instruction.
Far(base, ofs) == lui_addi(t0, ofs) \o <<rv_encode_R("add", t0, base, t0)>>

Direct == [add |-> "add", sub |-> "sub", lshift |-> "sll", rshift |-> "sra",
           lt |-> "slt", bit_and |-> "and", bit_or |-> "or", bit_xor |-> "xor"]
Sized(by1, by2, by4, sz) == IF sz = 1 THEN by1 ELSE IF sz = 2 THEN by2 ELSE by4

AroundOps == {"start", "main", "exit", "label", "define"}
MovingOps == {"load_constant", "address_of", "global_address_of", "load",
              "global_load", "store", "global_store", "read", "write",
              "load_data_address"}
ControlOps == {"branch", "jump", "call", "address_of_func", "load_func",
               "indirect", "return"}

\* The code around the instructions, and a function's prologue.
Around(i, c) ==
    CASE i.op = "label" -> << >>
      [] i.op = "start" ->
             <<addi(s0, sp, 0)>> \o lui_addi(t0, i.src0) \o
             <<rv_encode_R("sub", sp, sp, t0), addi(gp, sp, 0),
               rv_encode_J(ra, c.offset[i.to] - (c.size + 20)),
               addi(a7, a0, 0), addi(a0, a0 + 1, 0),
               addi(a0 + 1, a0 + 2, 0), addi(a0 + 2, a0 + 3, 0),
               addi(a0 + 3, a0 + 4, 0), addi(a0 + 4, a0 + 5, 0),
               addi(a0 + 5, a0 + 6, 0), Encode("ecall", 0, 0, 0, 0),
               rv_encode_I("jalr", zero, ra, 0)>>
      [] i.op = "main" ->
             <<addi(t0, s0, 0), rv_encode_I("lw", a0, t0, 0),
               addi(a0 + 1, t0, 4),
               rv_encode_J(ra, c.offset[i.to] - (c.size + 12))>>
      [] i.op = "exit" ->            \* system call 93
             <<addi(a7, zero, 0), Encode("ecall", 0, 0, 0, 0)>>
      [] i.op = "define" ->
             <<rv_encode_S("sw", ra, sp, -4)>> \o lui_addi(t0, i.src0 + 4)
             \o <<rv_encode_R("sub", sp, sp, t0)>>

\* Constants, addresses and memory.
Moving(i, c) ==
    LET rd == i.dest + a0
        rs1 == i.src0 + a0
        rs2 == i.src1 + a0
        base == IF i.op \in {"load", "store", "address_of"} THEN sp ELSE gp
    IN  CASE i.op = "load_constant" ->
                 IF Short(i.src0) THEN <<addi(rd, zero, i.src0)>>
                 ELSE lui_addi(rd, i.src0)
          [] i.op \in {"address_of", "global_address_of"} ->
                 IF Short(i.src0) THEN <<addi(rd, base, i.src0)>>
                 ELSE lui_addi(t0, i.src0) \o <<rv_encode_R("add", rd, base, t0)>>
          [] i.op \in {"load", "global_load"} ->
                 IF Short(i.src0) THEN <<rv_encode_I("lw", rd, base, i.src0)>>
                 ELSE Far(base, i.src0) \o <<rv_encode_I("lw", rd, t0, 0)>>
          [] i.op \in {"store", "global_store"} ->
                 IF Short(i.src1) THEN <<rv_encode_S("sw", rs1, base, i.src1)>>
                 ELSE Far(base, i.src1) \o <<rv_encode_S("sw", rs1, t0, 0)>>
          [] i.op = "read" ->
                 <<rv_encode_I(Sized("lb", "lh", "lw", i.src1), rd, rs1, 0)>>
          [] i.op = "write" ->
                 <<rv_encode_S(Sized("sb", "sh", "sw", i.dest), rs2, rs1, 0)>>
          [] i.op = "load_data_address" -> lui_addi(rd, DataStart + i.src0)

\* Branches, calls and returns.
Control(i, c) ==
    LET rs1 == i.src0 + a0
    IN  CASE i.op = "branch" ->
                 lui_addi(t0, CodeStart + c.offset[i.to]) \o
                 <<rv_encode_B("beq", rs1, zero, 8),
                   rv_encode_I("jalr", zero, t0, 0),
                   rv_encode_J(zero, c.offset[i.else_bb] - (c.size + 16))>>
          [] i.op = "jump" -> <<rv_encode_J(zero, c.offset[i.to] - c.size)>>
          [] i.op = "call" -> <<rv_encode_J(ra, c.offset[i.to] - c.size)>>
          [] i.op = "address_of_func" ->
                 lui_addi(t0, CodeStart + c.offset[i.to])
                 \o <<rv_encode_S("sw", t0, rs1, 0)>>
          [] i.op = "load_func" -> <<addi(t0, rs1, 0)>>
          [] i.op = "indirect" -> <<rv_encode_I("jalr", ra, t0, 0)>>
          [] i.op = "return" ->
                 <<IF i.src0 = -1 THEN addi(zero, zero, 0) ELSE addi(a0, rs1, 0)>>
                 \o lui_addi(t0, i.src1 + 4) \o
                 <<rv_encode_R("add", sp, sp, t0), rv_encode_I("lw", ra, sp, -4),
                   rv_encode_I("jalr", zero, ra, 0)>>

\* Arithmetic, comparisons and conversions.
Arithmetic(i, c) ==
    LET rd == i.dest + a0
        rs1 == i.src0 + a0
        rs2 == i.src1 + a0
        shift == (TargetSize(i) - SourceSize(i)) * Byte
        not1 == rv_encode_I("xori", rd, rd, 1)
    IN  CASE i.op \in DOMAIN Direct ->
                 <<rv_encode_R(Direct[i.op], rd, rs1, rs2)>>
          [] i.op \in {"mul", "div", "mod"} /\ c.hard ->
                 <<rv_encode_R(i.op, rd, rs1, rs2)>>
          [] i.op = "mul" /\ ~c.hard -> SoftMul(rd, rs1, rs2)
          [] i.op = "div" /\ ~c.hard -> SoftDiv(rd, rs1, rs2, t0, t1)
          [] i.op = "mod" /\ ~c.hard -> SoftDiv(rd, rs1, rs2, t2, zero)
          [] i.op = "eq" -> <<rv_encode_R("sub", rd, rs1, rs2),
                              rv_encode_R("sltu", rd, zero, rd), not1>>
          [] i.op = "neq" -> <<rv_encode_R("sub", rd, rs1, rs2),
                               rv_encode_R("sltu", rd, zero, rd)>>
          [] i.op = "gt" -> <<rv_encode_R("slt", rd, rs2, rs1)>>
          [] i.op = "geq" -> <<rv_encode_R("slt", rd, rs1, rs2), not1>>
          [] i.op = "leq" -> <<rv_encode_R("slt", rd, rs2, rs1), not1>>
          [] i.op = "negate" -> <<rv_encode_R("sub", rd, zero, rs1)>>
          [] i.op = "bit_not" -> <<rv_encode_I("xori", rd, rs1, -1)>>
          [] i.op = "log_not" -> <<rv_encode_R("sltu", rd, zero, rs1), not1>>
          [] i.op = "trunc" ->
                 CASE i.src1 = 1 -> <<rv_encode_I("andi", rd, rs1, 2^Byte - 1)>>
                   [] i.src1 = 2 -> <<rv_encode_I("slli", rd, rs1, 2 * Byte),
                                      rv_encode_I("srli", rd, rd, 2 * Byte)>>
                   [] OTHER -> <<rv_encode_R("add", rd, rs1, zero)>>
          [] i.op = "sign_ext" ->
                 (IF SourceSize(i) = 2
                  THEN <<rv_encode_I("slli", rd, rs1, shift)>>
                  ELSE <<rv_encode_I("andi", rd, rs1, 2^Byte - 1),
                         rv_encode_I("slli", rd, rd, shift)>>)
                 \o <<rv_encode_I("srai", rd, rd, shift)>>
          [] OTHER -> <<addi(rd, rs1, 0)>>       \* assign, cast

Words(i, c) ==
    CASE i.op \in AroundOps -> Around(i, c)
      [] i.op \in MovingOps -> Moving(i, c)
      [] i.op \in ControlOps -> Control(i, c)
      [] OTHER -> Arithmetic(i, c)

-----------------------------------------------------------------------------
(* What a word does to the machine m: its pc, its registers, its memory.   *)

Step(m, w) ==
    LET x == m.reg[w.rs1]
        y == m.reg[w.rs2]
        next == [m EXCEPT !.pc = @ + 4]
        put(v) == IF w.rd = zero THEN next
                  ELSE [next EXCEPT !.reg[w.rd] = Signed(v)]
        to(pc) == [m EXCEPT !.pc = pc,
                            !.reg[w.rd] = IF w.rd = zero THEN 0 ELSE m.pc + 4]
        branch(p) == IF p THEN [m EXCEPT !.pc = @ + w.imm] ELSE next
        address == Signed(x + w.imm)
        left == x * 2^w.imm
    IN  CASE w.op = "lui" -> put(w.imm * 2^ImmBits)
          [] w.op = "addi" -> put(x + w.imm)
          [] w.op = "andi" -> put(Meaning("bit_and", x, w.imm))
          [] w.op = "xori" -> put(Meaning("bit_xor", x, w.imm))
          [] w.op = "slli" -> put(left)
          [] w.op = "srli" -> put(Unsigned(x) \div 2^w.imm)
          [] w.op = "srai" -> put(x \div 2^w.imm)
          [] w.op \in {"add", "sub", "mul", "div", "mod"} -> put(Meaning(w.op, x, y))
          [] w.op = "and" -> put(Meaning("bit_and", x, y))
          [] w.op = "or" -> put(Meaning("bit_or", x, y))
          [] w.op = "xor" -> put(Meaning("bit_xor", x, y))
          [] w.op = "sll" -> put(Meaning("lshift", x, y))
          [] w.op = "sra" -> put(Meaning("rshift", x, y))
          [] w.op = "slt" -> put(Bool(x < y))
          [] w.op = "sltu" -> put(Bool(Unsigned(x) < Unsigned(y)))
          [] w.op = "beq" -> branch(x = y)
          [] w.op = "bne" -> branch(x # y)
          [] w.op = "bltu" -> branch(Unsigned(x) < Unsigned(y))
          [] w.op = "jal" -> to(m.pc + w.imm)
          [] w.op = "jalr" -> to(x + w.imm)
          [] w.op = "lw" -> put(At(m.mem, address))
          [] w.op = "lh" -> put(SignExtend(At(m.mem, address), 2 * Byte))
          [] w.op = "lb" -> put(SignExtend(At(m.mem, address), Byte))
          [] w.op = "sw" -> [next EXCEPT !.mem = Store(@, address, y, W)]
          [] w.op = "sh" -> [next EXCEPT !.mem = Store(@, address, y, 2 * Byte)]
          [] w.op = "sb" -> [next EXCEPT !.mem = Store(@, address, y, Byte)]
          [] OTHER -> next                       \* ecall
=============================================================================
