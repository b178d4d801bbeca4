-------------------------------- MODULE Arm --------------------------------
(***************************************************************************)
(* The ARM code generator (src/src/arm-codegen.c over src/src/arm.c): how  *)
(* many bytes update_elf_offset() counts for an instruction of the phase-2 *)
(* code, which machine words emit_ph2_ir() writes for it, and what such a  *)
(* word does.  A word is a record of its fields instead of their packing   *)
(* into 32 bits.                                                           *)
(*                                                                         *)
(* c is the state of the compiler: c.size is elf_code->size, c.offset the  *)
(* elf_offset of the blocks (and for the functions of the C library, which *)
(* have none, the place of their PLT entry from the start of the code),    *)
(* c.extern those functions, c.detached whether arm_lower() marked the     *)
(* branch, c.hard the option hard_mul_div, c.dynlink that of this name.    *)
(***************************************************************************)
EXTENDS Word, SequencesExt

CONSTANTS
    ImmBits,    \* bits of the offset of a load or a store, 12
    CodeStart,  \* elf_code_start
    DataStart   \* elf_data_start

\* arm_reg
r8 == 8   r9 == 9   r10 == 10   r12 == 12   sp == 13   lr == 14   pc == 15
Registers == 0..lr
\* 0x4FF0, and the mutant 0x5FD0.
SavedOthers == {4} \cup 6..12 \cup {lr}
Saved == 4..11 \cup {lr}

Half == 2^(W \div 2)
Byte == W \div 4                            \* bits of a char
ByteMax == 2^Byte - 1                       \* 255
ImmMax == 2^ImmBits - 1                     \* 4095
SourceSize(i) == i.src1 \div Half
ALIGN_UP(v) == ((v + 7) \div 8) * 8

-----------------------------------------------------------------------------
(* arm.c: the words.  x is the second operand, a register or a number.     *)

arm_encode(cond, op, d, n, x) ==
    [cond |-> cond, op |-> op, d |-> d, n |-> n, x |-> x]
AL(op, d, n, x) == arm_encode("AL", op, d, n, x)

movw_movt(d, imm) == <<AL("movw", d, 0, imm), AL("movt", d, 0, imm)>>
mov_i(cond, d, imm) == arm_encode(cond, "mov_i", d, 0, imm)
mov_r(d, m) == AL("mov_r", d, 0, m)
\* Mutant of b: counted from the instruction itself.
b_here(cond, ofs) == arm_encode(cond, "b", 0, 0, ofs \div 4)

\* Counted from the place two words on.
b(cond, ofs) == arm_encode(cond, "b", 0, 0, (ofs - 8) \div 4)
bl(ofs) == AL("bl", 0, 0, (ofs - 8) \div 4)
\* s: the flags are set.
srl_amt(cond, s, shift, d, m, amt) ==
    arm_encode(cond, IF s = 1 THEN "lsrs" ELSE shift, d, m, amt)

arm_get_cond == [eq |-> "EQ", neq |-> "NE", lt |-> "LT", geq |-> "GE",
                 gt |-> "GT", leq |-> "LE"]

-----------------------------------------------------------------------------
(* update_elf_offset(), with the sizes cfg_flatten() gives the code around *)
(* the instructions and, as "define", a function's prologue.               *)

\* A branch; in the mutant the words of a detached one are not counted.
BranchSizeShort(c) == 8
BranchSize(c) == IF c.detached THEN 12 ELSE 8

Size(i, c) ==
    CASE i.op = "start" -> IF c.dynlink THEN 100 ELSE 112
      [] i.op = "main" -> IF c.dynlink THEN 12 ELSE 24
      [] i.op = "exit" -> IF c.dynlink THEN 16 ELSE 8
      [] i.op = "label" -> 0
      [] i.op = "define" -> 28
      [] i.op = "load_constant" ->
             IF i.src0 < 0 THEN 12 ELSE IF i.src0 > ByteMax THEN 8 ELSE 4
      [] i.op \in {"address_of", "global_address_of"} ->
             IF i.src0 > ByteMax THEN 12 ELSE 4
      [] i.op = "assign" -> IF i.dest # i.src0 THEN 4 ELSE 0
      [] i.op \in {"load", "global_load"} -> IF i.src0 > ImmMax THEN 16 ELSE 4
      [] i.op \in {"store", "global_store"} -> IF i.src1 > ImmMax THEN 16 ELSE 4
      [] i.op = "call" -> IF i.to \in c.extern THEN 16 ELSE 4
      [] i.op = "div" -> IF c.hard THEN 4 ELSE 116
      [] i.op = "mod" -> IF c.hard THEN 12 ELSE 116
      [] i.op = "load_data_address" -> 8
      [] i.op \in {"address_of_func", "log_not"} \cup DOMAIN arm_get_cond -> 12
      [] i.op = "branch" -> BranchSize(c)
      [] i.op = "return" -> 24
      [] i.op = "trunc" -> IF i.src1 = 2 THEN 8 ELSE 4
      [] OTHER -> 4

-----------------------------------------------------------------------------
(* emit_ph2_ir() and the fixed parts of code_generate().                   *)

SoftDiv(op, rd, rn, rm) ==
    <<AL("stmdb", 0, sp, {rn, rm}),
      srl_amt("AL", 0, "asr", r8, rn, W - 1),
      AL("add_r", rn, rn, r8), AL("eor_r", rn, rn, r8),
      srl_amt("AL", 0, "asr", r9, rm, W - 1),
      AL("add_r", rm, rm, r9), AL("eor_r", rm, rm, r9),
      IF op = "div" THEN AL("eor_r", r10, r8, r9) ELSE mov_r(r10, r8),
      mov_i("AL", r8, 0), mov_i("AL", r9, 1),
      AL("cmp_i", 0, rm, 0), b("EQ", 52),
      AL("cmp_i", 0, rn, 0), b("EQ", 44),
      AL("cmp_r", 0, rm, rn),
      srl_amt("CC", 0, "lsl", rm, rm, 1),
      srl_amt("CC", 0, "lsl", r9, r9, 1),
      b("CC", -12),
      AL("cmp_r", 0, rn, rm),
      arm_encode("CS", "sub_r", rn, rn, rm),
      arm_encode("CS", "add_r", r8, r8, r9),
      srl_amt("AL", 1, "lsr", r9, r9, 1),
      srl_amt("CC", 0, "lsr", rm, rm, 1),
      b("CC", -20),
      mov_r(r9, rn),
      AL("ldm", 0, sp, {rn, rm}),
      mov_r(rd, IF op = "div" THEN r8 ELSE r9),
      AL("cmp_i", 0, r10, 0),
      arm_encode("NE", "rsb_i", rd, rd, 0)>>

\* The stack of the globals, and where every function finds it again.
GlobalStack(i, c) == ALIGN_UP(i.src0) + (IF c.dynlink THEN 4 ELSE 0)
SetGlobalStack(i, c) ==
    movw_movt(r8, GlobalStack(i, c)) \o
    <<AL("sub_r", sp, sp, r8), mov_r(r12, sp)>> \o movw_movt(r8, DataStart) \o
    <<AL("str", r12, r8, 0)>>
\* Mutant of Reload: a call of the C library is taken to keep r12.
ReloadNothing == <<mov_r(r8, r8), mov_r(r8, r8), mov_r(r8, r8)>>

Reload == movw_movt(r8, DataStart) \o <<AL("ldr", r12, r8, 0)>>

\* __libc_start_main is called with the address of what follows it.
DynamicStart ==
    <<mov_i("AL", 11, 0), mov_i("AL", lr, 0), AL("ldm", 0, sp, {1}),
      mov_r(2, sp), AL("stmdb", 0, sp, {2}), AL("stmdb", 0, sp, {0}),
      mov_i("AL", r12, 0), AL("stmdb", 0, sp, {r12})>> \o
    movw_movt(0, CodeStart + 60) \o
    <<mov_i("AL", 3, 0), AL("svc", 0, 0, 0), mov_i("AL", 0, 127),
      mov_i("AL", 7, 1), AL("svc", 0, 0, 0)>>
MainWrapper == <<AL("stmdb", 0, sp, Saved), mov_r(r9, 0), mov_r(r10, 1)>>

StaticStart(i, c) ==
    SetGlobalStack(i, c) \o
    <<bl(c.offset[i.to] - (c.size + 28)), b("AL", 56)>> \o
    movw_movt(r8, GlobalStack(i, c)) \o
    <<AL("add_r", sp, sp, r8), mov_r(0, 0), mov_i("AL", 7, 1),
      AL("svc", 0, 0, 0),
      AL("ldr", 4, sp, 0), AL("ldr", 5, sp, 4), AL("ldr", 6, sp, 8),
      AL("ldr", 7, sp, 12), mov_r(7, 0), mov_r(0, 1), mov_r(1, 2), mov_r(2, 3),
      mov_r(3, 4), mov_r(4, 5), mov_r(5, 6), AL("svc", 0, 0, 0),
      AL("bx", 0, 0, lr)>>

CallMain(i, c) ==
    IF c.dynlink
    THEN <<mov_r(0, r9), mov_r(1, r10), bl(c.offset[i.to] - (c.size + 8))>>
    ELSE movw_movt(r8, GlobalStack(i, c)) \o
         <<AL("add_r", r8, r12, r8), AL("ldr", 0, r8, 0), AL("add_i", 1, r8, 4),
           bl(c.offset[i.to] - (c.size + 20))>>
Exit(i, c) ==
    IF c.dynlink
    THEN movw_movt(r8, GlobalStack(i, c)) \o
         <<AL("add_r", sp, sp, r8), AL("ldm", 0, sp, 4..11 \cup {pc})>>
    ELSE <<mov_i("AL", 7, 1), AL("svc", 0, 0, 0)>>

\* Far offsets are added up in r8.
Far(base, ofs) == movw_movt(r8, ofs) \o <<AL("add_r", r8, base, r8)>>

Direct == [add |-> "add_r", sub |-> "sub_r", lshift |-> "lsl_r", rshift |-> "asr_r",
           mul |-> "mul", bit_and |-> "and_r", bit_or |-> "orr_r",
           bit_xor |-> "eor_r"]
Sized(by1, by2, by4, sz) == IF sz = 1 THEN by1 ELSE IF sz = 2 THEN by2 ELSE by4

AroundOps == {"start", "main", "exit", "label", "define"}
MovingOps == {"load_constant", "address_of", "global_address_of", "load",
              "global_load", "store", "global_store", "read", "write",
              "load_data_address"}
ControlOps == {"branch", "jump", "call", "address_of_func", "load_func",
               "indirect", "return"}

\* The code around the instructions, and a function's prologue.
Around(i, c) ==
    LET frame == ALIGN_UP(i.src0) + 4
    IN  CASE i.op = "label" -> << >>
          [] i.op = "start" ->
                 IF c.dynlink
                 THEN DynamicStart \o MainWrapper \o SetGlobalStack(i, c)
                 ELSE StaticStart(i, c)
          [] i.op = "main" -> CallMain(i, c)
          [] i.op = "exit" -> Exit(i, c)
          [] i.op = "define" ->
                 <<AL("stmdb", 0, sp, Saved)>> \o Reload \o movw_movt(r8, frame)
                 \o <<AL("sub_r", sp, sp, r8)>>

\* Constants, addresses and memory.
Moving(i, c) ==
    LET rd == i.dest
        rn == i.src0
        rm == i.src1
        base == IF i.op \in {"load", "store", "address_of"} THEN sp ELSE r12
    IN  CASE i.op = "load_constant" ->
                 IF i.src0 < 0
                 THEN movw_movt(r8, -i.src0) \o <<AL("rsb_i", rd, r8, 0)>>
                 ELSE IF i.src0 > ByteMax THEN movw_movt(rd, i.src0)
                 ELSE <<mov_i("AL", rd, i.src0)>>
          [] i.op \in {"address_of", "global_address_of"} ->
                 IF i.src0 > ByteMax
                 THEN movw_movt(r8, i.src0) \o <<AL("add_r", rd, base, r8)>>
                 ELSE <<AL("add_i", rd, base, i.src0)>>
          [] i.op \in {"load", "global_load"} ->
                 IF i.src0 > ImmMax
                 THEN Far(base, i.src0) \o <<AL("ldr", rd, r8, 0)>>
                 ELSE <<AL("ldr", rd, base, i.src0)>>
          [] i.op \in {"store", "global_store"} ->
                 IF i.src1 > ImmMax
                 THEN Far(base, i.src1) \o <<AL("str", rn, r8, 0)>>
                 ELSE <<AL("str", rn, base, i.src1)>>
          [] i.op = "read" -> <<AL(Sized("ldrb", "ldrsh", "ldr", rm), rd, rn, 0)>>
          [] i.op = "write" -> <<AL(Sized("strb", "strh", "str", rd), rm, rn, 0)>>
          [] i.op = "load_data_address" -> movw_movt(rd, i.src0 + DataStart)

\* Branches, calls and returns.
Control(i, c) ==
    LET rn == i.src0
        frame == ALIGN_UP(i.src1) + 4
        distance == c.offset[i.to] - c.size
    IN  CASE i.op = "branch" ->
                 <<AL("teq", 0, rn, 0)>> \o
                 (IF c.detached
                  THEN <<b("NE", 8), b("AL", c.offset[i.else_bb] - (c.size + 8))>>
                  ELSE <<b("NE", c.offset[i.to] - (c.size + 4))>>)
          [] i.op = "jump" -> <<b("AL", distance)>>
          [] i.op = "call" ->
                 <<bl(distance)>> \o (IF i.to \in c.extern THEN Reload ELSE << >>)
          [] i.op = "address_of_func" ->
                 movw_movt(r8, CodeStart + c.offset[i.to])
                 \o <<AL("str", r8, rn, 0)>>
          [] i.op = "load_func" -> <<mov_r(r8, rn)>>
          [] i.op = "indirect" -> <<AL("blx", 0, 0, r8)>>
          [] i.op = "return" ->
                 <<mov_r(0, IF rn = -1 THEN 0 ELSE rn)>> \o movw_movt(r8, frame)
                 \o <<AL("add_r", sp, sp, r8), AL("ldm", 0, sp, Saved),
                      AL("bx", 0, 0, lr)>>

\* Arithmetic, comparisons and conversions.
Arithmetic(i, c) ==
    LET rd == i.dest
        rn == i.src0
        rm == i.src1
    IN  CASE i.op \in DOMAIN Direct -> <<AL(Direct[i.op], rd, rn, rm)>>
          [] i.op = "div" /\ c.hard -> <<AL("sdiv", rd, rn, rm)>>
          [] i.op = "mod" /\ c.hard ->
                 <<AL("sdiv", r8, rn, rm), AL("mul", r8, rm, r8),
                   AL("sub_r", rd, rn, r8)>>
          [] i.op \in {"div", "mod"} /\ ~c.hard -> SoftDiv(i.op, rd, rn, rm)
          [] i.op \in DOMAIN arm_get_cond ->
                 <<AL("cmp_r", 0, rn, rm), mov_i("AL", rd, 0),
                   mov_i(arm_get_cond[i.op], rd, 1)>>
          [] i.op = "negate" -> <<AL("rsb_i", rd, rn, 0)>>
          [] i.op = "bit_not" -> <<AL("mvn_r", rd, 0, rn)>>
          [] i.op = "log_not" ->
                 <<AL("cmp_i", 0, rn, 0), mov_i("NE", rd, 0), mov_i("EQ", rd, 1)>>
          [] i.op = "trunc" ->
                 CASE rm = 1 -> <<AL("and_i", rd, rn, ByteMax)>>
                   [] rm = 2 -> <<srl_amt("AL", 0, "lsl", rd, rn, 2 * Byte),
                                  srl_amt("AL", 0, "lsr", rd, rd, 2 * Byte)>>
                   [] OTHER -> <<mov_r(rd, rn)>>
          [] i.op = "sign_ext" ->
                 <<AL(IF SourceSize(i) = 2 THEN "sxth" ELSE "sxtb", rd, rn, 0)>>
          [] OTHER -> <<mov_r(rd, rn)>>             \* assign, cast

Words(i, c) ==
    CASE i.op \in AroundOps -> Around(i, c)
      [] i.op \in MovingOps -> Moving(i, c)
      [] i.op \in ControlOps -> Control(i, c)
      [] OTHER -> Arithmetic(i, c)

-----------------------------------------------------------------------------
(* What a word does to the machine m: its pc, its registers, its flags and *)
(* its memory.                                                             *)

NoFlags == [n |-> FALSE, z |-> FALSE, c |-> FALSE, v |-> FALSE]
Holds(f, cond) ==
    CASE cond = "EQ" -> f.z          [] cond = "NE" -> ~f.z
      [] cond = "LT" -> f.n # f.v    [] cond = "GE" -> f.n = f.v
      [] cond = "GT" -> ~f.z /\ f.n = f.v
      [] cond = "LE" -> f.z \/ f.n # f.v
      [] cond = "CS" -> f.c          [] cond = "CC" -> ~f.c
      [] OTHER -> TRUE
Compared(x, y) == [n |-> Signed(x - y) < 0, z |-> x = y,
                   c |-> Unsigned(x) >= Unsigned(y), v |-> x - y \notin Word]

\* Where register r of the list lies, the lowest at the address a.
Slot(list, a, r) == Signed(a + 4 * Cardinality({q \in list : q < r}))
Push(m, list) ==
    LET a == Signed(m.reg[sp] - 4 * Cardinality(list))
        saved == {Slot(list, a, r) : r \in list}
        at(s) == CHOOSE r \in list : Slot(list, a, r) = s
    IN  [m EXCEPT !.reg[sp] = a,
                  !.mem = [s \in saved |-> m.reg[at(s)]] @@ @]
Pop(m, list) ==
    LET a == m.reg[sp]
    IN  [m EXCEPT !.reg = [r \in Registers |->
                             IF r = sp THEN Signed(a + 4 * Cardinality(list))
                             ELSE IF r \in list THEN At(m.mem, Slot(list, a, r))
                             ELSE @[r]],
                  !.pc = IF pc \in list THEN At(m.mem, Slot(list, a, pc)) ELSE @]

Execute(m, w) ==
    LET n == m.reg[w.n]
        x == m.reg[w.x]
        next == [m EXCEPT !.pc = @ + 4]
        put(v) == [next EXCEPT !.reg[w.d] = Signed(v)]
        address == Signed(n + w.x)
        jump == [m EXCEPT !.pc = @ + 8 + 4 * w.x]
    IN  CASE w.op = "movw" -> put(w.x % Half)
          [] w.op = "movt" ->
                 put((m.reg[w.d] % Half) + Half * ((w.x \div Half) % Half))
          [] w.op = "mov_i" -> put(w.x)
          [] w.op = "mov_r" -> put(x)
          [] w.op = "mvn_r" -> put(-x - 1)
          [] w.op = "add_i" -> put(n + w.x)
          [] w.op = "add_r" -> put(n + x)
          [] w.op = "sub_r" -> put(n - x)
          [] w.op = "rsb_i" -> put(w.x - n)
          [] w.op = "mul" -> put(Meaning("mul", n, x))
          [] w.op = "sdiv" -> put(Meaning("div", n, x))
          [] w.op = "and_i" -> put(Meaning("bit_and", n, w.x))
          [] w.op = "and_r" -> put(Meaning("bit_and", n, x))
          [] w.op = "orr_r" -> put(Meaning("bit_or", n, x))
          [] w.op = "eor_r" -> put(Meaning("bit_xor", n, x))
          [] w.op = "lsl" -> put(n * 2^w.x)
          [] w.op = "lsr" -> put(Unsigned(n) \div 2^w.x)
          [] w.op = "asr" -> put(n \div 2^w.x)
          [] w.op = "lsrs" ->
                 [put(Unsigned(n) \div 2^w.x) EXCEPT !.flags.c = Bit(n, w.x - 1) = 1]
          [] w.op = "lsl_r" -> put(Meaning("lshift", n, x))
          [] w.op = "asr_r" -> put(Meaning("rshift", n, x))
          [] w.op = "cmp_i" -> [next EXCEPT !.flags = Compared(n, w.x)]
          [] w.op = "cmp_r" -> [next EXCEPT !.flags = Compared(n, x)]
          [] w.op = "teq" -> [next EXCEPT !.flags.z = n = w.x, !.flags.n = n < 0]
          [] w.op = "sxtb" -> put(SignExtend(n, Byte))
          [] w.op = "sxth" -> put(SignExtend(n, 2 * Byte))
          [] w.op = "ldr" -> put(At(m.mem, address))
          [] w.op = "ldrsh" -> put(SignExtend(At(m.mem, address), 2 * Byte))
          [] w.op = "ldrb" -> put(At(m.mem, address) % 2^Byte)
          [] w.op \in {"str", "strh", "strb"} ->
                 [next EXCEPT !.mem = Store(@, address, m.reg[w.d],
                      CASE w.op = "str" -> W [] w.op = "strh" -> 2 * Byte
                        [] OTHER -> Byte)]
          [] w.op = "stmdb" -> Push(next, w.x)
          [] w.op = "ldm" -> Pop(next, w.x)
          [] w.op = "b" -> jump
          [] w.op = "bl" -> [jump EXCEPT !.reg[lr] = m.pc + 4]
          [] w.op = "bx" -> [m EXCEPT !.pc = x]
          [] w.op = "blx" -> [m EXCEPT !.pc = x, !.reg[lr] = m.pc + 4]
          [] OTHER -> next                           \* svc

Step(m, w) == IF Holds(m.flags, w.cond) THEN Execute(m, w)
              ELSE [m EXCEPT !.pc = @ + 4]
=============================================================================
