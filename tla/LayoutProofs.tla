---------------------------- MODULE LayoutProofs ----------------------------
(***************************************************************************)
(* The layout of a program, for every width of a word and of an immediate, *)
(* every address and every program Init admits: what cfg_flatten() counts  *)
(* is what code_generate() writes.                                         *)
(*                                                                         *)
(* First, instruction by instruction, that update_elf_offset() returns the *)
(* length of what emit_ph2_ir() writes, on both machines; then that the    *)
(* two passes add the same lengths up.                                     *)
(***************************************************************************)
EXTENDS Layout, SequenceTheorems, TLAPS

-----------------------------------------------------------------------------
(* Lengths of code.                                                        *)

\* s is a list of words, of so many bytes.
IsCode(s, bytes) ==
    /\ s \in Seq({s[k] : k \in 1..Len(s)})
    /\ bytes = 4 * Len(s)

\* Code that follows code: the emit() calls of a sequence of instructions.
LEMMA Joined ==
    ASSUME NEW s, NEW t, NEW a \in Nat, NEW b \in Nat,
           IsCode(s, a), IsCode(t, b)
    PROVE  IsCode(s \o t, a + b)
<1> DEFINE S == {s[k] : k \in 1..Len(s)} \cup {t[k] : k \in 1..Len(t)}
           u == s \o t
           n == Len(s) + Len(t)
           U == {u[k] : k \in 1..Len(u)}
<1>1. s \in Seq(S) /\ t \in Seq(S)
  <2>1. /\ {s[k] : k \in 1..Len(s)} \subseteq S
        /\ {t[k] : k \in 1..Len(t)} \subseteq S
    OBVIOUS
  <2> QED BY <2>1, SeqMonotonic DEF IsCode
<1> HIDE DEF S
<1>2. u \in Seq(S) /\ Len(u) = n
  BY <1>1, ConcatProperties
<1>3. u \in Seq(U)
  <2>1. u = [k \in 1..Len(u) |-> u[k]]
    BY <1>2, LenProperties
  <2>2. \A k \in 1..Len(u) : u[k] \in U
    OBVIOUS
  <2> HIDE DEF u, U
  <2>3. u \in [1..Len(u) -> U]
    BY <2>1, <2>2
  <2> QED BY <1>2, <2>3, LenProperties
<1>4. Len(s) \in Nat /\ Len(t) \in Nat
  BY <1>1, LenProperties
<1>5. a + b = 4 * Len(u)
  BY <1>2, <1>4 DEF IsCode
<1> HIDE DEF u
<1> QED BY <1>3, <1>5 DEF IsCode, u

\* The empty code of a label.
LEMMA NoWords == IsCode(<< >>, 0)
BY EmptySeq DEF IsCode

LEMMA Tuple1 ==
    ASSUME NEW x1
    PROVE  IsCode(<<x1>>, 4)
<1> DEFINE s == <<x1>>
<1>1. s \in Seq({s[k] : k \in 1..1}) /\ Len(s) = 1
  OBVIOUS
<1> QED BY <1>1 DEF IsCode

LEMMA Tuple2 ==
    ASSUME NEW x1, NEW x2
    PROVE  IsCode(<<x1, x2>>, 8)
<1> DEFINE s == <<x1, x2>>
<1>1. s \in Seq({s[k] : k \in 1..2}) /\ Len(s) = 2
  OBVIOUS
<1> QED BY <1>1 DEF IsCode

LEMMA Tuple3 ==
    ASSUME NEW x1, NEW x2, NEW x3
    PROVE  IsCode(<<x1, x2, x3>>, 12)
<1> DEFINE s == <<x1, x2, x3>>
<1>1. s \in Seq({s[k] : k \in 1..3}) /\ Len(s) = 3
  OBVIOUS
<1> QED BY <1>1 DEF IsCode

LEMMA Tuple4 ==
    ASSUME NEW x1, NEW x2, NEW x3, NEW x4
    PROVE  IsCode(<<x1, x2, x3, x4>>, 16)
<1> DEFINE s == <<x1, x2, x3, x4>>
<1>1. s \in Seq({s[k] : k \in 1..4}) /\ Len(s) = 4
  OBVIOUS
<1> QED BY <1>1 DEF IsCode

LEMMA Tuple5 ==
    ASSUME NEW x1, NEW x2, NEW x3, NEW x4, NEW x5
    PROVE  IsCode(<<x1, x2, x3, x4, x5>>, 20)
<1> DEFINE s == <<x1, x2, x3, x4, x5>>
<1>1. s \in Seq({s[k] : k \in 1..5}) /\ Len(s) = 5
  OBVIOUS
<1> QED BY <1>1 DEF IsCode

LEMMA Tuple6 ==
    ASSUME NEW x1, NEW x2, NEW x3, NEW x4, NEW x5, NEW x6
    PROVE  IsCode(<<x1, x2, x3, x4, x5, x6>>, 24)
<1> DEFINE s == <<x1, x2, x3, x4, x5, x6>>
<1>1. s \in Seq({s[k] : k \in 1..6}) /\ Len(s) = 6
  OBVIOUS
<1> QED BY <1>1 DEF IsCode

LEMMA Tuple8 ==
    ASSUME NEW x1, NEW x2, NEW x3, NEW x4, NEW x5, NEW x6, NEW x7, NEW x8
    PROVE  IsCode(<<x1, x2, x3, x4, x5, x6, x7, x8>>, 32)
<1> DEFINE s == <<x1, x2, x3, x4, x5, x6, x7, x8>>
<1>1. s \in Seq({s[k] : k \in 1..8}) /\ Len(s) = 8
  OBVIOUS
<1> QED BY <1>1 DEF IsCode

LEMMA Tuple12 ==
    ASSUME NEW x1, NEW x2, NEW x3, NEW x4, NEW x5, NEW x6, NEW x7, NEW x8,
           NEW x9, NEW x10, NEW x11, NEW x12
    PROVE  IsCode(<<x1, x2, x3, x4, x5, x6, x7, x8, x9, x10, x11, x12>>, 48)
<1> DEFINE s == <<x1, x2, x3, x4, x5, x6, x7, x8, x9, x10, x11, x12>>
<1>1. s \in Seq({s[k] : k \in 1..12}) /\ Len(s) = 12
  OBVIOUS
<1> QED BY <1>1 DEF IsCode

LEMMA Tuple13 ==
    ASSUME NEW x1, NEW x2, NEW x3, NEW x4, NEW x5, NEW x6, NEW x7, NEW x8,
           NEW x9, NEW x10, NEW x11, NEW x12, NEW x13
    PROVE  IsCode(<<x1, x2, x3, x4, x5, x6, x7, x8, x9, x10, x11, x12, x13>>, 52)
<1> DEFINE s == <<x1, x2, x3, x4, x5, x6, x7, x8, x9, x10, x11, x12, x13>>
<1>1. s \in Seq({s[k] : k \in 1..13}) /\ Len(s) = 13
  OBVIOUS
<1> QED BY <1>1 DEF IsCode

LEMMA Tuple17 ==
    ASSUME NEW x1, NEW x2, NEW x3, NEW x4, NEW x5, NEW x6, NEW x7, NEW x8,
           NEW x9, NEW x10, NEW x11, NEW x12, NEW x13, NEW x14, NEW x15,
           NEW x16, NEW x17
    PROVE  IsCode(<<x1, x2, x3, x4, x5, x6, x7, x8, x9, x10, x11, x12, x13, x14,
              x15, x16, x17>>, 68)
<1> DEFINE s == <<x1, x2, x3, x4, x5, x6, x7, x8, x9, x10, x11, x12, x13, x14,
              x15, x16, x17>>
<1>1. s \in Seq({s[k] : k \in 1..17}) /\ Len(s) = 17
  OBVIOUS
<1> QED BY <1>1 DEF IsCode

LEMMA Tuple18 ==
    ASSUME NEW x1, NEW x2, NEW x3, NEW x4, NEW x5, NEW x6, NEW x7, NEW x8,
           NEW x9, NEW x10, NEW x11, NEW x12, NEW x13, NEW x14, NEW x15,
           NEW x16, NEW x17, NEW x18
    PROVE  IsCode(<<x1, x2, x3, x4, x5, x6, x7, x8, x9, x10, x11, x12, x13, x14,
              x15, x16, x17, x18>>, 72)
<1> DEFINE s == <<x1, x2, x3, x4, x5, x6, x7, x8, x9, x10, x11, x12, x13, x14,
              x15, x16, x17, x18>>
<1>1. s \in Seq({s[k] : k \in 1..18}) /\ Len(s) = 18
  OBVIOUS
<1> QED BY <1>1 DEF IsCode

LEMMA Tuple29 ==
    ASSUME NEW x1, NEW x2, NEW x3, NEW x4, NEW x5, NEW x6, NEW x7, NEW x8,
           NEW x9, NEW x10, NEW x11, NEW x12, NEW x13, NEW x14, NEW x15,
           NEW x16, NEW x17, NEW x18, NEW x19, NEW x20, NEW x21, NEW x22,
           NEW x23, NEW x24, NEW x25, NEW x26, NEW x27, NEW x28, NEW x29
    PROVE  IsCode(<<x1, x2, x3, x4, x5, x6, x7, x8, x9, x10, x11, x12, x13, x14,
              x15, x16, x17, x18, x19, x20, x21, x22, x23, x24, x25, x26,
              x27, x28, x29>>, 116)
<1> DEFINE s == <<x1, x2, x3, x4, x5, x6, x7, x8, x9, x10, x11, x12, x13, x14,
              x15, x16, x17, x18, x19, x20, x21, x22, x23, x24, x25, x26,
              x27, x28, x29>>
<1>1. s \in Seq({s[k] : k \in 1..29}) /\ Len(s) = 29
  OBVIOUS
<1> HIDE DEF s
<1>2. IsCode(s, 116)
  BY <1>1 DEF IsCode
<1> QED BY <1>2 DEF s

-----------------------------------------------------------------------------
(* ARM.                                                                    *)

\* __movw() and __movt() fill a register.
LEMMA ArmFill == ASSUME NEW d, NEW x PROVE IsCode(ARM!movw_movt(d, x), 8)
BY Tuple2 DEF ARM!movw_movt

\* What main's stack, a reload of r12 and a far offset take.
LEMMA ArmParts ==
    ASSUME NEW i, NEW c, NEW base, NEW ofs
    PROVE  /\ IsCode(ARM!SetGlobalStack(i, c), 28)
           /\ IsCode(ARM!Reload, 12)
           /\ IsCode(ARM!Far(base, ofs), 12)
           /\ IsCode(ARM!MainWrapper, 12)
<1>1. IsCode(ARM!SetGlobalStack(i, c), 28)
  BY ArmFill, Tuple1, Tuple2, Joined DEF ARM!SetGlobalStack
<1>2. IsCode(ARM!Reload, 12)
  BY ArmFill, Tuple1, Joined DEF ARM!Reload
<1>3. IsCode(ARM!Far(base, ofs), 12)
  BY ArmFill, Tuple1, Joined DEF ARM!Far
<1>4. IsCode(ARM!MainWrapper, 12)
  BY Tuple3 DEF ARM!MainWrapper
<1> QED BY <1>1, <1>2, <1>3, <1>4

\* The start, main's call, the exit, a prologue.
LEMMA ArmAround ==
    ASSUME NEW i, NEW c, i.op \in ARM!AroundOps
    PROVE  IsCode(ARM!Around(i, c), ARM!Size(i, c))
<1>1. CASE i.op = "label"
  BY <1>1, NoWords DEF ARM!Around, ARM!Size, ARM!arm_get_cond
<1>2. CASE i.op = "start"
  <2>1. CASE c.dynlink
    <3>1. IsCode(ARM!DynamicStart, 60)
      BY ArmFill, Tuple8, Tuple5, Joined DEF ARM!DynamicStart
    <3>2. IsCode(ARM!DynamicStart \o ARM!MainWrapper \o ARM!SetGlobalStack(i, c), 100)
      BY <3>1, ArmParts, Joined
    <3> QED BY <1>2, <2>1, <3>2 DEF ARM!Around, ARM!Size, ARM!arm_get_cond
  <2>2. CASE ~c.dynlink
    <3>1. IsCode(ARM!StaticStart(i, c), 112)
      BY ArmFill, ArmParts, Tuple2, Tuple17, Joined DEF ARM!StaticStart
    <3> QED BY <1>2, <2>2, <3>1 DEF ARM!Around, ARM!Size, ARM!arm_get_cond
  <2> QED BY <2>1, <2>2
<1>3. CASE i.op = "main"
  <2>1. CASE c.dynlink
    BY <1>3, <2>1, Tuple3
       DEF ARM!Around, ARM!Size, ARM!CallMain, ARM!arm_get_cond
  <2>2. CASE ~c.dynlink
    BY <1>3, <2>2, ArmFill, Tuple4, Joined
       DEF ARM!Around, ARM!Size, ARM!CallMain, ARM!arm_get_cond
  <2> QED BY <2>1, <2>2
<1>4. CASE i.op = "exit"
  <2>1. CASE c.dynlink
    BY <1>4, <2>1, ArmFill, Tuple2, Joined
       DEF ARM!Around, ARM!Size, ARM!Exit, ARM!arm_get_cond
  <2>2. CASE ~c.dynlink
    BY <1>4, <2>2, Tuple2 DEF ARM!Around, ARM!Size, ARM!Exit, ARM!arm_get_cond
  <2> QED BY <2>1, <2>2
<1>5. CASE i.op = "define"
  BY <1>5, ArmFill, ArmParts, Tuple1, Joined
     DEF ARM!Around, ARM!Size, ARM!arm_get_cond
<1> QED BY <1>1, <1>2, <1>3, <1>4, <1>5 DEF ARM!AroundOps

\* Constants, addresses and memory, near and far.
LEMMA ArmMoving ==
    ASSUME NEW i, NEW c, i.op \in ARM!MovingOps
    PROVE  IsCode(ARM!Moving(i, c), ARM!Size(i, c))
<1>1. CASE i.op = "load_constant"
  BY <1>1, ArmFill, Tuple1, Joined DEF ARM!Moving, ARM!Size, ARM!arm_get_cond
<1>2. CASE i.op \in {"address_of", "global_address_of"}
  BY <1>2, ArmFill, Tuple1, Joined DEF ARM!Moving, ARM!Size, ARM!arm_get_cond
<1>3. CASE i.op \in {"load", "global_load"}
  BY <1>3, ArmParts, Tuple1, Joined DEF ARM!Moving, ARM!Size, ARM!arm_get_cond
<1>4. CASE i.op \in {"store", "global_store"}
  BY <1>4, ArmParts, Tuple1, Joined DEF ARM!Moving, ARM!Size, ARM!arm_get_cond
<1>5. CASE i.op \in {"read", "write"}
  BY <1>5, Tuple1 DEF ARM!Moving, ARM!Size, ARM!arm_get_cond
<1>6. CASE i.op = "load_data_address"
  BY <1>6, ArmFill DEF ARM!Moving, ARM!Size, ARM!arm_get_cond
<1> QED BY <1>1, <1>2, <1>3, <1>4, <1>5, <1>6 DEF ARM!MovingOps

\* Branches, whether arm_lower() marked them or not, calls and returns.
LEMMA ArmControl ==
    ASSUME NEW i, NEW c, i.op \in ARM!ControlOps
    PROVE  IsCode(ARM!Control(i, c), ARM!Size(i, c))
<1>1. CASE i.op = "branch"
  BY <1>1, Tuple1, Tuple2, Joined
     DEF ARM!Control, ARM!Size, ARM!BranchSize, ARM!arm_get_cond
<1>2. CASE i.op = "call"
  <2>1. CASE i.to \in c.extern
    BY <1>2, <2>1, Tuple1, ArmParts, Joined
       DEF ARM!Control, ARM!Size, ARM!arm_get_cond
  <2>2. CASE i.to \notin c.extern
    BY <1>2, <2>2, Tuple1, NoWords, Joined
       DEF ARM!Control, ARM!Size, ARM!arm_get_cond
  <2> QED BY <2>1, <2>2
<1>3. CASE i.op = "address_of_func"
  BY <1>3, ArmFill, Tuple1, Joined DEF ARM!Control, ARM!Size, ARM!arm_get_cond
<1>4. CASE i.op = "return"
  BY <1>4, ArmFill, Tuple1, Tuple3, Joined
     DEF ARM!Control, ARM!Size, ARM!arm_get_cond
<1>5. CASE i.op \in {"jump", "load_func", "indirect"}
  BY <1>5, Tuple1 DEF ARM!Control, ARM!Size, ARM!arm_get_cond
<1> QED BY <1>1, <1>2, <1>3, <1>4, <1>5 DEF ARM!ControlOps

\* Arithmetic, comparisons and conversions, but not a move of a register to
\* itself.
LEMMA ArmArithmetic ==
    ASSUME NEW i, NEW c, ~SelfMove(i),
           i.op \notin ARM!AroundOps \cup ARM!MovingOps \cup ARM!ControlOps
    PROVE  IsCode(ARM!Arithmetic(i, c), ARM!Size(i, c))
<1>1. CASE i.op \in DOMAIN ARM!Direct
  BY <1>1, Tuple1 DEF ARM!Arithmetic, ARM!Size, ARM!Direct, ARM!arm_get_cond
<1>2. CASE i.op \in {"div", "mod"}
  <2>1. CASE c.hard
    BY <1>2, <2>1, Tuple1, Tuple3
       DEF ARM!Arithmetic, ARM!Size, ARM!Direct, ARM!arm_get_cond
  <2>2. CASE ~c.hard
    <3>1. IsCode(ARM!SoftDiv(i.op, i.dest, i.src0, i.src1), 116)
      BY Tuple29 DEF ARM!SoftDiv
    <3> QED BY <1>2, <2>2, <3>1
       DEF ARM!Arithmetic, ARM!Size, ARM!Direct, ARM!arm_get_cond
  <2> QED BY <2>1, <2>2
<1>3. CASE i.op \in DOMAIN ARM!arm_get_cond
  BY <1>3, Tuple3 DEF ARM!Arithmetic, ARM!Size, ARM!Direct, ARM!arm_get_cond
<1>4. CASE i.op = "log_not"
  BY <1>4, Tuple3 DEF ARM!Arithmetic, ARM!Size, ARM!Direct, ARM!arm_get_cond
<1>5. CASE i.op = "trunc"
  BY <1>5, Tuple1, Tuple2
     DEF ARM!Arithmetic, ARM!Size, ARM!Direct, ARM!arm_get_cond
<1>6. CASE i.op \in {"negate", "bit_not", "sign_ext"}
  BY <1>6, Tuple1 DEF ARM!Arithmetic, ARM!Size, ARM!Direct, ARM!arm_get_cond
<1>7. CASE i.op \notin DOMAIN ARM!Direct \cup DOMAIN ARM!arm_get_cond \cup
                       {"div", "mod", "log_not", "trunc", "negate", "bit_not",
                        "sign_ext"}
  <2>1. ARM!Size(i, c) = 4
    BY <1>7 DEF SelfMove, ARM!Size, ARM!AroundOps, ARM!MovingOps,
                ARM!ControlOps, ARM!Direct, ARM!arm_get_cond
  <2>2. \E x : ARM!Arithmetic(i, c) = <<x>>
    BY <1>7 DEF ARM!Arithmetic, ARM!Direct, ARM!arm_get_cond
  <2> QED BY <2>1, <2>2, Tuple1
<1> QED BY <1>1, <1>2, <1>3, <1>4, <1>5, <1>6, <1>7

\* update_elf_offset() of ARM counts what emit_ph2_ir() writes.
LEMMA ArmCounted ==
    ASSUME NEW i, NEW c, ~SelfMove(i)
    PROVE  IsCode(ARM!Words(i, c), ARM!Size(i, c))
<1>1. CASE i.op \in ARM!AroundOps
  BY <1>1, ArmAround
     DEF ARM!Words, ARM!AroundOps, ARM!MovingOps, ARM!ControlOps
<1>2. CASE i.op \in ARM!MovingOps
  BY <1>2, ArmMoving
     DEF ARM!Words, ARM!AroundOps, ARM!MovingOps, ARM!ControlOps
<1>3. CASE i.op \in ARM!ControlOps
  BY <1>3, ArmControl
     DEF ARM!Words, ARM!AroundOps, ARM!MovingOps, ARM!ControlOps
<1>4. CASE i.op \notin ARM!AroundOps \cup ARM!MovingOps \cup ARM!ControlOps
  BY <1>4, ArmArithmetic
     DEF ARM!Words, ARM!AroundOps, ARM!MovingOps, ARM!ControlOps
<1> QED BY <1>1, <1>2, <1>3, <1>4

-----------------------------------------------------------------------------
(* RISC-V.                                                                 *)

\* lui and addi fill a register.
LEMMA RiscvFill == ASSUME NEW d, NEW x PROVE IsCode(RISCV!lui_addi(d, x), 8)
BY Tuple2 DEF RISCV!lui_addi

\* A far offset.
LEMMA RiscvFar == ASSUME NEW base, NEW ofs PROVE IsCode(RISCV!Far(base, ofs), 12)
BY RiscvFill, Tuple1, Joined DEF RISCV!Far

\* The start, main's call, the exit, a prologue.
LEMMA RiscvAround ==
    ASSUME NEW i, NEW c, i.op \in RISCV!AroundOps
    PROVE  IsCode(RISCV!Around(i, c), RISCV!Size(i, c))
<1>1. CASE i.op = "label"
  BY <1>1, NoWords DEF RISCV!Around, RISCV!Size
<1>2. CASE i.op = "start"
  BY <1>2, RiscvFill, Tuple1, Tuple12, Joined DEF RISCV!Around, RISCV!Size
<1>3. CASE i.op = "main"
  BY <1>3, Tuple4 DEF RISCV!Around, RISCV!Size
<1>4. CASE i.op = "exit"
  BY <1>4, Tuple2 DEF RISCV!Around, RISCV!Size
<1>5. CASE i.op = "define"
  BY <1>5, RiscvFill, Tuple1, Joined DEF RISCV!Around, RISCV!Size
<1> QED BY <1>1, <1>2, <1>3, <1>4, <1>5 DEF RISCV!AroundOps

\* Constants, addresses and memory, near and far.
LEMMA RiscvMoving ==
    ASSUME NEW i, NEW c, i.op \in RISCV!MovingOps
    PROVE  IsCode(RISCV!Moving(i, c), RISCV!Size(i, c))
<1>1. CASE i.op = "load_constant"
  BY <1>1, RiscvFill, Tuple1 DEF RISCV!Moving, RISCV!Size
<1>2. CASE i.op \in {"address_of", "global_address_of"}
  BY <1>2, RiscvFill, Tuple1, Joined DEF RISCV!Moving, RISCV!Size
<1>3. CASE i.op \in {"load", "global_load"}
  BY <1>3, RiscvFar, Tuple1, Joined DEF RISCV!Moving, RISCV!Size
<1>4. CASE i.op \in {"store", "global_store"}
  BY <1>4, RiscvFar, Tuple1, Joined DEF RISCV!Moving, RISCV!Size
<1>5. CASE i.op \in {"read", "write"}
  BY <1>5, Tuple1 DEF RISCV!Moving, RISCV!Size
<1>6. CASE i.op = "load_data_address"
  BY <1>6, RiscvFill DEF RISCV!Moving, RISCV!Size
<1> QED BY <1>1, <1>2, <1>3, <1>4, <1>5, <1>6 DEF RISCV!MovingOps

\* Branches, calls and returns.
LEMMA RiscvControl ==
    ASSUME NEW i, NEW c, i.op \in RISCV!ControlOps
    PROVE  IsCode(RISCV!Control(i, c), RISCV!Size(i, c))
<1>1. CASE i.op = "branch"
  BY <1>1, RiscvFill, Tuple3, Joined DEF RISCV!Control, RISCV!Size
<1>2. CASE i.op = "address_of_func"
  BY <1>2, RiscvFill, Tuple1, Joined DEF RISCV!Control, RISCV!Size
<1>3. CASE i.op = "return"
  BY <1>3, RiscvFill, Tuple1, Tuple3, Joined DEF RISCV!Control, RISCV!Size
<1>4. CASE i.op \in {"jump", "call", "load_func", "indirect"}
  BY <1>4, Tuple1 DEF RISCV!Control, RISCV!Size
<1> QED BY <1>1, <1>2, <1>3, <1>4 DEF RISCV!ControlOps

\* Arithmetic, comparisons and conversions.
LEMMA RiscvArithmetic ==
    ASSUME NEW i, NEW c,
           i.op \notin RISCV!AroundOps \cup RISCV!MovingOps \cup RISCV!ControlOps
    PROVE  IsCode(RISCV!Arithmetic(i, c), RISCV!Size(i, c))
<1>1. CASE i.op \in DOMAIN RISCV!Direct
  BY <1>1, Tuple1 DEF RISCV!Arithmetic, RISCV!Size, RISCV!Direct
<1>2. CASE i.op = "mul"
  <2>1. CASE c.hard
    BY <1>2, <2>1, Tuple1 DEF RISCV!Arithmetic, RISCV!Size, RISCV!Direct
  <2>2. CASE ~c.hard
    <3>1. \A rd, rs1, rs2 : IsCode(RISCV!SoftMul(rd, rs1, rs2), 52)
      BY Tuple13 DEF RISCV!SoftMul
    <3> QED BY <1>2, <2>2, <3>1 DEF RISCV!Arithmetic, RISCV!Size, RISCV!Direct
  <2> QED BY <2>1, <2>2
<1>3. CASE i.op \in {"div", "mod"}
  <2>1. CASE c.hard
    BY <1>3, <2>1, Tuple1 DEF RISCV!Arithmetic, RISCV!Size, RISCV!Direct
  <2>2. CASE ~c.hard
    <3>1. \A b, divisor : IsCode(RISCV!Subtract(b, divisor), 24)
      BY Tuple6 DEF RISCV!Subtract
    <3>2. \A rd, rs1, rs2, interm, mask :
            IsCode(RISCV!SoftDiv(rd, rs1, rs2, interm, mask), 108)
      BY <3>1, Tuple18, Tuple3, Joined DEF RISCV!SoftDiv
    <3> QED BY <1>3, <2>2, <3>2 DEF RISCV!Arithmetic, RISCV!Size, RISCV!Direct
  <2> QED BY <2>1, <2>2
<1>4. CASE i.op \in {"eq", "neq", "geq", "leq", "gt", "log_not", "negate",
                     "bit_not"}
  BY <1>4, Tuple1, Tuple2, Tuple3
     DEF RISCV!Arithmetic, RISCV!Size, RISCV!Direct
<1>5. CASE i.op \in {"trunc", "sign_ext"}
  BY <1>5, Tuple1, Tuple2, Joined
     DEF RISCV!Arithmetic, RISCV!Size, RISCV!Direct
<1>6. CASE i.op \notin DOMAIN RISCV!Direct \cup
        {"mul", "div", "mod", "eq", "neq", "geq", "leq", "gt", "log_not",
         "negate", "bit_not", "trunc", "sign_ext"}
  <2>1. RISCV!Size(i, c) = 4
    BY <1>6 DEF RISCV!Size, RISCV!AroundOps, RISCV!MovingOps, RISCV!ControlOps
  <2>2. \E x : RISCV!Arithmetic(i, c) = <<x>>
    BY <1>6 DEF RISCV!Arithmetic
  <2> QED BY <2>1, <2>2, Tuple1
<1> QED BY <1>1, <1>2, <1>3, <1>4, <1>5, <1>6

\* update_elf_offset() of RISC-V counts what emit_ph2_ir() writes.
LEMMA RiscvCounted ==
    ASSUME NEW i, NEW c
    PROVE  IsCode(RISCV!Words(i, c), RISCV!Size(i, c))
<1>1. CASE i.op \in RISCV!AroundOps
  BY <1>1, RiscvAround
     DEF RISCV!Words, RISCV!AroundOps, RISCV!MovingOps, RISCV!ControlOps
<1>2. CASE i.op \in RISCV!MovingOps
  BY <1>2, RiscvMoving
     DEF RISCV!Words, RISCV!AroundOps, RISCV!MovingOps, RISCV!ControlOps
<1>3. CASE i.op \in RISCV!ControlOps
  BY <1>3, RiscvControl
     DEF RISCV!Words, RISCV!AroundOps, RISCV!MovingOps, RISCV!ControlOps
<1>4. CASE i.op \notin RISCV!AroundOps \cup RISCV!MovingOps \cup RISCV!ControlOps
  BY <1>4, RiscvArithmetic
     DEF RISCV!Words, RISCV!AroundOps, RISCV!MovingOps, RISCV!ControlOps
<1> QED BY <1>1, <1>2, <1>3, <1>4

\* Whatever the machine, the bytes counted are the bytes written.
LEMMA Counted ==
    ASSUME NEW i, NEW c, ~SelfMove(i)
    PROVE  IsCode(Words(i, c), Size(i, c))
BY ArmCounted, RiscvCounted DEF Words, Size

-----------------------------------------------------------------------------
(* The two passes.                                                         *)

\* The bytes counted for the k-th instruction: what it depends on is settled
\* once arm_lower() has marked the branches.
Bytes(k) ==
    Size(flat[k], [size |-> 0, offset |-> << >>, extern |-> {Ext},
                   detached |-> k \in detached, hard |-> TRUE,
                   dynlink |-> mode = "dynlink"])
\* The place behind the first n instructions.
Behind(n) == IF n = 0 THEN 0 ELSE place[n] + Bytes(n)

\* cfg_flatten() has added up the bytes of the instructions it has passed.
Placed ==
    /\ place \in Seq(Nat) /\ elf_offset \in Nat
    /\ \A k \in 1..Len(place) : place[k] = Behind(k - 1)
    /\ elf_offset = Behind(Len(place))
\* code_generate() has written as many for those it has passed.
Written ==
    /\ emitted \in Seq(Nat) /\ IsCode(code, 4 * Len(code))
    /\ Len(emitted) <= Len(place)
    /\ \A k \in 1..Len(emitted) : emitted[k] = place[k]
    /\ 4 * Len(code) = Behind(Len(emitted))
\* Each pass begins from nothing and goes through all of the code.
Stages ==
    /\ stage \in {"lower", "flatten", "emit", "run"}
    /\ stage = "lower" => place = << >>
    /\ stage \in {"lower", "flatten"} => emitted = << >>
    /\ stage \in {"emit", "run"} => Len(place) = Len(flat)
    /\ stage = "run" => Len(emitted) = Len(flat)
Inv ==
    /\ \A k \in 1..Len(flat) : ~SelfMove(flat[k])
    /\ Placed /\ Written /\ Stages

\* The size of an instruction depends neither on what has been written nor
\* on the places of the blocks, which cfg_flatten() does not know yet.
LEMMA SizeFixed == \A k : Size(flat[k], Options(k)) = Bytes(k)
<1> TAKE k
<1> DEFINE c == [size |-> 0, offset |-> << >>, extern |-> {Ext},
                 detached |-> k \in detached, hard |-> TRUE,
                 dynlink |-> mode = "dynlink"]
<1>1. /\ Options(k).extern = c.extern /\ Options(k).detached = c.detached
      /\ Options(k).hard = c.hard /\ Options(k).dynlink = c.dynlink
  BY DEF Options
<1> HIDE DEF c
<1>2. ARM!Size(flat[k], Options(k)) = ARM!Size(flat[k], c)
  BY <1>1 DEF ARM!Size, ARM!BranchSize
<1>3. RISCV!Size(flat[k], Options(k)) = RISCV!Size(flat[k], c)
  BY <1>1 DEF RISCV!Size
<1> QED BY <1>2, <1>3 DEF Size, Bytes, c

\* A size is a number, also where nothing is known of the instruction.
LEMMA SizeNat == \A k : Bytes(k) \in Nat
<1> TAKE k
<1> SUFFICES ASSUME NEW c PROVE Size(flat[k], c) \in Nat
  BY DEF Bytes
<1>1. ARM!Size(flat[k], c) \in Nat
  BY DEF ARM!Size, ARM!BranchSize, ARM!arm_get_cond
<1>2. RISCV!Size(flat[k], c) \in Nat
  BY DEF RISCV!Size
<1> QED BY <1>1, <1>2 DEF Size

LEMMA InitInv == Init => Inv
<1> SUFFICES ASSUME Init PROVE Inv
  OBVIOUS
<1>1. place = << >> /\ emitted = << >> /\ code = << >> /\ elf_offset = 0
  BY DEF Init
<1>2. Placed
  BY <1>1, EmptySeq DEF Placed, Behind
<1>3. Written
  BY <1>1, EmptySeq, NoWords DEF Written, Behind
<1>4. Stages
  BY <1>1 DEF Init, Stages
<1>5. \A k \in 1..Len(flat) : ~SelfMove(flat[k])
  BY DEF Init
<1> QED BY <1>2, <1>3, <1>4, <1>5 DEF Inv

\* cfg_flatten() passes an instruction: its place is where the last one ends.
LEMMA FlattenInv == Inv /\ Flatten => Inv'
<1> SUFFICES ASSUME Inv, Flatten PROVE Inv'
  OBVIOUS
<1> DEFINE n == Len(place)
<1>1. n \in Nat /\ place \in Seq(Nat) /\ elf_offset \in Nat
  BY LenProperties DEF Inv, Placed
<1>2. /\ UNCHANGED <<mode, flat, stage, detached, code, emitted>>
      /\ stage = "flatten" /\ emitted = << >>
      /\ place' = Append(place, elf_offset)
      /\ elf_offset' = elf_offset + Bytes(n + 1)
  BY SizeFixed DEF Flatten, Inv, Stages
<1>3. \A k : Bytes(k)' = Bytes(k)
  BY <1>2 DEF Bytes, Size
<1>4. /\ place' \in Seq(Nat) /\ Len(place') = n + 1
      /\ \A k \in 1..n : place'[k] = place[k]
      /\ place'[n + 1] = elf_offset
  BY <1>1, <1>2, AppendProperties
<1>5. \A k \in 0..n : Behind(k)' = Behind(k)
  BY <1>1, <1>3, <1>4 DEF Behind
<1>6. Placed'
  <2>1. elf_offset' \in Nat
    BY <1>1, <1>2, SizeNat
  <2>2. ASSUME NEW k \in 1..(n + 1) PROVE place'[k] = Behind(k - 1)'
    <3>1. k - 1 \in 0..n
      BY <1>1
    <3>2. CASE k \in 1..n
      BY <1>4, <1>5, <3>1, <3>2 DEF Inv, Placed
    <3>3. CASE k = n + 1
      BY <1>1, <1>4, <1>5, <3>3 DEF Inv, Placed
    <3> QED BY <1>1, <3>2, <3>3
  <2>3. elf_offset' = Behind(Len(place))'
    BY <1>1, <1>2, <1>3, <1>4 DEF Behind
  <2> HIDE DEF n
  <2> QED BY <1>4, <2>1, <2>2, <2>3 DEF Placed
<1>7. Written'
  BY <1>1, <1>2, <1>4, <1>5 DEF Inv, Written
<1>8. Stages'
  BY <1>2 DEF Inv, Stages
<1> QED BY <1>2, <1>6, <1>7, <1>8 DEF Inv

\* code_generate() writes an instruction, as long as it was counted.
LEMMA EmitInv == Inv /\ Emit => Inv'
<1> SUFFICES ASSUME Inv, Emit PROVE Inv'
  OBVIOUS
<1> DEFINE n == Len(emitted)
           words == Words(flat[n + 1], Options(n + 1))
<1>1. n \in Nat /\ emitted \in Seq(Nat) /\ place \in Seq(Nat) /\ Len(place) \in Nat
  BY LenProperties DEF Inv, Placed, Written
<1>2. /\ UNCHANGED <<mode, flat, stage, detached, elf_offset, place>>
      /\ stage = "emit" /\ n + 1 <= Len(flat) /\ Len(flat) = Len(place)
      /\ emitted' = Append(emitted, 4 * Len(code))
      /\ code' = code \o words
  BY DEF Emit, Inv, Stages
<1>3. \A k : Bytes(k)' = Bytes(k) /\ Behind(k)' = Behind(k)
  BY <1>2 DEF Bytes, Size, Behind
<1>4. IsCode(words, Bytes(n + 1))
  <2>1. ~SelfMove(flat[n + 1])
    BY <1>1, <1>2 DEF Inv
  <2> QED BY <2>1, Counted, SizeFixed
<1>5. /\ IsCode(code', 4 * Len(code'))
      /\ 4 * Len(code') = 4 * Len(code) + Bytes(n + 1)
  <2>1. Len(code) \in Nat /\ IsCode(code, 4 * Len(code))
    BY LenProperties DEF Inv, Written, IsCode
  <2>2. IsCode(code', 4 * Len(code) + Bytes(n + 1))
    BY <1>2, <1>4, <2>1, SizeNat, Joined
  <2> QED BY <2>2 DEF IsCode
<1>6. place[n + 1] = 4 * Len(code)
  BY <1>1, <1>2 DEF Inv, Placed, Written
<1>7. /\ emitted' \in Seq(Nat) /\ Len(emitted') = n + 1
      /\ \A k \in 1..n : emitted'[k] = emitted[k]
      /\ emitted'[n + 1] = 4 * Len(code)
  <2>1. 4 * Len(code) \in Nat
    BY LenProperties DEF Inv, Written, IsCode
  <2> QED BY <1>1, <1>2, <2>1, AppendProperties
<1>8. Written'
  <2>1. ASSUME NEW k \in 1..(n + 1) PROVE emitted'[k] = place'[k]
    <3>1. CASE k \in 1..n
      BY <1>2, <1>7, <3>1 DEF Inv, Written
    <3>2. CASE k = n + 1
      BY <1>2, <1>6, <1>7, <3>2
    <3> QED BY <1>1, <3>1, <3>2
  <2>2. 4 * Len(code') = Behind(Len(emitted))'
    BY <1>1, <1>2, <1>3, <1>5, <1>6, <1>7 DEF Behind
  <2>3. n + 1 <= Len(place')
    BY <1>2
  <2> HIDE DEF n
  <2> QED BY <1>5, <1>7, <2>1, <2>2, <2>3 DEF Written
<1>9. Placed' /\ Stages'
  BY <1>2, <1>3 DEF Inv, Placed, Stages
<1> QED BY <1>2, <1>8, <1>9 DEF Inv

\* What the other steps leave alone is all the invariant speaks of, but for
\* the marks of arm_lower(), which come before anything is counted, and the
\* stage.
LEMMA NextInv == Inv /\ [Next]_vars => Inv'
<1> SUFFICES ASSUME Inv, [Next]_vars PROVE Inv'
  OBVIOUS
<1> DEFINE Same == UNCHANGED <<mode, flat, detached, elf_offset, place, code, emitted>>
<1>1. ASSUME Same, Stages' PROVE Inv'
  <2>1. \A k : Behind(k)' = Behind(k)
    BY <1>1 DEF Behind, Bytes, Size
  <2> QED BY <1>1, <2>1 DEF Inv, Placed, Written
<1>2. CASE Lower
  <2>1. place = << >> /\ emitted = << >> /\ Len(place) = 0 /\ Len(emitted) = 0
    BY <1>2, EmptySeq DEF Inv, Stages, Lower
  <2>2. /\ UNCHANGED <<flat, elf_offset, place, code, emitted>>
        /\ stage' = "flatten"
    BY <1>2 DEF Lower
  <2>3. Behind(0)' = Behind(0)
    BY DEF Behind
  <2>4. Placed' /\ Written'
    BY <2>1, <2>2, <2>3 DEF Inv, Placed, Written
  <2>5. Stages'
    BY <2>1, <2>2 DEF Stages
  <2> QED BY <2>2, <2>4, <2>5 DEF Inv
<1>3. CASE Flatten
  BY <1>3, FlattenInv
<1>4. CASE Flattened
  <2>1. Same /\ Stages'
    BY <1>4 DEF Inv, Stages, Flattened, compiled
  <2> QED BY <1>1, <2>1
<1>5. CASE Emit
  BY <1>5, EmitInv
<1>6. CASE Boot
  <2>1. Same /\ Stages'
    BY <1>6 DEF Inv, Stages, Boot, compiled
  <2> QED BY <1>1, <2>1
<1>7. CASE Run
  <2>1. Same /\ Stages'
    BY <1>7 DEF Inv, Stages, Run, compiled
  <2> QED BY <1>1, <2>1
<1>8. CASE Library
  <2>1. Same /\ Stages'
    BY <1>8 DEF Inv, Stages, Library, compiled
  <2> QED BY <1>1, <2>1
<1>9. CASE UNCHANGED vars
  <2>1. Same /\ Stages'
    BY <1>9 DEF Inv, Stages, vars
  <2> QED BY <1>1, <2>1
<1>10. CASE Stop
  BY <1>9, <1>10 DEF Stop
<1> QED
  BY <1>2, <1>3, <1>4, <1>5, <1>6, <1>7, <1>8, <1>9, <1>10 DEF Next

\* Every instruction lies where cfg_flatten() put it, and the code ends where
\* cfg_flatten() said, whatever the program and on either machine: the
\* distances of the branches and the addresses of the data are counted right.
THEOREM Layout_PlacedAsCounted == Spec => []PlacedAsCounted
<1>1. Inv => PlacedAsCounted
  <2> SUFFICES ASSUME Inv PROVE PlacedAsCounted
    OBVIOUS
  <2>1. DOMAIN emitted = 1..Len(emitted)
    BY LenProperties DEF Inv, Written
  <2>2. stage = "run" => Len(emitted) = Len(place)
    BY DEF Inv, Stages
  <2> QED BY <2>1, <2>2 DEF Inv, Placed, Written, PlacedAsCounted
<1>2. Spec => []Inv
  BY InitInv, NextInv, PTL DEF Spec
<1> QED BY <1>1, <1>2, PTL
=============================================================================
