------------------------------- MODULE Layout ------------------------------
(***************************************************************************)
(* From the phase-2 code of a whole program to the machine code:           *)
(* arch_lower() marks the branches, cfg_flatten() gives every block its    *)
(* place by counting, code_generate() writes the words; then the words are *)
(* executed.  The program has main, with any control flow of N blocks, and *)
(* a function f that is called directly, through a pointer or not at all;  *)
(* on ARM also with dynamic linking, where a function of the C library is  *)
(* called through its PLT entry.                                           *)
(***************************************************************************)
EXTENDS FlowGraph, Word, SequencesExt

CONSTANTS
    ImmBits, CodeStart, DataStart,
    Plt,        \* address of the PLT entry of the library's function
    Libc,       \* where __libc_start_main continues
    Top,        \* the stack pointer at the start
    Stacks,     \* stack_size of a function
    Bodies,     \* what a block of main does, see Body
    MaxBranches,\* branches of main if it calls something
    Includes    \* "apart": branches on ARM with neither target next

ASSUME AddressAssumption ==
    /\ ImmBits \in 2..(W - 1)
    /\ DataStart \in Nat /\ CodeStart \in Nat /\ Plt \in Nat /\ Libc \in Nat
    /\ Top % 8 = 0
    /\ Stacks \subseteq Nat /\ MaxBranches \in Nat

VARIABLES
    mode,       \* "riscv", "arm", or "dynlink" on ARM
    flat,       \* PH2_IR_FLATTEN, with labels
    stage,      \* "lower", "flatten", "emit", "run"
    detached,   \* branches with is_branch_detached
    elf_offset, \* bytes counted
    place,      \* elf_offset before each instruction
    offset,     \* bb->elf_offset
    code,       \* elf_code
    emitted,    \* elf_code->size before each instruction
    m,          \* the machine
    frames      \* ghost: what the calls under way come back to and restore

vars == <<mode, flat, stage, detached, elf_offset, place, offset, code,
          emitted, m, frames>>
compiled == <<mode, flat, detached, elf_offset, place, offset, code, emitted>>

ARM == INSTANCE Arm
RISCV == INSTANCE Riscv

Size(i, c) == IF mode = "riscv" THEN RISCV!Size(i, c) ELSE ARM!Size(i, c)
Words(i, c) == IF mode = "riscv" THEN RISCV!Words(i, c) ELSE ARM!Words(i, c)
Step(machine, w) ==
    IF mode = "riscv" THEN RISCV!Step(machine, w) ELSE ARM!Step(machine, w)

-----------------------------------------------------------------------------
(* Programs.  A graph gives each block of main <<next>> or <<then_, else_>>; *)
(* blocks are called b and their number.                                   *)

Insn(op, dest, src0, src1, to, else_bb) ==
    [op |-> op, dest |-> dest, src0 |-> src0, src1 |-> src1, to |-> to,
     else_bb |-> else_bb]
Plain(op, dest, src0, src1) == Insn(op, dest, src0, src1, 0, 0)
Label(bb) == Insn("label", 0, 0, 0, bb, 0)

\* Blocks of f, of the library's function and of the globals.
InF == N + 1
Ext == N + 2
Globals == N + 3

Inner == (Blocks \ {entry, exit})
\* Blocks are numbered by their first predecessor.
Ordered(out) ==
    LET by(b) == Min({p \in Blocks : b \in out[p]} \cup {N})
    IN  \A b \in 2..(N - 2) : by(b) <= by(b + 1)
Graphs ==
    {g \in [Blocks \ {exit} -> {<<b>> : b \in Inner \cup {exit}} \cup
              {s \in Inner \X Inner : s[1] # s[2]}] :
       LET out == [b \in Blocks |-> IF b = exit THEN {} ELSE Range(g[b])]
       IN  /\ Ordered(out)
           /\ Reach(out, {entry}, {}) = Blocks
           /\ Reach(Transpose(out), {exit}, {}) = Blocks}

\* build_rpo(): next, then_ and else_ are visited in this order.
Rpo(g) ==
    LET T[k \in 0..(2 * N)] ==
          IF k = 0 THEN [stack |-> <<entry>>, seen |-> {entry}, left |-> << >>]
          ELSE LET t == T[k - 1]
                   top == Last(t.stack)
                   new == IF top = exit THEN << >>
                          ELSE SelectSeq(g[top], LAMBDA b : b \notin t.seen)
               IN  IF t.stack = << >> THEN t
                   ELSE IF new = << >>
                   THEN [t EXCEPT !.stack = Front(t.stack),
                                  !.left = <<top>> \o t.left]
                   ELSE [t EXCEPT !.stack = Append(t.stack, new[1]),
                                  !.seen = @ \cup {new[1]}]
    IN  T[2 * N].left

\* A register that every function of ARM has to keep gets a value.
Constant(v) == <<Plain("load_constant", 5, v, 0)>>

\* r1 points to a place on the stack that gets the address of f.
Body(kind) ==
    CASE kind = "call" -> <<Insn("call", 0, 0, 0, InF, 0)>>
      [] kind = "indirect" ->
             <<Plain("address_of", 1, 8, 0), Insn("address_of_func", 0, 1, 0, InF, 0),
               Plain("load", 1, 8, 0), Plain("load_func", 0, 1, 0),
               Insn("indirect", 0, 0, 0, InF, 0)>>
      [] kind = "extern" -> <<Insn("call", 0, 0, 0, Ext, 0)>>
      [] OTHER -> << >>

\* reg_alloc() ends a block with a branch, with a jump unless what follows is
\* the next block of the order, and with a return before the exit.
End(g, order, j, stack) ==
    LET bb == order[j]
    IN  IF bb = exit THEN << >>
        ELSE IF Len(g[bb]) = 2
        THEN <<Insn("branch", 0, 2, 0, g[bb][1], g[bb][2])>>
        ELSE IF g[bb] = <<exit>> THEN <<Plain("return", 0, -1, stack)>>
        ELSE IF j < Len(order) /\ g[bb] = <<order[j + 1]>> THEN << >>
        ELSE <<Insn("jump", 0, 0, 0, g[bb][1], 0)>>

Main(g, special, kind, stack) ==
    LET order == Rpo(g)
        block(j) ==
          <<Label(order[j])>> \o (IF j = 1 THEN <<Plain("define", 0, stack, 0)>>
                                  ELSE << >>)
          \o Body(IF order[j] = special THEN kind ELSE "none")
          \o End(g, order, j, stack)
    IN  FoldLeft(LAMBDA s, j : s \o block(j), << >>, [j \in 1..Len(order) |-> j])

F(stack) == <<Label(InF), Plain("define", 0, stack, 0)>> \o Constant(-2 * 2^ImmBits)
            \o <<Plain("return", 0, -1, stack)>>

\* The start, the globals, main's call, then the functions, in either order.
Program(g, special, kind, stack) ==
    <<Insn("start", 0, stack, 0, Globals, 0), Label(Globals)>>
    \o Constant(2^ImmBits) \o
    <<Insn("main", 0, stack, 0, entry, 0), Plain("exit", 0, stack, 0)>>
    \o (IF RISCV!Short(stack + 4) THEN F(stack) \o Main(g, special, kind, stack)
        ELSE Main(g, special, kind, stack) \o F(stack))

-----------------------------------------------------------------------------
(* The compiler.                                                           *)

\* The block behind the one that k belongs to: bb->rpo_next.
RpoNext(code0, k) ==
    LET later == {j \in (k + 1)..Len(code0) : code0[j].op = "label"}
    IN  IF later = {} THEN 0 ELSE code0[Min(later)].to
IsDetached(code0, k) ==
    code0[k].op = "branch" /\ code0[k].else_bb # RpoNext(code0, k)
Apart(code0, k) == IsDetached(code0, k) /\ code0[k].to # RpoNext(code0, k)

\* peephole() leaves no move of a register to itself: update_elf_offset() of
\* ARM does not count it, emit_ph2_ir() writes it.
SelfMove(i) == i.op = "assign" /\ i.dest = i.src0

Init ==
    /\ mode \in {"riscv", "arm", "dynlink"}
    /\ \E g \in Graphs, special \in Blocks \ {exit}, kind \in Bodies,
          stack \in Stacks :
         /\ kind = "extern" => mode = "dynlink"
         /\ kind = "none" => special = entry
         /\ kind # "none" => Cardinality({b \in DOMAIN g : Len(g[b]) = 2}) <= MaxBranches
         /\ flat = Program(g, special, kind, stack)
    /\ \A k \in 1..Len(flat) : ~SelfMove(flat[k])
    /\ mode # "riscv" /\ "apart" \notin Includes =>
         \A k \in DOMAIN flat : ~Apart(flat, k)
    /\ stage = "lower" /\ detached = {} /\ elf_offset = 0
    /\ place = << >> /\ code = << >> /\ emitted = << >> /\ frames = << >>
    /\ offset = [bb \in 1..(N + 3) |-> IF bb = Ext THEN Plt - CodeStart ELSE 0]
    /\ m = [pc |-> 0, reg |-> << >>, flags |-> ARM!NoFlags, mem |-> << >>]

Options(k) ==
    [size |-> 4 * Len(code), offset |-> offset, extern |-> {Ext},
     detached |-> k \in detached, hard |-> TRUE, dynlink |-> mode = "dynlink"]

\* arm_lower(), riscv_lower()
Lower ==
    /\ stage = "lower"
    /\ detached' = {k \in DOMAIN flat : IsDetached(flat, k)}
    /\ stage' = "flatten"
    /\ UNCHANGED <<mode, flat, elf_offset, place, offset, code, emitted, m, frames>>

\* cfg_flatten()
Flatten ==
    LET k == Len(place) + 1
    IN  /\ stage = "flatten" /\ k <= Len(flat)
        /\ offset' = IF flat[k].op = "label"
                     THEN [offset EXCEPT ![flat[k].to] = elf_offset] ELSE offset
        /\ place' = Append(place, elf_offset)
        /\ elf_offset' = elf_offset + Size(flat[k], Options(k))
        /\ UNCHANGED <<mode, flat, stage, detached, code, emitted, m, frames>>
Flattened ==
    /\ stage = "flatten" /\ Len(place) = Len(flat)
    /\ stage' = "emit"
    /\ UNCHANGED <<compiled, m, frames>>

\* code_generate()
Emit ==
    LET k == Len(emitted) + 1
    IN  /\ stage = "emit" /\ k <= Len(flat)
        /\ emitted' = Append(emitted, 4 * Len(code))
        /\ code' = code \o Words(flat[k], Options(k))
        /\ UNCHANGED <<mode, flat, stage, detached, elf_offset, place, offset,
                       m, frames>>

-----------------------------------------------------------------------------
(* The run.                                                                *)

sp == IF mode = "riscv" THEN 2 ELSE 13
gp == IF mode = "riscv" THEN 3 ELSE 12
Condition == IF mode = "riscv" THEN 12 ELSE 2
\* Registers a function of ARM keeps for its caller, but not lr.
Kept == IF mode = "riscv" THEN {sp} ELSE 4..11 \cup {sp}

\* The system enters at the start of the code; __libc_start_main calls the
\* wrapper of main.
Boot ==
    /\ stage = "emit" /\ Len(emitted) = Len(flat)
    /\ m' = [m EXCEPT
               !.pc = CodeStart + (IF mode = "dynlink" THEN 60 ELSE 0),
               !.reg = [r \in IF mode = "riscv" THEN RISCV!Registers
                              ELSE ARM!Registers |->
                          CASE r = sp -> Top [] r = 14 /\ mode = "dynlink" -> Libc
                            [] OTHER -> 0]]
    /\ stage' = "run"
    /\ UNCHANGED <<compiled, frames>>

\* The instruction a place belongs to, or 0.
InsnAt(pc) ==
    LET S == {k \in DOMAIN emitted :
                /\ CodeStart + emitted[k] <= pc
                /\ pc < CodeStart + (IF k = Len(flat) THEN 4 * Len(code)
                                     ELSE emitted[k + 1])}
    IN  IF S = {} THEN 0 ELSE Max(S)
Starts(k) == m.pc = CodeStart + emitted[k]

\* Where the run is; while the library's function runs, at its call, and
\* behind the end at the exit.
At0 ==
    CASE stage # "run" -> 1
      [] m.pc = Plt -> InsnAt(m.reg[14] - 4)
      [] m.pc = Libc -> CHOOSE k \in DOMAIN flat : flat[k].op = "exit"
      [] OTHER -> InsnAt(m.pc)

Frame(k) == [at |-> k, kept |-> [r \in Kept |-> m.reg[r]]]

ABS == INSTANCE Flow WITH
         at <- At0,
         frames <- [k \in DOMAIN frames |-> frames[k].at],
         cond <- IF stage = "run" THEN m.reg[Condition] ELSE 0

\* The ghost: entering a function is noted by its caller, leaving it forgets.
Note(old, new) ==
    IF flat[old].op \in ABS!Calls /\ flat[old].to # Ext /\ new # old
    THEN frames' = <<Frame(ABS!Next0(old + 1))>> \o frames
    ELSE IF flat[old].op = "return" /\ new # old THEN frames' = Tail(frames)
    ELSE UNCHANGED frames

\* One word; the value a branch tests is any.
Run ==
    /\ stage = "run" /\ InsnAt(m.pc) # 0
    /\ LET k == InsnAt(m.pc)
           w == code[(m.pc - CodeStart) \div 4 + 1]
       IN  /\ w.op \notin {"svc", "ecall"}
           /\ \E v \in IF flat[k].op = "branch" /\ Starts(k) THEN {0, 7}
                       ELSE {m.reg[Condition]} :
                m' = Step([m EXCEPT !.reg[Condition] = v], w)
           /\ Note(k, IF m'.pc = Plt THEN k ELSE InsnAt(m'.pc))
    /\ UNCHANGED <<compiled, stage>>

\* The library's function changes what AAPCS lets it change.
Library ==
    /\ stage = "run" /\ m.pc = Plt
    /\ m' = [m EXCEPT !.pc = m.reg[14],
                      !.reg = [r \in DOMAIN @ |-> IF r \in {0, 1, 2, 3, 12, 14}
                                                  THEN -1 ELSE @[r]]]
    /\ UNCHANGED <<compiled, stage, frames>>

\* The system call that ends the process, or the return to __libc_start_main.
Finished ==
    /\ stage = "run" /\ flat[At0].op = "exit"
    /\ m.pc # Libc => code[(m.pc - CodeStart) \div 4 + 1].op \in {"svc", "ecall"}
Stop == Finished /\ UNCHANGED vars

Next == Lower \/ Flatten \/ Flattened \/ Emit \/ Boot \/ Run \/ Library \/ Stop

Spec == Init /\ [][Next]_vars

-----------------------------------------------------------------------------
(* Properties.                                                             *)

\* update_elf_offset() and cfg_flatten() count exactly the bytes that
\* emit_ph2_ir() and code_generate() write: every instruction lies where its
\* block was promised, and .rodata begins where the code ends.
PlacedAsCounted ==
    /\ \A k \in DOMAIN emitted : emitted[k] = place[k]
    /\ stage = "run" => 4 * Len(code) = elf_offset

\* The words go through the instructions in the order of the control flow:
\* the distances of branches, jumps and calls lead to the blocks that are
\* meant, whichever way they go and however the blocks are ordered.
FollowsFlow == ABS!Spec

\* Wherever an instruction of a function or main's call begins, the register
\* of the globals holds their address, also after code of the C library that
\* does not keep it; and on ARM the stack is aligned to eight bytes.
GlobalsFound ==
    stage = "run" /\ InsnAt(m.pc) # 0 =>
      LET k == InsnAt(m.pc)
          first == CHOOSE j \in DOMAIN flat : flat[j].op = "start"
          stack == flat[first].src0
          base == CASE mode = "riscv" -> Top - stack
                    [] mode = "arm" -> Top - ARM!ALIGN_UP(stack)
                    [] OTHER -> Top - 36 - ARM!ALIGN_UP(stack) - 4
      IN  Starts(k) /\ flat[k].op \notin {"start", "define", "exit"} =>
            /\ m.reg[gp] = base
            /\ mode # "riscv" => m.reg[sp] % 8 = 0

\* A function returns with the stack pointer of its caller and, on ARM, the
\* registers r4 to r11 the caller had.
ReturnsRestore ==
    [][stage = "run" /\ Len(frames') < Len(frames) =>
         \A r \in Kept : m'.reg[r] = Head(frames).kept[r]]_vars
=============================================================================
