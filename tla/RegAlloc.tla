------------------------------ MODULE RegAlloc ------------------------------
(***************************************************************************)
(* The register allocator of shecc (src/src/reg-alloc.c, reg_alloc): one   *)
(* pass over the basic blocks of a function in layout order, rewriting     *)
(* every SSA instruction into phase-2 instructions on REG_CNT physical     *)
(* registers, with spills to and reloads from the stack frame.             *)
(*                                                                         *)
(* The model runs the allocator and, in lock step, the code it emits.      *)
(* `st' holds both: the allocator's tables (REGS, phys_reg, the            *)
(* space_is_allocated flags) and the machine the emitted code acts on (the *)
(* registers and the memory slots).  Values are symbolic: a register or a  *)
(* slot that contains v holds the CURRENT value of variable v; when v gets *)
(* a new value every other copy of it becomes Junk.  An instruction is     *)
(* emitted right when each register it reads contains its operand.         *)
(*                                                                         *)
(* The instruction stream is not fixed: an action takes its operands from  *)
(* the variables an SSA program could use at that point.  The results of   *)
(* liveness_analysis() (live_out and consumed) are chosen when a variable  *)
(* is defined and then bind the program: no use after the last use.        *)
(***************************************************************************)
EXTENDS Integers, Sequences

CONSTANTS
    Local,            \* SSA variables of a function
    Global,           \* global variables (never renamed, always in memory)
    ConstVars,        \* locals defined by OP_load_constant and marked is_const
    PhiVars,          \* locals defined by phi functions
    AddrVars,         \* locals whose address is taken
    Params,           \* the parameters of the function, a sequence of locals
    Junk,             \* contents no instruction may rely on
    RetVal,           \* contents of register 0 after a call
    None,             \* an empty REGS entry
    REG_CNT,          \* number of physical registers
    MAX_ARGS_IN_REG,  \* arguments passed in registers
    MAX_PARAMS,       \* arguments of one call
    Uses,             \* source features the program is allowed to use
    MaxIdx,           \* bound: index of the last instruction of a block
    MaxBlocks         \* bound: blocks of one function

Var == Local \cup Global
Reg == 0..(REG_CNT - 1)
ParamSet == {Params[i] : i \in 1..Len(Params)}

ASSUME RegAssumption ==
    /\ REG_CNT \in Nat /\ REG_CNT >= 3
    /\ MAX_ARGS_IN_REG \in 1..REG_CNT
    /\ MAX_PARAMS \in Nat
ASSUME VarAssumption ==
    /\ Local \cap Global = {}
    /\ Var \cap {Junk, RetVal, None} = {} /\ Junk # RetVal
    /\ ConstVars \subseteq Local /\ PhiVars \subseteq Local
    /\ AddrVars \subseteq Local
    /\ ConstVars \cap PhiVars = {}
    /\ ParamSet \subseteq Local \ (ConstVars \cup PhiVars)
    /\ Len(Params) \in Nat
    /\ Params \in [1..Len(Params) -> Local]
    /\ \A i, j \in 1..Len(Params) : Params[i] = Params[j] => i = j
ASSUME BoundAssumption == MaxIdx \in Nat /\ MaxBlocks \in Nat

VARIABLES
    st,        \* allocator tables and the machine state of the emitted code
    avail,     \* locals the program may read in this block
    defd,      \* locals already assigned (SSA: once)
    killed,    \* bb->live_kill: what the current block defines
    live_out,  \* bb->live_out of the current block
    consumed,  \* var->consumed: index of the last use, over all blocks
    idx,       \* insn->idx of the next instruction
    blk,       \* number of the current block
    is_const,  \* locals that load_var() materialises
    exposed,   \* locals a pointer may point to
    pending,   \* phi destinations stored by the OP_unwound_phi's of the block
    call,      \* the call being set up
    ret,       \* a return value is waiting in register 0
    misread    \* operands the last instruction did not find where it looked

vars == <<st, avail, defd, killed, live_out, consumed, idx, blk, is_const,
          exposed, pending, call, ret, misread>>

NoReg == -1
Empty == [var |-> None, polluted |-> FALSE]
Content == Var \cup {Junk, RetVal}
NoCall == [params |-> <<>>, pos |-> 0, args |-> 0, on_stack |-> FALSE,
           out |-> <<>>]

-----------------------------------------------------------------------------
(* Helpers of the allocator.  Each maps an `st' to the `st' after it.      *)

Holding(s, v) == {i \in Reg : s.REGS[i].var = v}
Least(R) == CHOOSE i \in R : \A j \in R : i <= j
Greatest(R) == CHOOSE i \in R : \A j \in R : j <= i

\* Clear the entries in R; the variables in them lose their vreg mapping.
Drop(s, R) ==
    [s EXCEPT
        !.REGS = [i \in Reg |-> IF i \in R THEN Empty ELSE s.REGS[i]],
        !.phys_reg = [v \in Var |-> IF \E i \in R : s.REGS[i].var = v
                                      THEN NoReg ELSE s.phys_reg[v]]]

\* refresh(): forget what neither this block nor a later one reads again.
refresh(s) ==
    Drop(s, {i \in Reg : /\ s.REGS[i].var # None
                         /\ s.REGS[i].var \notin live_out
                         /\ consumed[s.REGS[i].var] < idx})

\* spill_var() on every register of R in turn: a dirty entry is stored to the
\* slot of its variable, which is allocated on the first store.
spill_var(s, R) ==
    LET dirty(v) == {i \in R : s.REGS[i].var = v /\ s.REGS[i].polluted}
        stored == {v \in Var : dirty(v) # {}}
    IN  [Drop(s, R) EXCEPT
            !.space = s.space \cup stored,
            !.mem = [v \in Var |-> IF v \in stored
                                     THEN s.reg[Greatest(dirty(v))]
                                     ELSE s.mem[v]]]

\* load_var(): constants are materialised, everything else is reloaded.
Fetch(s, v) == IF v \in is_const THEN v ELSE s.mem[v]
load_var(s, v, r) ==
    [s EXCEPT !.reg = [@ EXCEPT ![r] = Fetch(s, v)],
              !.REGS = [@ EXCEPT ![r] = [var |-> v, polluted |-> FALSE]],
              !.phys_reg = [@ EXCEPT ![v] = r]]

\* Mutant of find_best_spill: the registers to avoid are not looked at.
SpillAny(s, avoid) == {i \in Reg : s.REGS[i].var # None}

\* find_best_spill() and the loop behind it.  The cost only ranks the
\* candidates, so any register that is not to be avoided may be the one.
find_best_spill(s, avoid) == {i \in Reg \ avoid : s.REGS[i].var # None}

Mapped(s, v) == s.phys_reg[v] \in Reg /\ s.REGS[s.phys_reg[v]].var = v
Free(s) == Holding(s, None)

\* prepare_operand(): the [reg, st] pairs it can end with.
prepare_operand(s, v, avoid) ==
    IF Mapped(s, v)
      THEN {[reg |-> s.phys_reg[v], st |-> s]}
    ELSE IF Holding(s, v) # {} /\ v \notin AddrVars
      THEN {[reg |-> Least(Holding(s, v)),
             st |-> [s EXCEPT !.phys_reg =
                                [@ EXCEPT ![v] = Least(Holding(s, v))]]]}
    ELSE IF Free(s) # {}
      THEN {[reg |-> Least(Free(s)), st |-> load_var(s, v, Least(Free(s)))]}
    ELSE {[reg |-> r, st |-> load_var(spill_var(s, {r}), v, r)] :
             r \in find_best_spill(s, avoid)}

\* The register becomes the dirty home of v.
Own(s, v, r) ==
    [s EXCEPT !.REGS = [@ EXCEPT ![r] = [var |-> v, polluted |-> TRUE]],
              !.phys_reg = [@ EXCEPT ![v] = r]]

\* Mutant of prepare_dest: what is evicted is not stored.
DestUnsaved(s, v, avoid) ==
    LET homes == IF Mapped(s, v) THEN {s.phys_reg[v]}
                 ELSE IF Holding(s, v) # {} THEN {Least(Holding(s, v))}
                 ELSE IF Free(s) # {} THEN {Least(Free(s))}
                 ELSE find_best_spill(s, avoid)
    IN  {[reg |-> r, st |-> Own(Drop(s, {r} \ Holding(s, v)), v, r)] : r \in homes}

\* prepare_dest()
prepare_dest(s, v, avoid) ==
    IF Mapped(s, v)
      THEN {[reg |-> s.phys_reg[v], st |-> Own(s, v, s.phys_reg[v])]}
    ELSE IF Holding(s, v) # {}
      THEN {[reg |-> Least(Holding(s, v)),
             st |-> Own(s, v, Least(Holding(s, v)))]}
    ELSE IF Free(s) # {}
      THEN {[reg |-> Least(Free(s)), st |-> Own(s, v, Least(Free(s)))]}
    ELSE {[reg |-> r, st |-> Own(spill_var(s, {r}), v, r)] :
             r \in find_best_spill(s, avoid)}

\* spill_alive(): before OP_write every local, otherwise what is read later.
spill_alive_write(s) == spill_var(s, {i \in Reg : s.REGS[i].var \in Local})
spill_alive(s, cons) ==
    spill_var(s, {i \in Reg : /\ s.REGS[i].var # None
                              /\ \/ s.REGS[i].var \in live_out
                                 \/ cons[s.REGS[i].var] > idx})

\* Mutant of spill_live_out(): REGS is cleared, nothing is stored.
clear_live_out(s) == Drop(s, {i \in Reg : s.REGS[i].var # None})

\* spill_live_out(): at the end of a block only what it defines is stored.
spill_live_out(s) ==
    Drop(spill_var(s, {i \in Reg : s.REGS[i].var \in live_out \cap killed}),
         {i \in Reg : s.REGS[i].var # None})

\* Mutant of extend_liveness(): an argument may die before the call.
extend_nothing(v, sz) == consumed

\* extend_liveness(): an argument stays alive until the call.
extend_liveness(v, sz) ==
    IF v \notin live_out /\ idx + sz > consumed[v]
      THEN [consumed EXCEPT ![v] = idx + sz] ELSE consumed

\* abi_lower_call_args(): arguments beyond the registers go through register
\* MAX_ARGS_IN_REG - 1 to the outgoing area, the last one first.
abi_lower_call_args(s, ps) ==
    LET last == MAX_ARGS_IN_REG - 1
        extra == (MAX_ARGS_IN_REG + 1)..Len(ps)
    IN IF extra = {}
         THEN [st |-> s, on_stack |-> FALSE, out |-> <<>>]
         ELSE [st |->
                [s EXCEPT
                   !.reg = [@ EXCEPT ![last] = Fetch(s, ps[last + 2])],
                   !.REGS = [@ EXCEPT ![last] = Empty],
                   !.phys_reg = [v \in Var |-> IF \E i \in extra : ps[i] = v
                                                 THEN last
                                                 ELSE s.phys_reg[v]]],
               on_stack |-> TRUE,
               out |-> [i \in 1..(Len(ps) - MAX_ARGS_IN_REG) |->
                          Fetch(s, ps[MAX_ARGS_IN_REG + i])]]

-----------------------------------------------------------------------------
(* The machine, and what the program may do next.                          *)

\* The variables of W get new values, stored in memory: other copies rot.
Stored(s, W) ==
    [s EXCEPT !.reg = [i \in Reg |-> IF s.reg[i] \in W THEN Junk
                                                       ELSE s.reg[i]],
              !.mem = [v \in Var |-> IF v \in W THEN v ELSE s.mem[v]]]

\* An instruction writes the new value of v to register r.
Computed(s, v, r) ==
    [s EXCEPT !.reg = [i \in Reg |-> IF i = r THEN v
                                     ELSE IF s.reg[i] = v THEN Junk
                                     ELSE s.reg[i]]]

\* OP_global_store behind an assignment to a global.
Written(s, v, r) ==
    IF v \in Global
      THEN [s EXCEPT !.mem = [@ EXCEPT ![v] = s.reg[r]],
                     !.REGS = [@ EXCEPT ![r] = [var |-> v, polluted |-> FALSE]]]
      ELSE s

\* No function is being compiled.
Outside ==
    [REGS |-> [i \in Reg |-> Empty],
     phys_reg |-> [v \in Var |-> NoReg],
     space |-> Global,
     reg |-> [i \in Reg |-> Junk],
     mem |-> [v \in Var |-> IF v \in Global THEN v ELSE Junk]]

\* At function entry.  A fixed parameter list leaves the extra arguments in
\* the caller's frame; a variadic one copies every argument to the callee's
\* frame but only the register ones are told where.  The mapping of a
\* parameter starts as 0, the content of cleared memory, not as "unassigned".
Entry(va_args) ==
    LET inreg == {i \in Reg : i < Len(Params) /\ i < MAX_ARGS_IN_REG}
        placed == {Params[i + 1] : i \in inreg}
        saved == Global \cup (IF va_args THEN placed ELSE ParamSet \ placed)
    IN  [REGS |-> [i \in Reg |-> IF i \in inreg
                                   THEN [var |-> Params[i + 1],
                                         polluted |-> TRUE]
                                   ELSE Empty],
         phys_reg |-> [v \in Var |-> IF v \in ParamSet THEN 0 ELSE NoReg],
         space |-> saved,
         reg |-> [i \in Reg |-> IF i \in inreg THEN Params[i + 1] ELSE Junk],
         mem |-> [v \in Var |-> IF v \in saved THEN v ELSE Junk]]

Missing(s, v, r) == IF s.reg[r] = v THEN {} ELSE {v}
Stale(s, W) == {w \in W : s.mem[w] # w}

Idle == call = NoCall
CanUseAt(v, i) == v \in (avail \cup Global) \ pending /\ consumed[v] >= i
CanUse(v) == CanUseAt(v, idx)
CanDef(v) == v \in Local \ (defd \cup PhiVars)
InBlock == blk > 0 /\ idx <= MaxIdx /\ pending = {}
Plain(v) == CanDef(v) /\ v \notin ConstVars

Step(s, miss) ==
    /\ st' = s
    /\ misread' = miss
    /\ idx' = idx + 1
    /\ UNCHANGED blk

\* v is defined; liveness_analysis() knows its last use and whether a later
\* block reads it.
Define(v) ==
    /\ avail' = avail \cup ({v} \cap Local)
    /\ defd' = defd \cup ({v} \cap Local)
    /\ killed' = killed \cup {v}
    /\ \/ /\ v \in Local
          /\ \E c \in {-1} \cup ((idx + 1)..(MaxIdx + 1)) :
               consumed' = [consumed EXCEPT ![v] = c]
          /\ UNCHANGED live_out
       \/ /\ v \in Local /\ blk < MaxBlocks
          /\ \E c \in 0..(MaxIdx + 1) : consumed' = [consumed EXCEPT ![v] = c]
          /\ live_out' = live_out \cup {v}
       \/ v \in Global /\ UNCHANGED <<consumed, live_out>>

NoDefine == UNCHANGED <<avail, defd, killed, live_out>>
Straight == UNCHANGED <<is_const, exposed, pending, call>> /\ ret' = FALSE

-----------------------------------------------------------------------------
(* One action per opcode of the switch in reg_alloc().                     *)

\* OP_load_constant, OP_load_data_address, OP_load_rodata_address.
LoadImmediate(v) ==
    /\ Idle /\ InBlock /\ (CanDef(v) \/ v \in Global)
    /\ \E d \in prepare_dest(refresh(st), v, {}) :
         Step(Written(Computed(d.st, v, d.reg), v, d.reg), {})
    /\ Define(v)
    /\ Straight

\* OP_add .. OP_bit_xor: both operands, then the destination, then the code.
Binary(v, a, b) ==
    /\ Idle /\ InBlock /\ CanUse(a) /\ CanUse(b) /\ Plain(v)
    /\ \E p0 \in prepare_operand(refresh(st), a, {}) :
       \E p1 \in prepare_operand(p0.st, b, {p0.reg}) :
       \E d \in prepare_dest(p1.st, v, {p0.reg, p1.reg}) :
         Step(Computed(d.st, v, d.reg),
              Missing(d.st, a, p0.reg) \cup Missing(d.st, b, p1.reg))
    /\ Define(v)
    /\ Straight

\* OP_negate, OP_bit_not, OP_log_not, OP_trunc, OP_sign_ext, OP_cast.
Unary(v, a) ==
    /\ Idle /\ InBlock /\ CanUse(a) /\ Plain(v)
    /\ \E p \in prepare_operand(refresh(st), a, {}) :
       \E d \in prepare_dest(p.st, v, {p.reg}) :
         Step(Computed(d.st, v, d.reg), Missing(d.st, a, p.reg))
    /\ Define(v)
    /\ Straight

\* OP_read through pointer a, which may point to any exposed variable.
Read(v, a) ==
    /\ Idle /\ InBlock /\ CanUse(a) /\ Plain(v)
    /\ \E p \in prepare_operand(refresh(st), a, {}) :
       \E d \in prepare_dest(p.st, v, {p.reg}) :
         Step(Computed(d.st, v, d.reg),
              Missing(d.st, a, p.reg) \cup Stale(d.st, exposed \cup Global))
    /\ Define(v)
    /\ Straight

\* OP_assign to a local or a global that is read somewhere.  An operand that
\* had to be loaded loses its register again.
Assign(v, a) ==
    /\ Idle /\ InBlock /\ CanUse(a) /\ (Plain(v) \/ v \in Global) /\ a # v
    /\ LET s == refresh(st)
           found == Holding(s, a) # {}
           src == IF found THEN {[reg |-> Least(Holding(s, a)), st |-> s]}
                           ELSE prepare_operand(s, a, {})
       IN \E p \in src : \E d \in prepare_dest(p.st, v, {p.reg}) :
            LET moved == Written(Computed(d.st, v, d.reg), v, d.reg)
            IN Step(IF found THEN moved ELSE Drop(moved, {p.reg}),
                    Missing(d.st, a, p.reg))
    /\ Define(v) /\ consumed'[v] # -1
    /\ Straight

\* OP_assign to a variable nothing reads emits no code.
AssignDead(v, a) ==
    /\ Idle /\ InBlock /\ CanUse(a) /\ Plain(v)
    /\ Step(refresh(st), {})
    /\ Define(v) /\ consumed'[v] = -1
    /\ Straight

\* OP_allocat of a scalar reserves nothing yet.
AllocatScalar(v) ==
    /\ Idle /\ InBlock /\ Plain(v)
    /\ Step(refresh(st), {})
    /\ NoDefine /\ UNCHANGED consumed
    /\ Straight

\* OP_allocat of an array or a structure: v stands for its base address,
\* which for an array is stored at once.
AllocatAggregate(v, array) ==
    /\ Idle /\ InBlock /\ Plain(v) /\ v \notin AddrVars
    /\ LET s == [refresh(st) EXCEPT !.space = @ \cup {v}]
       IN \E d \in prepare_dest(s, v, {}) :
            LET based == Computed(d.st, v, d.reg)
            IN Step(IF array THEN spill_var(based, {d.reg}) ELSE based, {})
    /\ Define(v)
    /\ Straight

\* Mutant of Onstack: the slot is allocated, the value is not stored.
OnstackEmpty(s, a) ==
    [s EXCEPT !.space = s.space \cup {a},
              !.REGS = [i \in Reg |-> IF s.REGS[i].var = a THEN Empty
                                                           ELSE s.REGS[i]]]

\* The slot OP_address_of gives its operand, stored from the registers that
\* are mapped to it; their entries are cleared.
Onstack(s, a) ==
    [s EXCEPT !.space = s.space \cup {a},
              !.mem = IF Holding(s, a) = {} THEN s.mem
                      ELSE [s.mem EXCEPT ![a] = s.reg[Greatest(Holding(s, a))]],
              !.REGS = [i \in Reg |-> IF s.REGS[i].var = a THEN Empty
                                                           ELSE s.REGS[i]]]

\* OP_address_of: a is forced into memory before its address is formed.
AddressOf(v, a) ==
    /\ Idle /\ InBlock /\ CanUse(a) /\ Plain(v) /\ a \in AddrVars
    /\ LET s == refresh(st)
           n == IF a \in s.space THEN s ELSE Onstack(s, a)
       IN \E d \in prepare_dest(n, v, {}) :
            Step(Computed(d.st, v, d.reg), {})
    /\ Define(v)
    /\ is_const' = is_const \ {a}
    /\ exposed' = exposed \cup {a}
    /\ UNCHANGED <<pending, call>> /\ ret' = FALSE

\* OP_global_address_of: globals always have a slot.
GlobalAddressOf(v, g) ==
    /\ Idle /\ InBlock /\ CanUse(g) /\ g \in Global /\ Plain(v)
    /\ \E d \in prepare_dest(refresh(st), v, {}) :
         Step(Computed(d.st, v, d.reg), {})
    /\ Define(v)
    /\ Straight

\* OP_unwound_phi: the operand is stored to the slot of the phi destination.
UnwoundPhi(v, a) ==
    /\ Idle /\ blk \in 1..(MaxBlocks - 1) /\ idx <= MaxIdx /\ CanUse(a)
    /\ v \in PhiVars \ pending
    /\ \E p \in prepare_operand(refresh(st), a, {}) :
         LET s == Stored(p.st, {v})
         IN Step([s EXCEPT !.space = @ \cup {v}], Missing(p.st, a, p.reg))
    /\ pending' = pending \cup {v}
    /\ NoDefine /\ UNCHANGED <<consumed, is_const, exposed, call>>
    /\ ret' = FALSE

\* What a store through a pointer may change.  (A pointer that points to
\* itself is left out; storing b to b changes nothing.)
Targets == exposed \cup (IF "globalptr" \in Uses THEN Global ELSE {})

\* OP_write of b through pointer a.
Write(a, b) ==
    /\ Idle /\ InBlock /\ CanUse(a) /\ CanUse(b)
    /\ \E p0 \in prepare_operand(spill_alive_write(refresh(st)), a, {}) :
       \E p1 \in prepare_operand(p0.st, b, {p0.reg}) :
         Step(Stored(p1.st, Targets \ {a, b}),
              Missing(p1.st, a, p0.reg) \cup Missing(p1.st, b, p1.reg))
    /\ NoDefine /\ UNCHANGED consumed
    /\ Straight

\* OP_write of a function's address: nothing is spilled.
WriteFunc(a) ==
    /\ Idle /\ InBlock /\ CanUse(a)
    /\ \E p \in prepare_operand(refresh(st), a, {}) :
         Step(Stored(p.st, IF "funcptr" \in Uses THEN Targets \ {a} ELSE {}),
              Missing(p.st, a, p.reg))
    /\ NoDefine /\ UNCHANGED consumed
    /\ Straight

\* Mutant of Passed: one argument too many goes to a register.
PassedOneMore(c, s, v) ==
    IF c.on_stack /\ c.args > MAX_ARGS_IN_REG
      THEN /\ Step(s, {})
           /\ call' = [c EXCEPT !.pos = @ + 1]
      ELSE \E p \in prepare_operand(s, v, {}) :
             /\ Step([p.st EXCEPT
                        !.reg = [@ EXCEPT ![c.args] = p.st.reg[p.reg]],
                        !.REGS = [@ EXCEPT ![c.args] =
                                    [var |-> v, polluted |-> FALSE]]],
                     Missing(p.st, v, p.reg))
             /\ call' = [c EXCEPT !.pos = @ + 1, !.args = @ + 1]

\* OP_push of the next argument.  The first one spills what is alive and
\* places the arguments that do not fit in registers.
Passed(c, s, v) ==
    IF c.on_stack /\ c.args >= MAX_ARGS_IN_REG
      THEN /\ Step(s, {})
           /\ call' = [c EXCEPT !.pos = @ + 1]
      ELSE \E p \in prepare_operand(s, v, {}) :
             /\ Step([p.st EXCEPT
                        !.reg = [@ EXCEPT ![c.args] = p.st.reg[p.reg]],
                        !.REGS = [@ EXCEPT ![c.args] =
                                    [var |-> v, polluted |-> FALSE]]],
                     Missing(p.st, v, p.reg))
             /\ call' = [c EXCEPT !.pos = @ + 1, !.args = @ + 1]

FirstPush(ps) ==
    /\ Idle /\ InBlock /\ ps # <<>> /\ idx + Len(ps) <= MaxIdx + 1
    /\ \A i \in 1..Len(ps) : CanUseAt(ps[i], idx + i - 1)
    /\ consumed' = extend_liveness(ps[1], Len(ps))
    /\ LET a == abi_lower_call_args(spill_alive(refresh(st), consumed'), ps)
       IN Passed([params |-> ps, pos |-> 0, args |-> 0,
                  on_stack |-> a.on_stack, out |-> a.out], a.st, ps[1])
    /\ NoDefine /\ UNCHANGED <<is_const, exposed, pending>> /\ ret' = FALSE

NextPush ==
    /\ call.pos \in 1..(Len(call.params) - 1)
    /\ LET v == call.params[call.pos + 1]
       IN /\ consumed' = extend_liveness(v, Len(call.params) - call.pos)
          /\ Passed(call, refresh(st), v)
    /\ NoDefine /\ UNCHANGED <<is_const, exposed, pending, ret>>

\* What the callee finds: its arguments and, in memory, what it may read.
Received(s) ==
    LET n == Len(call.params)
        inreg == {i \in 1..n : i <= MAX_ARGS_IN_REG}
    IN  {call.params[i] : i \in {j \in inreg : s.reg[j - 1] # call.params[j]}}
        \cup {call.params[i] : i \in {j \in 1..n \ inreg :
                call.out[j - MAX_ARGS_IN_REG] # call.params[j]}}
        \cup Stale(s, exposed \cup Global)

\* The callee runs: it may change every exposed variable and global, keeps no
\* register and leaves its result in register 0.
Callee(s) ==
    LET t == Stored(s, exposed \cup Global)
    IN  [t EXCEPT !.reg = [i \in Reg |-> IF i = 0 THEN RetVal ELSE Junk]]

\* Mutant of Call: REGS still names what the callee has overwritten.
CallKeepsRegs ==
    /\ blk > 0 /\ pending = {} /\ call.pos = Len(call.params)
    /\ idx <= MaxIdx + 1
    /\ LET s0 == refresh(st)
           s == IF call.params = <<>> THEN spill_alive(s0, consumed) ELSE s0
       IN Step(Callee(s), Received(s))
    /\ call' = NoCall /\ ret' = TRUE
    /\ NoDefine /\ UNCHANGED <<consumed, is_const, exposed, pending>>

\* OP_call: REGS is emptied, the vreg mappings stay.
Call ==
    /\ blk > 0 /\ pending = {} /\ call.pos = Len(call.params)
    /\ idx <= MaxIdx + 1
    /\ LET s0 == refresh(st)
           s == IF call.params = <<>> THEN spill_alive(s0, consumed) ELSE s0
       IN Step([Callee(s) EXCEPT !.REGS = [i \in Reg |-> Empty]], Received(s))
    /\ call' = NoCall /\ ret' = TRUE
    /\ NoDefine /\ UNCHANGED <<consumed, is_const, exposed, pending>>

\* OP_indirect: a call through pointer f.
Indirect(f) ==
    /\ blk > 0 /\ pending = {} /\ call.pos = Len(call.params)
    /\ idx <= MaxIdx + 1
    /\ CanUse(f)
    /\ LET s0 == refresh(st)
           s == IF call.args = 0 THEN spill_alive(s0, consumed) ELSE s0
       IN \E p \in prepare_operand(s, f, {}) :
            /\ "indirect" \in Uses \/
                 \A i \in Reg : LET w == p.st.REGS[i].var
                                IN w = None \/ (w \in Local \ live_out
                                                /\ consumed[w] <= idx)
            /\ Step(Callee(p.st), Missing(p.st, f, p.reg) \cup Received(p.st))
    /\ call' = NoCall /\ ret' = TRUE
    /\ NoDefine /\ UNCHANGED <<consumed, is_const, exposed, pending>>

\* OP_func_ret: the result is moved out of register 0.
FuncRet(v) ==
    /\ Idle /\ ret /\ Plain(v)
    /\ \E d \in prepare_dest(refresh(st), v, {}) :
         Step(Computed(d.st, v, d.reg),
              IF d.st.reg[0] = RetVal THEN {} ELSE {RetVal})
    /\ Define(v)
    /\ Straight

\* The next block in layout order.  It may be reached from any block already
\* processed, so it may read whatever was available at the beginning of this
\* one or is live at its end, and can rely on memory only.
NextBlock(s, miss) ==
    LET after == spill_live_out(s)
        outgoing == (avail \cap live_out) \ pending
        known == (avail \ killed) \cup outgoing \cup pending
    IN  /\ blk < MaxBlocks /\ blk' = blk + 1
        /\ st' = [after EXCEPT !.reg = [i \in Reg |-> Junk]]
        /\ misread' = miss \cup Stale(after, outgoing)
        /\ avail' = known
        /\ live_out' \in IF blk' = MaxBlocks THEN {{}} ELSE SUBSET known
        /\ pending' = {} /\ killed' = {} /\ idx' = 0
        /\ ret' = FALSE
        /\ UNCHANGED <<defd, consumed, is_const, exposed, call>>

\* A block that ends without a branch: spill_live_out() and, when the layout
\* asks for it, a jump.
FallThrough == Idle /\ blk > 0 /\ NextBlock(st, {})

\* OP_branch: the operand stays in its register while REGS is emptied.
Branch(a) ==
    /\ Idle /\ blk > 0 /\ idx <= MaxIdx + 1 /\ CanUse(a)
    /\ \E p \in prepare_operand(refresh(st), a, {}) :
         NextBlock(p.st, Missing(p.st, a, p.reg))

\* The last block of the function has been processed: nothing is kept but the
\* globals, which the caller may read.
Leave(s, miss) ==
    /\ st' = Outside
    /\ misread' = miss \cup Stale(s, Global)
    /\ avail' = {} /\ defd' = {} /\ killed' = {} /\ live_out' = {}
    /\ consumed' = [v \in Var |-> -1]
    /\ idx' = 0 /\ blk' = 0 /\ is_const' = ConstVars
    /\ exposed' = {} /\ pending' = {}
    /\ call' = NoCall /\ ret' = FALSE

\* OP_return with a value, and the implicit return of a void function.
Return(a) ==
    /\ Idle /\ blk > 0 /\ idx <= MaxIdx + 1 /\ CanUse(a) /\ pending = {}
    /\ \E p \in prepare_operand(refresh(st), a, {}) :
         Leave(p.st, Missing(p.st, a, p.reg))
ReturnVoid == Idle /\ blk > 0 /\ pending = {} /\ Leave(st, {})

\* The head of the loop over FUNC_LIST: the arguments are put in REGS and, in
\* a variadic function, stored to consecutive slots.
NextFunction ==
    /\ blk = 0
    /\ \E va_args \in BOOLEAN :
         /\ va_args /\ Len(Params) > MAX_ARGS_IN_REG => "vaextra" \in Uses
         /\ st' = Entry(va_args)
    /\ \E c \in [ParamSet \cup PhiVars \cup Global -> 0..(MaxIdx + 1)] :
         consumed' = [v \in Var |-> IF v \in DOMAIN c THEN c[v] ELSE -1]
    /\ avail' = ParamSet /\ defd' = ParamSet /\ killed' = ParamSet
    /\ live_out' \in IF MaxBlocks = 1 THEN {{}} ELSE SUBSET ParamSet
    /\ blk' = 1 /\ misread' = {}
    /\ UNCHANGED <<idx, is_const, exposed, pending, call, ret>>

Init ==
    /\ st = Outside
    /\ misread = {}
    /\ avail = {} /\ defd = {} /\ killed = {} /\ live_out = {}
    /\ consumed = [v \in Var |-> -1]
    /\ idx = 0 /\ blk = 0 /\ is_const = ConstVars
    /\ exposed = {} /\ pending = {}
    /\ call = NoCall /\ ret = FALSE

Calls(maxlen) == UNION {[1..n -> Var] : n \in 1..maxlen}

Next ==
    \/ NextFunction
    \/ \E v \in Var : LoadImmediate(v)
    \/ \E v, a \in Var :
         \/ Unary(v, a) \/ Read(v, a) \/ Assign(v, a) \/ AssignDead(v, a)
         \/ AddressOf(v, a) \/ GlobalAddressOf(v, a) \/ UnwoundPhi(v, a)
    \/ \E v, a, b \in Var : Binary(v, a, b)
    \/ \E v \in Var : AllocatScalar(v) \/ FuncRet(v)
    \/ \E v \in Var, array \in BOOLEAN : AllocatAggregate(v, array)
    \/ \E a, b \in Var : Write(a, b)
    \/ \E a \in Var : WriteFunc(a) \/ Indirect(a)
    \/ \E ps \in Calls(MAX_PARAMS) : FirstPush(ps)
    \/ NextPush
    \/ Call
    \/ FallThrough
    \/ \E a \in Var : Branch(a) \/ Return(a)
    \/ ReturnVoid

Spec == Init /\ [][Next]_vars

-----------------------------------------------------------------------------
(* Properties.                                                             *)

StateType ==
    [REGS : [Reg -> [var : Var \cup {None}, polluted : BOOLEAN]],
     phys_reg : [Var -> Reg \cup {NoReg}],
     space : SUBSET Var,
     reg : [Reg -> Content],
     mem : [Var -> Content]]

CallType ==
    [params : Seq(Var), pos : Nat, args : 0..MAX_ARGS_IN_REG,
     on_stack : BOOLEAN, out : Seq(Content)]

\* The type invariant: among others, no mapping names a register that does
\* not exist and no argument goes past the argument registers.
TypeOK ==
    /\ st \in StateType
    /\ avail \subseteq Local /\ defd \subseteq Local
    /\ killed \subseteq Var /\ live_out \subseteq Local
    /\ consumed \in [Var -> Int]
    /\ idx \in Nat /\ blk \in Nat
    /\ is_const \subseteq ConstVars
    /\ exposed \subseteq AddrVars
    /\ pending \subseteq PhiVars
    /\ call \in CallType
    /\ ret \in BOOLEAN
    /\ misread \subseteq Var \cup {RetVal}

\* Every instruction of the emitted code finds its operands: the registers it
\* was given contain them, a pointer finds the variables it points to in
\* memory, a callee finds its arguments (in the argument registers and in the
\* outgoing area) and the globals, a return value is still in register 0, and
\* a block leaves the variables its successors read in their slots.
OperandsFound == misread = {}

\* What may still be read in this block or in a later one.
AliveSet == {v \in (avail \cup Global) \ pending :
               v \in live_out \/ consumed[v] >= idx}
SavedIn(s, v) == v \in s.space /\ s.mem[v] = v

\* REGS tells the truth: an entry for a variable that is read again names a
\* register that contains it (what find_in_regs() promises its callers).
RegsTruthful ==
    \A i \in Reg : st.REGS[i].var \in AliveSet => st.reg[i] = st.REGS[i].var

\* No value is lost: a variable that is read again is in its slot or in a
\* register that is marked polluted, so that it will be stored before the
\* register is reused.
NothingLost ==
    \A v \in AliveSet :
        \/ SavedIn(st, v)
        \/ \E i \in Reg : st.REGS[i] = [var |-> v, polluted |-> TRUE]

\* A variable whose address was taken lives in memory from then on, so that
\* reads and writes through the pointer see it, and so does a global.
ExposedInMemory == \A v \in exposed \cup Global : SavedIn(st, v)

-----------------------------------------------------------------------------
(* The inductive invariant.  L is the set of variables that are read       *)
(* again, A the set REGS may name, S the set that is in memory.            *)

\* Entries of live variables are truthful.
Truthful(s, L) == \A i \in Reg : s.REGS[i].var \in L => s.reg[i] = s.REGS[i].var
\* A register that is not polluted can be dropped.
CleanSaved(s, L) ==
    \A i \in Reg : s.REGS[i].var \in L /\ ~s.REGS[i].polluted
                     => SavedIn(s, s.REGS[i].var)
\* Every live variable is somewhere.
Present(s, L) ==
    \A v \in L : SavedIn(s, v) \/ \E i \in Reg : s.REGS[i].var = v
\* Only locals that the block defines are polluted.
DirtyKilled(s, K) ==
    \A i \in Reg : s.REGS[i].polluted /\ s.REGS[i].var # None
                     => s.REGS[i].var \in K \cap Local
Known(s, A) == \A i \in Reg : s.REGS[i].var \in A \cup {None}
InMemory(s, S) == \A v \in S : SavedIn(s, v)
\* The mapping of globals and address-taken variables is exact.
Exact(s, L) ==
    \A i \in Reg : s.REGS[i].var \in L \cap (AddrVars \cup Global)
                     => s.phys_reg[s.REGS[i].var] = i

\* An address-taken variable with a slot is in its slot.
Slots(s, L) == \A v \in s.space \cap L \cap AddrVars : s.mem[v] = v

\* The state between two helpers of one instruction, after refresh().
Good(s, L, K, A, S) ==
    /\ s \in StateType
    /\ Truthful(s, L) /\ CleanSaved(s, L) /\ Present(s, L)
    /\ DirtyKilled(s, K \cap L) /\ Known(s, A) /\ InMemory(s, S)
    /\ Slots(s, L)

\* What is in memory whatever the registers hold: globals, exposed variables,
\* everything that was live when the block began, and the phi destinations
\* already stored.
Resident == Global \cup exposed \cup (avail \ killed) \cup pending

Bookkeeping ==
    /\ avail \subseteq defd \cup PhiVars /\ live_out \subseteq avail
    /\ killed \cap PhiVars = {}
    /\ pending \cap killed = {}
    /\ blk = 0 => avail = {} /\ pending = {} /\ exposed = {} /\ Idle
    /\ ret => blk > 0 /\ pending = {}
    /\ exposed \subseteq defd \cup PhiVars
    /\ st.space \subseteq defd \cup PhiVars \cup Global
    /\ ~Idle => /\ pending = {}
                /\ call.pos \in 1..Len(call.params) /\ call.args <= call.pos
                /\ call.on_stack \/ Len(call.params) <= MAX_ARGS_IN_REG
                /\ \A i \in (call.pos + 1)..Len(call.params) :
                     CanUseAt(call.params[i], idx + i - call.pos - 1)

IndInv ==
    /\ TypeOK
    /\ Bookkeeping
    /\ Truthful(st, AliveSet)
    /\ CleanSaved(st, AliveSet)
    /\ Present(st, AliveSet)
    /\ DirtyKilled(st, killed)
    /\ Known(st, avail \cup Global)
    /\ InMemory(st, Resident)
    /\ Slots(st, AliveSet)
    /\ Idle => Exact(st, AliveSet)
    /\ ~Idle => InMemory(st, AliveSet)

\* The programs reg_alloc() compiles right: no feature of Uses, and no
\* parameter in register 1 or above has its address taken.
Safe ==
    /\ Uses = {}
    /\ \A i \in 1..Len(Params) :
         Params[i] \in AddrVars => i = 1 \/ i > MAX_ARGS_IN_REG
=============================================================================
