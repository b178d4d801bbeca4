----------------------------- MODULE Optimizer -----------------------------
(***************************************************************************)
(* The instruction-level part of optimize() (src/src/ssa.c) and the pass   *)
(* over constant casts (src/src/opt-sccp.c) on one basic block in SSA      *)
(* form.  The block has two parameters, a global variable and temporaries; *)
(* the instruction at position k of the block as it was built defines the  *)
(* temporary Temp(k), unless it assigns the global variable or writes      *)
(* through an address.                                                     *)
(*                                                                         *)
(* A constant has its value not in the instruction but in its variable     *)
(* (var_t: is_const, init_val), where the register allocator looks it up   *)
(* after all passes: every use sees the value written last.                *)
(***************************************************************************)
EXTENDS Word, SequencesExt

CONSTANTS
    Imms,       \* literals
    Ops,        \* operations in short programs
    LongOps,    \* operations in long ones
    Sample,     \* values of the parameters and of the global variable
    Uses        \* what the programs may do, see Expected

ASSUME ProgramAssumption ==
    /\ Imms \subseteq Word /\ Sample \subseteq Word
    /\ Ops \subseteq Binary \cup Unary /\ LongOps \subseteq Binary

VARIABLES
    phase,      \* "casts" or "visit"
    insns,      \* bb->insn_list
    consts,     \* variables with is_const
    init_val,   \* their values; 0 for a variable that has none
    insn,       \* position of the instruction the pass looks at
    before      \* the block and the values as the parser and SSA left them

vars == <<phase, insns, consts, init_val, insn, before>>

NULL == 0
Params == {1, 2}
Global == 3
Temp(k) == 3 + k
Longest == 7
Variables == Params \cup {Global} \cup {Temp(k) : k \in 1..Longest}

Insn(op, rd, rs1, rs2) == [op |-> op, rd |-> rd, rs1 |-> rs1, rs2 |-> rs2, sz |-> 4]
Sized(op, rd, rs1, sz) == [Insn(op, rd, rs1, NULL) EXCEPT !.sz = sz]
LoadConstant(i) == Insn("load_constant", i.rd, NULL, NULL)
Assign(i, v) == Insn("assign", i.rd, v, NULL)

\* Trunc keeps the low bits of a size, sign_ext copies the highest of them.
Bits(sz) == (W * sz) \div 4
Cast(op, x, sz) ==
    LET low == x % 2^Bits(sz)
    IN  IF sz = 4 \/ (op = "sign_ext" /\ low >= 2^(Bits(sz) - 1))
        THEN Signed(low - 2^Bits(sz)) ELSE low

-----------------------------------------------------------------------------
(* What a block does.  Memory keeps the values written; a place that was   *)
(* not written has a value of its own.                                     *)

Value(m, v) == IF v \in m.consts THEN m.val[v] ELSE m.env[v]

Execute(m, i) ==
    LET a == Value(m, i.rs1)
        b == Value(m, i.rs2)
        put(x) == [m EXCEPT !.env[i.rd] = x]
    IN  CASE i.op = "load_constant" -> put(m.val[i.rd])
          [] i.op = "assign" -> put(a)
          [] i.op \in {"trunc", "sign_ext"} -> put(Cast(i.op, a, i.sz))
          [] i.op = "read" -> put(m.mem[a])
          [] i.op = "write" -> [m EXCEPT !.mem[a] = b]
          [] i.op \in Unary -> put(Meaning(i.op, a, 0))
          [] OTHER -> put(Meaning(i.op, a, b))

\* The machine after each instruction of block p, started with arguments f.
Trace(p, f) ==
    LET start == [consts |-> p.consts, val |-> p.init_val,
                  env |-> [v \in Variables |-> IF v \in DOMAIN f THEN f[v] ELSE 0],
                  mem |-> [a \in Word |-> Signed(3 * a + 1)]]
        T[k \in 0..Len(p.insns)] ==
            IF k = 0 THEN start ELSE Execute(T[k - 1], p.insns[k])
    IN  T

Block == [insns |-> insns, consts |-> consts, init_val |-> init_val]

-----------------------------------------------------------------------------
(* The passes.  A rewriting takes and returns a block; it changes the      *)
(* instruction at k, or returns the block as it is.                        *)

Replace(p, k, i) == [p EXCEPT !.insns[k] = i]

\* The instruction becomes a load of constant c.
ToConstant(p, k, c) ==
    LET i == p.insns[k]
    IN  [p EXCEPT !.insns[k] = LoadConstant(i),
                  !.consts = @ \cup {i.rd}, !.init_val[i.rd] = c]

\* optimize_constant_casts(): a literal and the truncation behind it.
FoldsCast(p, k) ==
    LET a == p.insns[k]
        b == p.insns[k + 1]
    IN  /\ k < Len(p.insns)
        /\ a.op = "load_constant" /\ b.op = "trunc"
        /\ a.rd = b.rs1 /\ b.rd # Global
FoldCast(p, k) ==
    LET b == p.insns[k + 1]
        c == Cast("trunc", p.init_val[p.insns[k].rd], b.sz)
    IN  ToConstant(Replace(p, k, LoadConstant(b)), k + 1, c)

\* mark_const()
MarksConst(p, k) ==
    LET i == p.insns[k]
    IN  /\ i.op = "assign" /\ i.rd # Global
        /\ \/ i.rs1 \in p.consts
           \/ /\ k > 1 /\ p.insns[k - 1].op = "load_constant"
              /\ p.insns[k - 1].rd = i.rs1
mark_const(p, k) == ToConstant(p, k, p.init_val[p.insns[k].rs1])

\* eval_const_arithmetic() and eval_const_unary()
Evaluates(p, k) ==
    LET i == p.insns[k]
    IN  \/ /\ i.op \in Binary /\ {i.rs1, i.rs2} \subseteq p.consts
           /\ i.op \in {"div", "mod"} => p.init_val[i.rs2] # 0
        \/ i.op \in Unary /\ i.rs1 \in p.consts
eval_const(p, k) ==
    LET i == p.insns[k]
        x(v) == IF v = NULL THEN 0 ELSE p.init_val[v]
    IN  ToConstant(p, k, Meaning(i.op, x(i.rs1), x(i.rs2)))

\* Mutant of Commutative: a comparison counted as one.
CommutativeLt == {"add", "mul", "bit_and", "bit_or", "bit_xor", "eq", "neq", "lt"}

Commutative == {"add", "mul", "bit_and", "bit_or", "bit_xor", "eq", "neq"}

\* cse(): an earlier instruction that computes the same.
SameOperands(i, j) ==
    \/ i.rs1 = j.rs1 /\ i.rs2 = j.rs2
    \/ i.op \in Commutative /\ i.rs1 = j.rs2 /\ i.rs2 = j.rs1
Earlier(p, k) ==
    {j \in 1..(k - 1) : /\ p.insns[j].op = p.insns[k].op
                        /\ SameOperands(p.insns[k], p.insns[j])}
Computed(p, k) ==
    LET i == p.insns[k]
    IN  /\ i.op \in Binary /\ Global \notin {i.rs1, i.rs2}
        /\ Earlier(p, k) # {}
cse_binary(p, k) ==
    Replace(p, k, Assign(p.insns[k], p.insns[Min(Earlier(p, k))].rd))

\* cse() at a read of an array element: the other reads behind an addition
\* of the same variables are given the value read here, and the additions
\* are taken out of the list.
IsRead(p, k) ==
    LET i == p.insns[k]
        a == p.insns[k - 1]
    IN  /\ i.op = "read" /\ k > 1 /\ a.op = "add" /\ a.rd = i.rs1
        /\ Global \notin {a.rs1, a.rs2}
SameElement(p, k) ==
    {j \in 1..(Len(p.insns) - 1) :
        /\ j # k - 1 /\ p.insns[j].op = "add" /\ p.insns[j + 1].op = "read"
        /\ p.insns[j].rs1 = p.insns[k - 1].rs1
        /\ p.insns[j].rs2 = p.insns[k - 1].rs2}
cse_read(p, k) ==
    LET same == SameElement(p, k)
        reads == [j \in DOMAIN p.insns |->
                    IF j - 1 \in same THEN Assign(p.insns[j], p.insns[k].rd)
                    ELSE p.insns[j]]
        kept == SelectSeq([j \in DOMAIN p.insns |-> j], LAMBDA j : j \notin same)
    IN  [p EXCEPT !.insns = [j \in DOMAIN kept |-> reads[kept[j]]]]

\* Both operands are one variable.
SelfOperation(p, k) ==
    LET i == p.insns[k]
        nonzero == i.rs1 \in p.consts /\ p.init_val[i.rs1] # 0
    IN  IF i.op \notin Binary \/ i.rs1 # i.rs2 THEN p
        ELSE CASE i.op = "div" /\ nonzero -> ToConstant(p, k, 1)
               [] i.op = "mod" /\ nonzero -> ToConstant(p, k, 0)
               [] i.op \in {"sub", "bit_xor", "neq", "lt", "gt"} ->
                      ToConstant(p, k, 0)
               [] i.op \in {"eq", "leq", "geq"} -> ToConstant(p, k, 1)
               [] i.op \in {"bit_and", "bit_or"} ->
                      Replace(p, k, Assign(i, i.rs1))
               [] OTHER -> p

\* The value of the second operand, when it is a constant.
Right(p, k) ==
    LET v == p.insns[k].rs2
    IN  IF v \in p.consts /\ p.insns[k].op # "write"
        THEN {p.init_val[v]} ELSE {}

\* Operations with 0, 1 and -1.
Identity(p, k) ==
    LET i == p.insns[k]
        by(c, O) == c \in Right(p, k) /\ i.op \in O
    IN  CASE \/ by(0, {"add", "sub", "bit_or", "bit_xor", "lshift", "rshift"})
             \/ by(1, {"mul", "div"})
             \/ by(-1, {"bit_and"}) -> Replace(p, k, Assign(i, i.rs1))
          [] by(0, {"mul", "bit_and"}) \/ by(1, {"mod"}) -> ToConstant(p, k, 0)
          [] by(-1, {"bit_or"}) -> ToConstant(p, k, -1)
          [] by(-1, {"mul"}) ->
                 Replace(p, k, Insn("negate", i.rd, i.rs1, NULL))
          [] OTHER -> p

\* Multiplication and division by a power of two: the constant operand gets
\* another value.
Reduced == [mul |-> "lshift", div |-> "rshift", mod |-> "bit_and"]
StrengthReduction(p, k) ==
    LET i == p.insns[k]
        c == CHOOSE c \in Right(p, k) : TRUE
    IN  IF Right(p, k) \cap Powers = {} \/ i.op \notin DOMAIN Reduced THEN p
        ELSE [p EXCEPT !.insns[k].op = Reduced[i.op],
                       !.init_val[i.rs2] = IF i.op = "mod" THEN c - 1 ELSE Log2(c)]

-----------------------------------------------------------------------------

Become(p) ==
    /\ insns' = p.insns /\ consts' = p.consts /\ init_val' = p.init_val

\* One step of the loop of optimize_constant_casts().
Casts ==
    /\ phase = "casts" /\ insn < Len(insns)
    /\ Become(IF FoldsCast(Block, insn) THEN FoldCast(Block, insn) ELSE Block)
    /\ insn' = insn + 1
    /\ UNCHANGED <<phase, before>>
CastsDone ==
    /\ phase = "casts" /\ insn >= Len(insns)
    /\ phase' = "visit" /\ insn' = 1
    /\ UNCHANGED <<insns, consts, init_val, before>>

\* The steps of the loop of optimize(), by what happens to the instruction.
\* A literal is marked, which is not a change that ends the step.
Marked ==
    LET i == insns[insn]
    IN  IF i.op = "load_constant" THEN [Block EXCEPT !.consts = @ \cup {i.rd}]
        ELSE Block
Visits == phase = "visit" /\ insn <= Len(insns)
Folds == MarksConst(Block, insn) \/ Evaluates(Block, insn)

ConstFolding ==
    /\ Visits
    /\ \/ MarksConst(Block, insn) /\ Become(mark_const(Block, insn))
       \/ Evaluates(Block, insn) /\ Become(eval_const(Block, insn))
    /\ insn' = insn + 1
    /\ UNCHANGED <<phase, before>>

Cse ==
    /\ Visits /\ ~Folds
    /\ \/ Computed(Block, insn) /\ Become(cse_binary(Block, insn))
       \/ IsRead(Block, insn) /\ Become(cse_read(Block, insn))
    /\ insn' = insn + 1
         - Cardinality({j \in SameElement(Block, insn) :
                            IsRead(Block, insn) /\ j < insn})
    /\ UNCHANGED <<phase, before>>

\* In the order of the source: what one part makes of the instruction is
\* what the next one looks at.
Simplify ==
    /\ Visits /\ ~Folds
    /\ ~Computed(Block, insn) /\ ~IsRead(Block, insn)
    /\ Become(StrengthReduction(Identity(SelfOperation(Marked, insn), insn), insn))
    /\ insn' = insn + 1
    /\ UNCHANGED <<phase, before>>

Finished == phase = "visit" /\ insn > Len(insns)
Stop == Finished /\ UNCHANGED vars

Next == Casts \/ CastsDone \/ ConstFolding \/ Cse \/ Simplify \/ Stop

-----------------------------------------------------------------------------
(* The blocks the parser and the SSA construction leave behind.            *)

Operands(k) == Params \cup {Temp(j) : j \in 1..(k - 1)}

Literal(k) == Insn("load_constant", Temp(k), NULL, NULL)
Alu(k, O) ==
    {Insn(op, Temp(k), v, w) : op \in O \cap Binary, v, w \in Operands(k)}
    \cup {Insn(op, Temp(k), v, NULL) : op \in O \cap Unary, v \in Operands(k)}
Copies(k) ==
    {Insn("assign", Temp(k), v, NULL) : v \in Operands(k)}
    \cup {Sized(op, Temp(k), v, sz) : op \in {"trunc", "sign_ext"},
                                      v \in Operands(k), sz \in {1, 2, 4}}

Base(k, a, b) == Insn("add", Temp(k), a, b)
Read(k, a) == Insn("read", Temp(k), a, NULL)
Write(a, v) == Insn("write", NULL, a, v)

Reads(i) == {i.rs1, i.rs2} \ {NULL}
Readers(p, v) == {k \in DOMAIN p : v \in Reads(p[k])}

\* A variable that is a constant, or a copy of one.
IsConstant(p, v) ==
    \E k \in DOMAIN p : p[k].rd = v /\ p[k].op \in {"load_constant", "assign"}

\* An element is read, something is written, and the element is read again.
ReadAgain(p) ==
    LET b == [insns |-> p]
    IN  \E k, j \in DOMAIN p :
            /\ IsRead(b, k) /\ k < j /\ p[j].op = "write"
            /\ \E n \in SameElement(b, k) : j < n

Expected(p) ==
    \* What is computed is used.
    /\ \A k \in 1..(Len(p) - 1) :
           p[k].rd \notin {NULL, Global} /\ p[k].op # "read" =>
               Readers(p, p[k].rd) # {}
    \* The temporary of a literal has one use.
    /\ \A k \in DOMAIN p : p[k].op = "load_constant" =>
                               Cardinality(Readers(p, p[k].rd)) = 1
    \* A constant that strength reduction overwrites has no other use.
    /\ \/ "shared" \in Uses
       \/ \A k \in DOMAIN p :
              p[k].op \in DOMAIN Reduced /\ IsConstant(p, p[k].rs2) =>
                  Readers(p, p[k].rs2) = {k}
    /\ \A k \in DOMAIN p : p[k].op = "read" =>
           \* The address is not used again.
           /\ "address" \in Uses \/ Readers(p, p[k].rs1) = {k}
           \* It is not a read of something else that follows an addition.
           /\ \/ "other" \in Uses
              \/ k > 1 /\ p[k - 1].op = "add" => p[k - 1].rd = p[k].rs1
    /\ "stored" \in Uses \/ ~ReadAgain(p)

Begin(p, c, d) ==
    /\ Expected(p)
    /\ phase = "casts" /\ insns = p /\ consts = {} /\ insn = 1
    /\ init_val = [v \in Variables |-> IF v = Temp(1) THEN c
                                       ELSE IF v = Temp(2) THEN d ELSE 0]
    /\ before = Block

WithLiteral ==
    \E c \in Imms : \E a \in Alu(2, Ops) \cup Copies(2) :
        \/ Begin(<<Literal(1), a>>, c, 0)
        \/ \E b \in Alu(3, Ops) : Begin(<<Literal(1), a, b>>, c, 0)
        \/ /\ a = Insn("assign", Temp(2), Temp(1), NULL)
           /\ \E b \in Alu(3, Ops), e \in Alu(4, LongOps) :
                  Begin(<<Literal(1), a, b, e>>, c, 0)
TwoLiterals ==
    \E c, d \in Imms : \E a \in Alu(3, Ops) : \E b \in Alu(4, LongOps) :
        Begin(<<Literal(1), Literal(2), a, b>>, c, d)
Computes ==
    \E a \in Alu(1, Ops) \cup Copies(1) : \E b \in Alu(2, Ops) :
        \/ Begin(<<a, b>>, 0, 0)
        \/ \E c \in Alu(3, LongOps) : Begin(<<a, b, c>>, 0, 0)

\* x[y], v[w] (or something else that is read there) and what is computed
\* from them; the end may be a write.
Elements ==
    \E x, y, v, w \in Params, z \in Params \cup {Temp(3)} :
        LET p == <<Base(1, x, y), Read(2, Temp(1)), Base(3, v, w), Read(4, z)>>
        IN  \/ \E a \in Alu(5, LongOps) : Begin(Append(p, a), 0, 0)
            \/ \E t \in Params : Begin(Append(p, Write(t, Temp(4))), 0, 0)

\* x[y] is read, an element is written, v[w] is read, and something is
\* computed from what was read.
ElementStored ==
    \E x, y, s, t, v, w \in Params, z \in Params \cup {Temp(2)} :
        \E a \in Alu(7, LongOps) :
            /\ Reads(a) = {Temp(2), Temp(6)}
            /\ Begin(<<Base(1, x, y), Read(2, Temp(1)),
                       Base(3, s, t), Write(Temp(3), z),
                       Base(5, v, w), Read(6, Temp(5)), a>>, 0, 0)

\* The global variable is assigned between two uses.
Globals ==
    \E op \in LongOps, v \in Params, w \in Params \cup {Temp(1)} :
        Begin(<<Insn(op, Temp(1), Global, v), Insn("assign", Global, w, NULL),
                Insn(op, Temp(3), Global, v),
                Insn("bit_xor", Temp(4), Temp(1), Temp(3))>>, 0, 0)

Init ==
    \/ WithLiteral \/ TwoLiterals \/ Computes
    \/ Elements \/ ElementStored \/ Globals

Spec == Init /\ [][Next]_vars

-----------------------------------------------------------------------------
(* Properties.                                                             *)

\* A shift or a mask is a division only for dividends that are not negative.
NegativeDividend(t, p) ==
    \E k \in DOMAIN p.insns :
        /\ p.insns[k].op \in {"div", "mod"}
        /\ Value(t[k - 1], p.insns[k].rs1) < 0

\* Whatever the arguments, the optimized block computes what the block as
\* it was built computes: the same last value, the same memory and the same
\* global variable.
SameResult ==
    Finished =>
        \A f \in [Params \cup {Global} -> Sample] :
            LET was == Trace(before, f)[Len(before.insns)]
                is == Trace(Block, f)[Len(insns)]
                last == before.insns[Len(before.insns)].rd
            IN  \/ "negative" \notin Uses /\ NegativeDividend(Trace(before, f), before)
                \/ /\ is.mem = was.mem
                   /\ is.env[Global] = was.env[Global]
                   /\ last # NULL => Value(is, last) = Value(was, last)
=============================================================================
