-------------------------------- MODULE Word --------------------------------
(***************************************************************************)
(* Signed integers of W bits and what the operations of the intermediate   *)
(* code mean on them: the reference the rewritings of the optimizer, the   *)
(* peephole pass and the code generators are compared with.                *)
(***************************************************************************)
EXTENDS Integers, FiniteSetsExt, TLC

CONSTANT W      \* bits of an int; 32 in the compiler

ASSUME WidthAssumption == W \in Nat \ {0, 1}

Word == -(2^(W - 1))..(2^(W - 1) - 1)
Signed(v) == ((v + 2^(W - 1)) % 2^W) - 2^(W - 1)
Unsigned(v) == v % 2^W
Bool(p) == IF p THEN 1 ELSE 0
\* The low bits of v, as a signed number of so many bits.
SignExtend(v, bits) ==
    LET low == v % 2^bits
    IN  IF low >= 2^(bits - 1) THEN low - 2^bits ELSE low

\* Memory of the machines: a cell that was not written holds its address; a
\* store of fewer bits leaves the others.
At(mem, a) == IF a \in DOMAIN mem THEN mem[a] ELSE a
Store(mem, a, v, bits) ==
    (a :> Signed(At(mem, a) - (At(mem, a) % 2^bits) + (v % 2^bits))) @@ mem

Bit(v, k) == (v \div 2^k) % 2
Bitwise(Op(_, _), x, y) ==
    Signed(MapThenSumSet(LAMBDA k : 2^k * Op(Bit(x, k), Bit(y, k)), 0..(W - 1)))

\* Division truncates; by zero it is what the emulation leaves.
Magnitude(v) == IF v < 0 THEN -v ELSE v
Quotient(x, y) ==
    LET q == Magnitude(x) \div Magnitude(y)
    IN  IF y = 0 THEN 0 ELSE Signed(IF (x < 0) = (y < 0) THEN q ELSE -q)
Remainder(x, y) == IF y = 0 THEN x ELSE Signed(x - y * Quotient(x, y))

Binary == {"add", "sub", "mul", "div", "mod", "lshift", "rshift",
           "bit_and", "bit_or", "bit_xor",
           "eq", "neq", "lt", "gt", "leq", "geq"}
Unary == {"negate", "bit_not", "log_not"}

\* x op y; y is not used by the unary ones.
Meaning(op, x, y) ==
    CASE op = "add" -> Signed(x + y)
      [] op = "sub" -> Signed(x - y)
      [] op = "mul" -> Signed(x * y)
      [] op = "div" -> Quotient(x, y)
      [] op = "mod" -> Remainder(x, y)
      [] op = "lshift" -> Signed(x * 2^(y % W))
      [] op = "rshift" -> x \div 2^(y % W)
      [] op = "bit_and" -> Bitwise(LAMBDA a, b : a * b, x, y)
      [] op = "bit_or" -> Bitwise(LAMBDA a, b : a + b - a * b, x, y)
      [] op = "bit_xor" -> Bitwise(LAMBDA a, b : (a + b) % 2, x, y)
      [] op = "eq" -> Bool(x = y)
      [] op = "neq" -> Bool(x # y)
      [] op = "lt" -> Bool(x < y)
      [] op = "gt" -> Bool(x > y)
      [] op = "leq" -> Bool(x <= y)
      [] op = "geq" -> Bool(x >= y)
      [] op = "negate" -> Signed(-x)
      [] op = "bit_not" -> -x - 1
      [] op = "log_not" -> Bool(x = 0)

\* The powers of two an int can hold, and the logarithm, rounded down.
Powers == {2^k : k \in 0..(W - 2)}
Log2(p) == Max({k \in 0..(W - 2) : 2^k <= p})
=============================================================================
