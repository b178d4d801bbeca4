SPECIFICATION Spec
CONSTANTS
    W = 4
    Regs = {0, 1, 4}
    Offsets = {0, 4}
    Imms <- SmallImms
    Ops = {"add", "sub", "mul", "div", "mod", "lshift", "rshift", "bit_and", "bit_or", "bit_xor", "eq", "neq", "lt", "geq", "negate", "bit_not", "log_not"}
    LongOps = {"sub"}
    Sample <- BothSigns
    Uses = {}
INVARIANTS
    SameEffect
