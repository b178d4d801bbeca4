SPECIFICATION Spec
CONSTANTS
    vx = vx
    vy = vy
    vp = vp
    vc = vc
    vt = vt
    vg = vg
    Junk = Junk
    RetVal = RetVal
    None = None
    Local = {vx, vc, vt}
    Global = {vg}
    ConstVars = {vc}
    PhiVars = {}
    AddrVars = {vx, vc}
    Params <- OneParam
    REG_CNT = 4
    MAX_ARGS_IN_REG = 2
    MAX_PARAMS = 3
    Uses = {}
    MaxIdx = 2
    MaxBlocks = 1
INVARIANTS
    TypeOK
    OperandsFound
    RegsTruthful
    ExposedInMemory
