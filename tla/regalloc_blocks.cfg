SPECIFICATION Spec
CONSTANTS
    vx = vx
    vy = vy
    vp = vp
    vc = vc
    vt = vt
    vg = vg
    Junk = Junk
    RetVal = RetVal
    None = None
    Local = {vp, vt}
    Global = {vg, vy}
    ConstVars = {}
    PhiVars = {vp}
    AddrVars = {}
    Params <- NoParams
    REG_CNT = 3
    MAX_ARGS_IN_REG = 1
    MAX_PARAMS = 0
    Uses = {}
    MaxIdx = 1
    MaxBlocks = 3
SYMMETRY Symmetric
INVARIANTS
    OperandsFound
    NothingLost
    IndInv
