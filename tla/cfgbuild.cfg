SPECIFICATION Spec
CONSTANTS
    MAX_BB_PRED = 8
    Languages <- StructuredAndJumps
    Labels = {l1, l2}
    Uses = {}
    MaxStmts = 4
INVARIANTS
    NeverAborts
    FlowPreserved
    WellFormed
    ExitReachable
    PredsReachable
