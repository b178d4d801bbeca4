SPECIFICATION Spec
CONSTANTS
    N = 5
    Kinds = {"param", "local", "global", "ret"}
    MaxBranches = 2
    MaxDefs = 2
    MaxUses = 1
    Reopened = FALSE
INVARIANTS
    UsesRight
    StackIsPath
    SingleAssignment
    PhiOperands
