SPECIFICATION Spec
CONSTANTS
    N = 6
    MaxBranches = 2
    Void = {"if"}
    MaxLive = 2
INVARIANTS
    SameOrder
    LiveExact
    AssignedBefore
PROPERTIES
    Ends
