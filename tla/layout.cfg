SPECIFICATION Spec
CONSTANTS
    N = 5
    W = 12
    ImmBits = 6
    CodeStart = 100
    DataStart = 900
    Plt = 40
    Libc = 20
    Top = 1600
    Stacks = {20, 32}
    Bodies = {"none", "call", "indirect", "extern"}
    MaxBranches = 1
    Includes = {}
INVARIANTS
    PlacedAsCounted
    GlobalsFound
PROPERTIES
    FollowsFlow
    ReturnsRestore
