SPECIFICATION Spec
CONSTANTS
    N = 5
    Graphs <- FlowGraphs
    Directions = {"fwd", "rev"}
INVARIANTS
    TypeOK
    CandidatesAbove
    IdomCorrect
    FrontierCorrect
PROPERTIES
    Ends
