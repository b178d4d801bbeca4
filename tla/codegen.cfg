SPECIFICATION Spec
CONSTANTS
    W = 8
    ImmBits = 4
    DataStart = 50
    Includes = {}
    Sample <- Values
    Numbers <- Borders
INVARIANTS
    Correct
PROPERTIES
    Ends
