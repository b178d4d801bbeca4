SPECIFICATION Spec
CONSTANTS
    Directives <- TheDirectives
    MaxLines = 4
    Conds <- TheConds
    MaxConds = 6
    Bodies <- TheBodies
    Expressions <- TheExpressions
    Headers <- TheHeaders
    Includes = {}
INVARIANTS
    SameText
    Refused
