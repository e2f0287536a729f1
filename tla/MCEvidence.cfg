CONSTANTS
    NoValue = NoValue
    Sources = {s1, s2}
    Attributes = {a1, a2}
    Values = {v1, v2}
    Ports = {p1}
    MaxClaims = 3
    MaxDeclarations = 1
    MaxPortDeclarations = 2
    MaxPorts = 1
    MaxHistory = 2
    MaxEpoch = 3
    MaxIncarnation = 2
    MaxStatements = 4
SPECIFICATION Spec
SYMMETRY Symmetry
INVARIANTS
    ViewIsLatest
    RevisionFits
    StoreBudgets
CHECK_DEADLOCK FALSE
