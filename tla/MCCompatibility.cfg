CONSTANTS
    NoValue = NoValue
    Sources = {s1, s2}
    Kinds <- MCKinds
    Said <- MCSaid
    Catalogue <- MCCatalogue
    RuleBudget = 2
    QueryLimits = {1, 4}
    MaxGeneration = 6
SPECIFICATION Spec
SYMMETRY Symmetry
INVARIANTS
    VerifiedDecisionHolds
    ClosedIsFinal
CHECK_DEADLOCK FALSE
