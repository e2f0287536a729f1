\* Two sources report one metric of a module and of one of its lanes.
SPECIFICATION Spec
CONSTANTS
    Metrics = {temperature}
    Lanes = {lane}
    ModuleLane = ModuleLane
    NumSources = 2
    Values = {1, 3}
    Absent = Absent
    banded = banded
    floor = floor
    Policies = {banded, floor}
    Terms <- MCTerms
    Published <- MCPublished
    NoPolicy = NoPolicy
    Declared = {}
    Sampled <- MCSampled
    MaxSamplesPerSeries = 3
    MaxSamplesPerModule = 2
    MaxThresholds = 2
    MaxClaimHistory = 1
    MaxFutureSkew = 0
    LongestRun = 2
    MaxDelay = 1
    MaxSteady = 3
    MaxBoots = 2
    MaxGeneration = 5
INVARIANTS
    SampleBudgets
    KeptInOrder
    OneThreshold
    LatchMovesOnRun
    SustainedFaultLatched
    HealthyIsEarned
PROPERTIES
    LoadKeepsVerdicts
CHECK_DEADLOCK FALSE
