CONSTANTS
    Nothing = Nothing
    SampleBudget = 2
    RecordLimit = 1
    MaxSources = 1
    MaxModules = 2
    MaxRules = 1
    Slots = {slot1}
    MaxMutations = 7
    MaxUnsaved = 1
    MaxLoads = 2
SPECIFICATION LSpec
INVARIANTS
    NothingDangles
    CountersAhead
    NeverAGap
CHECK_DEADLOCK FALSE
