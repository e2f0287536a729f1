\* Two callers race on two modules and two slots: fence tokens, stale views,
\* source epochs, incarnations, attachments and the lifecycle history.
SPECIFICATION Spec
CONSTANTS
    Clients = {c1, c2}
    SourceNames = {n1, n2}
    Instances = {i1}
    Keys = {k1, k2}
    Slots = {s1, s2}
    NoInstance = NoInstance
    NoRecord = NoRecord
    MaxSources = 2
    MaxModules = 2
    MaxAttachments = 2
    MaxLifecycleHistory = 3
    CounterMax = 2
    MaxGeneration = 5
SYMMETRY Symmetry
CONSTRAINT BeforeLastCommit
INVARIANTS
    TypeOK
    FencedViewIsCurrent
    AttachedWithinEpoch
    AttachedWithinIncarnation
    SupersededSlotsReleased
    HistoryExplainsState
PROPERTIES
    LifecycleFollowsTable
