\* Two threads whose saves do not overlap: kills, losses of power, restarts and
\* failing calls.
SPECIFICATION Spec
CONSTANTS
    Threads = {t1, t2}
    Inodes = {i1, i2, i3, i4}
    None = None
    Hole = Hole
    Unflushed = {0, 1, 2}
    Fsync = TRUE
    TailRecovery = TRUE
    IoFailures = TRUE
    PowerLoss = TRUE
    IncarnationMax = 2
    MaxGeneration = 3
    MaxBoots = 2
SYMMETRY Symmetry
CONSTRAINT Covered
INVARIANTS SnapshotIntact SavedIsRecoverable SavedDecisionsFenced
PROPERTY ImplementsStore
