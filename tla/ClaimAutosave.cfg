\* Two mutating threads, no crash and no failing call.
SPECIFICATION Spec
CONSTANTS
    Threads = {t1, t2}
    Inodes = {i1, i2, i3, i4}
    None = None
    Hole = Hole
    Unflushed = {0, 1, 2}
    Fsync = TRUE
    TailRecovery = TRUE
    IoFailures = FALSE
    PowerLoss = FALSE
    IncarnationMax = 9
    MaxGeneration = 2
    MaxBoots = 0
INVARIANT QuietSnapshotIsCurrent
CHECK_DEADLOCK FALSE
