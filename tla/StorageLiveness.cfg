\* Progress of the snapshot task, I/O errors, a crash and values that expire
\* included.
CONSTANTS
    k1 = k1
    k2 = k2
    Absent = Absent
    Garbled = Garbled
    Keys = {k1}
    TombstoneTtl = 1
    EntryBytes = 1
    MaxSizeBytes = 2
    MaxSnapshots = 1
    Lens = {1}
    Deadlines <- MCDeadlines
    MaxInFlight = 2
    MaxWrites = 2
    MaxTime = 1
    MaxFaults = 1
    MayTear = TRUE
SPECIFICATION FairSpec
INVARIANTS
    SafeKeysRecoverable
    SizeAccurate
PROPERTIES
    EventuallyInSnapshot
    OnlyWritesChangeReads
    ImplementsDurableStore
CHECK_DEADLOCK FALSE
