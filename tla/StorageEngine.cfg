\* Two writers at once, the flush, the reaper, and up to three deaths of the
\* process, torn appends and failed appends.
CONSTANTS
    k1 = k1
    k2 = k2
    Absent = Absent
    Garbled = Garbled
    Keys = {k1, k2}
    TombstoneTtl = 1
    EntryBytes = 1
    MaxSizeBytes = 9
    MaxSnapshots = 1
    Lens = {1}
    Deadlines <- MCNever
    MaxInFlight = 2
    MaxWrites = 3
    MaxTime = 1
    MaxFaults = 3
    MayTear = TRUE
SYMMETRY Symmetry
SPECIFICATION Spec
INVARIANTS
    TypeOK
    SafeKeysRecoverable
    SizeAccurate
    TruncateIsCovered
PROPERTIES
    SequencesIncrease
    RestartKeepsSafeKeys
    ImplementsDurableStore
CHECK_DEADLOCK FALSE
