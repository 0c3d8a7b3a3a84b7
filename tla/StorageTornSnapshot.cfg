\* A crash in the middle of a save.
CONSTANTS
    k1 = k1
    k2 = k2
    Absent = Absent
    Garbled = Garbled
    Keys = {k1}
    TombstoneTtl = 1
    EntryBytes = 1
    MaxSizeBytes = 3
    MaxSnapshots = 1
    Lens = {1}
    Deadlines <- MCNever
    MaxInFlight = 1
    MaxWrites = 2
    MaxTime = 1
    MaxFaults = 1
    MayTear = FALSE
SPECIFICATION Spec
INVARIANTS
    OpenSucceeds
CHECK_DEADLOCK FALSE
