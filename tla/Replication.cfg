\* Two requests of any kind at once, any of three nodes coordinating, two of them
\* replicas, RPCs that may all be lost; R + W > N.
CONSTANTS
    n1 = n1
    n2 = n2
    n3 = n3
    Absent = Absent
    Nodes = {n1, n2, n3}
    Coordinators = {n1, n2, n3}
    Seeds <- MeshSeeds
    Preference <- TwoReplicas
    ReadQuorum = 2
    WriteQuorum = 1
    Overrides = {0}
    Timestamps = {1}
    Ttls = {FALSE}
    Kinds = {"put", "delete", "get"}
    MaxOps = 2
    MaxRare = 1
SPECIFICATION FairSpec
INVARIANTS
    AcknowledgedWritesReachQuorum
    ReadsMeetWrites
    PutsAreFound
    ClocksCoverThePast
PROPERTIES
    RequestsEnd
CHECK_DEADLOCK FALSE
