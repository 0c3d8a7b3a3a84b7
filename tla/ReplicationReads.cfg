\* A put, then a get whose RPCs fail, with the default quorums.
CONSTANTS
    n1 = n1
    n2 = n2
    n3 = n3
    Absent = Absent
    Nodes = {n1, n2, n3}
    Coordinators = {n1, n2, n3}
    Seeds <- MeshSeeds
    Preference <- ThreeReplicas
    ReadQuorum = 2
    WriteQuorum = 2
    Overrides = {0}
    Timestamps = {1}
    Ttls = {FALSE}
    Kinds = {"put", "get"}
    MaxOps = 2
    MaxRare = 1
SPECIFICATION Spec
INVARIANTS
    StronglyConsistent
CHECK_DEADLOCK FALSE
