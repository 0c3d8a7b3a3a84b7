\* Two puts of one key at the same time, delivered to the replicas in opposite orders.
CONSTANTS
    n1 = n1
    n2 = n2
    n3 = n3
    Absent = Absent
    Nodes = {n1, n2}
    Coordinators = {n1, n2}
    Seeds <- MeshSeeds
    Preference <- TwoReplicas
    ReadQuorum = 1
    WriteQuorum = 1
    Overrides = {0}
    Timestamps = {1}
    Ttls = {FALSE}
    Kinds = {"put"}
    MaxOps = 2
    MaxRare = 0
SPECIFICATION Spec
INVARIANTS
    ReplicasConverge
CHECK_DEADLOCK FALSE
