\* Two puts by one coordinator within a millisecond, then a get.
CONSTANTS
    n1 = n1
    n2 = n2
    n3 = n3
    Absent = Absent
    Nodes = {n1, n2}
    Coordinators = {n1, n2}
    Seeds <- MeshSeeds
    Preference <- TwoReplicas
    ReadQuorum = 1
    WriteQuorum = 1
    Overrides = {0}
    Timestamps = {1}
    Ttls = {FALSE}
    Kinds = {"put", "get"}
    MaxOps = 3
    MaxRare = 1
SPECIFICATION Spec
INVARIANTS
    NewestOfALineWins
CHECK_DEADLOCK FALSE
