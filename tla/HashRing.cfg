\* Three nodes with two vnodes each anywhere on a ring of seven positions, lists
\* of two replicas.
CONSTANTS
    n1 = n1
    n2 = n2
    n3 = n3
    Vacant = Vacant
    Out = Out
    Ids = {n1, n2, n3}
    Addresses = {"old", "new"}
    Size = 7
    VnodesPerNode = 2
    ReplicationFactor = 2
SYMMETRY Symmetry
SPECIFICATION Spec
INVARIANTS
    RingIsMembership
    ListsAreNearest
PROPERTIES
    OnlyOneNodeMoves
