\* The first gossip message between two nodes.
CONSTANTS
    n1 = n1
    n2 = n2
    n3 = n3
    Nodes = {n1, n2}
    Seeds <- PairSeeds
    Fanout = 1
    MaxHeartbeat <- OneEach
    MaxDown = 0
    MaxRestarts = 0
    MaxInTransit = 1
SPECIFICATION Spec
INVARIANTS
    ReceiverFillsAddress
CHECK_DEADLOCK FALSE
