\* A chain of three nodes, each naming the next one as its seed: gossip rounds,
\* messages that overtake each other, timeouts, a crash at a time and a restart,
\* after which heartbeats start over while older messages are still under way.
\* n3 hears of n1 only through n2.
CONSTANTS
    n1 = n1
    n2 = n2
    n3 = n3
    Nodes = {n1, n2, n3}
    Seeds <- ChainSeeds
    Fanout = 1
    MaxHeartbeat <- TwoOneNone
    MaxDown = 1
    MaxRestarts = 1
    MaxInTransit = 2
SPECIFICATION FairSpec
INVARIANTS
    RingFollowsStatus
    HeartbeatsAreReal
PROPERTIES
    RecordsMoveForward
    ImplementsMembership
    DeadLeaveTheRing
CHECK_DEADLOCK FALSE
