--------------------------- MODULE MCReplication ---------------------------
(***************************************************************************)
(* Instances of Replication for TLC.                                       *)
(***************************************************************************)
EXTENDS Replication

CONSTANTS n1, n2, n3

\* A cluster in which everybody knows everybody.
MeshSeeds == [n \in Nodes |-> Nodes \ {n}]

\* The first few members met on the way around the ring from the key.
FirstOf(count) ==
    [s \in SUBSET Nodes |->
        LET present == SelectSeq(<<n1, n2, n3>>, LAMBDA n : n \in s)
        IN  SubSeq(present, 1, IF Len(present) < count THEN Len(present) ELSE count)]

ThreeReplicas == FirstOf(3)
TwoReplicas == FirstOf(2)
=============================================================================
