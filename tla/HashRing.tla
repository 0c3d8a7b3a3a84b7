------------------------------ MODULE HashRing ------------------------------
(***************************************************************************)
(* The consistent hash ring (src/src/ring/consistent_hash.rs): a map from  *)
(* positions to nodes under one RwLock.  Each node holds vnodes_per_node   *)
(* positions, those its id hashes to.                                      *)
(*                                                                         *)
(* SHA-256 is external: Init gives each node any positions, which no other *)
(* node has, and they never change.  A key is the position it hashes to.   *)
(***************************************************************************)
EXTENDS Integers, FiniteSets, SequencesExt

CONSTANTS
    Ids,               \* node ids
    Addresses,         \* addresses a node may be added with
    Size,              \* bound: positions of the ring (2^64 in the code)
    VnodesPerNode,     \* vnodes_per_node
    ReplicationFactor, \* replication_factor
    Vacant,            \* a position without an entry
    Out                \* no address: the node is not in the ring

Positions == 0..(Size - 1)
Node == [id: Ids, address: Addresses]

ASSUME HashRingAssumption ==
    /\ Size \in Nat \ {0} /\ VnodesPerNode \in Nat /\ ReplicationFactor \in Nat
    /\ Vacant \notin Node /\ Out \notin Addresses

VARIABLES
    vnodes,   \* vnodes[n]: the positions n's id hashes to
    ring,     \* the BTreeMap, total on Positions
    members   \* history: the address each node was last added with, or Out

vars == <<vnodes, ring, members>>

Init ==
    /\ vnodes \in [Ids -> {s \in SUBSET Positions : Cardinality(s) = VnodesPerNode}]
    /\ \A n, m \in Ids : n # m => vnodes[n] \cap vnodes[m] = {}
    /\ ring = [p \in Positions |-> Vacant]
    /\ members = [n \in Ids |-> Out]

-----------------------------------------------------------------------------
\* Mutant of AddNode: a position that has an entry keeps it.
AddNodeIfVacant(n, a) ==
    /\ ring' = [p \in Positions |->
                   IF p \in vnodes[n] /\ ring[p] = Vacant
                   THEN [id |-> n, address |-> a] ELSE ring[p]]
    /\ members' = [members EXCEPT ![n] = a]
    /\ UNCHANGED vnodes

\* add_node, for a node that is new or already there.
AddNode(n, a) ==
    /\ ring' = [p \in Positions |->
                   IF p \in vnodes[n] THEN [id |-> n, address |-> a] ELSE ring[p]]
    /\ members' = [members EXCEPT ![n] = a]
    /\ UNCHANGED vnodes

\* remove_node, for a node that is there or not.
RemoveNode(n) ==
    /\ ring' = [p \in Positions |->
                   IF ring[p] # Vacant /\ ring[p].id = n THEN Vacant ELSE ring[p]]
    /\ members' = [members EXCEPT ![n] = Out]
    /\ UNCHANGED vnodes

Next ==
    \E n \in Ids : RemoveNode(n) \/ \E a \in Addresses : AddNode(n, a)

Spec == Init /\ [][Next]_vars

-----------------------------------------------------------------------------
(***************************************************************************)
(* Lookups.                                                                *)
(***************************************************************************)

\* Mutant of Walk: the walk does not wrap around.
WalkToTheEnd(r, key) == [i \in 1..(Size - key) |-> r[key + i - 1]]

\* The positions from the key's clockwise, then all positions again: the chain
\* of the two iterators, with Vacant where the map has no entry.
Walk(r, key) ==
    LET up  == [i \in 1..(Size - key) |-> r[key + i - 1]]
        all == [i \in 1..Size |-> r[i - 1]]
    IN  up \o all

\* Mutant of Collect: the list may name a node twice.
CollectRepeated(list, node) ==
    IF \/ node = Vacant
       \/ list # << >> /\ Len(list) >= ReplicationFactor
    THEN list ELSE Append(list, node)

\* One round of the loop in get_nodes, which compares the length only after it
\* has pushed a node.  A vacant position has no round: it leaves the list as it
\* is.
Collect(list, node) ==
    IF \/ node = Vacant
       \/ \E i \in DOMAIN list : list[i].id = node.id
       \/ list # << >> /\ Len(list) >= ReplicationFactor
    THEN list ELSE Append(list, node)

\* get_nodes: the preference list.
GetNodes(r, key) == FoldLeft(Collect, << >>, Walk(r, key))

\* get_node: the first entry at or after the key, else the first of all.
GetNode(r, key) ==
    LET above == {p \in Positions : p >= key /\ r[p] # Vacant}
        from  == IF above # {} THEN above ELSE {p \in Positions : r[p] # Vacant}
    IN  IF from = {} THEN Vacant
        ELSE r[CHOOSE p \in from : \A q \in from : p <= q]

\* is_responsible.
IsResponsible(r, n, key) ==
    LET list == GetNodes(r, key)
    IN  \E i \in DOMAIN list : list[i].id = n

-----------------------------------------------------------------------------
(***************************************************************************)
(* Properties.                                                             *)
(***************************************************************************)

\* The ring is a function of the membership alone: in whatever order nodes
\* were added, added again with another address, and removed, two nodes that
\* agree on the members agree on the ring, and no vnode keeps an old address.
RingIsMembership ==
    ring = [p \in Positions |->
              IF \E n \in Ids : members[n] # Out /\ p \in vnodes[n]
              THEN LET n == CHOOSE n \in Ids : p \in vnodes[n]
                   IN  [id |-> n, address |-> members[n]]
              ELSE Vacant]

Members == {n \in Ids : members[n] # Out /\ vnodes[n] # {}}

\* How far clockwise from the key the first vnode of n is.
Distance(n, key) ==
    LET d == {(p - key) % Size : p \in vnodes[n]}
    IN  CHOOSE i \in d : \A j \in d : i <= j

\* The preference list is what its definition promises for every key: the
\* replication_factor members with the nearest vnodes, nearest first, none
\* twice, all of them when there are fewer; and get_node is the first of it.
ListsAreNearest ==
    \A key \in Positions :
        LET list == GetNodes(ring, key)
            want == IF ReplicationFactor = 0 THEN 1 ELSE ReplicationFactor
            ids  == {list[i].id : i \in DOMAIN list}
        IN  /\ ids \subseteq Members
            /\ Len(list) = Cardinality(ids)
            /\ Len(list) = IF Cardinality(Members) < want
                           THEN Cardinality(Members) ELSE want
            /\ \A i, j \in DOMAIN list :
                  i < j => Distance(list[i].id, key) < Distance(list[j].id, key)
            /\ \A n \in Members \ ids, i \in DOMAIN list :
                  Distance(list[i].id, key) < Distance(n, key)
            /\ GetNode(ring, key) = IF list = << >> THEN Vacant ELSE list[1]
            /\ \A n \in Ids : IsResponsible(ring, n, key) <=> n \in ids

\* A preference list without node n.
Others(list, n) ==
    IF \E i \in DOMAIN list : list[i].id = n
    THEN RemoveAt(list, CHOOSE i \in DOMAIN list : list[i].id = n)
    ELSE list

\* Minimal disruption (test_minimal_disruption_on_add): when node n joins,
\* leaves or changes its address, the replica lists of all keys keep the other
\* nodes they had, in their order, except that at most one of them enters or
\* leaves at the end.
OnlyOneNodeMoves ==
    [][\A n \in Ids, key \in Positions :
          (/\ members'[n] # members[n]
           /\ \A m \in Ids \ {n} : members'[m] = members[m])
          => LET old == Others(GetNodes(ring, key), n)
                 new == Others(GetNodes(ring', key), n)
             IN  /\ IsPrefix(old, new) \/ IsPrefix(new, old)
                 /\ Len(new) - Len(old) \in {-1, 0, 1}]_vars
=============================================================================
