--------------------------- MODULE HashRingProofs ---------------------------
(***************************************************************************)
(* Proofs about HashRing, for any number of nodes, vnodes and positions    *)
(* and any replication factor, as long as no two nodes share a position:   *)
(* the ring depends on the membership alone, the preference lists are the  *)
(* nearest members, and a change of one node moves at most one other.      *)
(***************************************************************************)
EXTENDS HashRing, FoldLemmas, TLAPS

\* What Init fixes and no operation changes, and the type of the history.
Hashed ==
    /\ vnodes \in [Ids -> SUBSET Positions]
    /\ \A n, m \in Ids : n # m => vnodes[n] \cap vnodes[m] = {}
    /\ members \in [Ids -> Addresses \cup {Out}]

\* RingIsMembership position by position: an entry belongs to the one node
\* that hashes there, and carries the address it was last added with.
Entries ==
    /\ ring \in [Positions -> Node \cup {Vacant}]
    /\ \A p \in Positions :
          /\ ring[p] # Vacant =>
                /\ p \in vnodes[ring[p].id]
                /\ ring[p].address = members[ring[p].id]
          /\ \A n \in Ids : p \in vnodes[n] /\ members[n] # Out => ring[p] # Vacant

RingInv == Hashed /\ Entries

LEMMA RingInit == Init => RingInv
  BY DEF Init, RingInv, Hashed, Entries

LEMMA RingNext == RingInv /\ [Next]_vars => RingInv'
<1> SUFFICES ASSUME RingInv, [Next]_vars PROVE RingInv'
  OBVIOUS
<1> USE HashRingAssumption
<1>1. ASSUME NEW n \in Ids, NEW a \in Addresses, AddNode(n, a)
      PROVE  RingInv'
  <2>1. Hashed'
    BY <1>1 DEF RingInv, Hashed, AddNode
  <2>2. ring' \in [Positions -> Node \cup {Vacant}]
    BY <1>1 DEF RingInv, Entries, AddNode, Node
  <2>3. ASSUME NEW p \in Positions
        PROVE  /\ ring'[p] # Vacant =>
                     /\ p \in vnodes'[ring'[p].id]
                     /\ ring'[p].address = members'[ring'[p].id]
               /\ \A m \in Ids :
                     p \in vnodes'[m] /\ members'[m] # Out => ring'[p] # Vacant
    <3>1. CASE p \in vnodes[n]
      BY <1>1, <3>1 DEF RingInv, Hashed, AddNode, Node
    <3>2. CASE p \notin vnodes[n]
      <4>1. ring'[p] = ring[p]
        BY <1>1, <3>2 DEF AddNode
      <4>2. ring[p] # Vacant => ring[p].id \in Ids \ {n}
        BY <3>2 DEF RingInv, Entries, Node
      <4> QED BY <1>1, <3>2, <4>1, <4>2 DEF RingInv, Hashed, Entries, AddNode
    <3> QED BY <3>1, <3>2
  <2> QED BY <2>1, <2>2, <2>3 DEF RingInv, Entries
<1>2. ASSUME NEW n \in Ids, RemoveNode(n)
      PROVE  RingInv'
  <2>1. Hashed'
    BY <1>2 DEF RingInv, Hashed, RemoveNode
  <2>2. ring' \in [Positions -> Node \cup {Vacant}]
    BY <1>2 DEF RingInv, Entries, RemoveNode
  <2>3. ASSUME NEW p \in Positions
        PROVE  /\ ring'[p] # Vacant =>
                     /\ p \in vnodes'[ring'[p].id]
                     /\ ring'[p].address = members'[ring'[p].id]
               /\ \A m \in Ids :
                     p \in vnodes'[m] /\ members'[m] # Out => ring'[p] # Vacant
    <3>1. CASE ring[p] # Vacant /\ ring[p].id = n
      <4>1. ring'[p] = Vacant /\ p \in vnodes[n]
        BY <1>2, <3>1 DEF RingInv, Entries, RemoveNode
      <4>2. ASSUME NEW m \in Ids, p \in vnodes'[m] PROVE members'[m] = Out
        BY <1>2, <4>1, <4>2 DEF RingInv, Hashed, RemoveNode
      <4> QED BY <4>1, <4>2
    <3>2. CASE ring[p] = Vacant \/ ring[p].id # n
      <4>1. ring'[p] = ring[p]
        BY <1>2, <3>2 DEF RemoveNode
      <4>2. ring[p] # Vacant => ring[p].id \in Ids \ {n}
        BY <3>2 DEF RingInv, Entries, Node
      <4> QED BY <1>2, <4>1, <4>2 DEF RingInv, Hashed, Entries, RemoveNode
    <3> QED BY <3>1, <3>2
  <2> QED BY <2>1, <2>2, <2>3 DEF RingInv, Entries
<1>3. CASE UNCHANGED vars
  BY <1>3 DEF vars, RingInv, Hashed, Entries
<1> QED BY <1>1, <1>2, <1>3 DEF Next

LEMMA RingInvImpliesMembership == RingInv => RingIsMembership
<1> SUFFICES ASSUME RingInv PROVE RingIsMembership
  OBVIOUS
<1> DEFINE Taken(p) == \E n \in Ids : members[n] # Out /\ p \in vnodes[n]
           Owner(p) == CHOOSE n \in Ids : p \in vnodes[n]
           Entry(p) == IF Taken(p)
                       THEN [id |-> Owner(p), address |-> members[Owner(p)]]
                       ELSE Vacant
<1>1. ASSUME NEW p \in Positions PROVE ring[p] = Entry(p)
  <2>1. CASE ring[p] = Vacant
    BY <2>1 DEF RingInv, Entries
  <2>2. CASE ring[p] # Vacant
    <3>1. /\ ring[p] \in Node /\ ring[p].id \in Ids /\ p \in vnodes[ring[p].id]
          /\ ring[p].address = members[ring[p].id]
      BY <2>2 DEF RingInv, Entries, Node
    <3>2. members[ring[p].id] # Out
      BY <3>1, HashRingAssumption DEF Node
    <3>3. Taken(p)
      BY <3>1, <3>2
    <3>4. Owner(p) \in Ids /\ p \in vnodes[Owner(p)]
      BY <3>1
    <3>5. Owner(p) = ring[p].id
      BY <3>1, <3>4 DEF RingInv, Hashed
    <3>6. ring[p] = [id |-> ring[p].id, address |-> ring[p].address]
      BY <3>1 DEF Node
    <3> QED BY <3>1, <3>3, <3>5, <3>6
  <2> QED BY <2>1, <2>2
<1>2. ring = [p \in Positions |-> ring[p]]
  BY DEF RingInv, Entries
<1> HIDE DEF Entry
<1>3. ring = [p \in Positions |-> Entry(p)]
  BY <1>1, <1>2
<1> QED BY <1>3 DEF RingIsMembership, Entry

\* Whatever the order in which add_node and remove_node were called, the ring
\* is the one its members determine.
THEOREM RingAlwaysMembership == Spec => []RingIsMembership
<1>1. Init => RingInv
  BY RingInit
<1>2. RingInv /\ [Next]_vars => RingInv'
  BY RingNext
<1>3. RingInv => RingIsMembership
  BY RingInvImpliesMembership
<1> QED BY <1>1, <1>2, <1>3, PTL DEF Spec
-----------------------------------------------------------------------------
(***************************************************************************)
(* The loop of get_nodes, round by round.                                  *)
(***************************************************************************)
WalkEntry == Node \cup {Vacant}

LEMMA CollectType ==
    ASSUME NEW list \in Seq(Node), NEW e \in WalkEntry
    PROVE  Collect(list, e) \in Seq(Node)
  BY DEF Collect, WalkEntry

CollectStep == [list \in Seq(Node) |-> [e \in WalkEntry |-> Collect(list, e)]]

\* The function whose value at the domain the fold returns.
CollectAlong(w) ==
    CHOOSE iter : iter = [s \in SUBSET DOMAIN w |->
                            IF s = {} THEN << >>
                            ELSE LET x == Max(s)
                                 IN  Collect(iter[s \ {x}], w[x])]

LEMMA CollectChosen ==
    ASSUME NEW w
    PROVE  FoldLeft(Collect, << >>, w) = CollectAlong(w)[DOMAIN w]
  BY DEF FoldLeft, MapThenFoldSet, CollectAlong

\* rounds[n] is the list after the first n positions of the walk.
CollectRounds(rounds, w) ==
    /\ rounds[0] = << >>
    /\ \A n \in 1..Len(w) : rounds[n] = Collect(rounds[n - 1], w[n])

LEMMA CollectIsRounds ==
    ASSUME NEW w \in Seq(WalkEntry)
    PROVE  \E rounds \in [0..Len(w) -> Seq(Node)] :
              CollectRounds(rounds, w) /\ FoldLeft(Collect, << >>, w) = rounds[Len(w)]
<1> DEFINE T == Seq(Node)
           B(it) == [s \in SUBSET DOMAIN w |->
                        IF s = {} THEN << >>
                        ELSE LET x == Max(s) IN Collect(it[s \ {x}], w[x])]
           chosen == CollectAlong(w)
<1>1. CollectStep \in [T -> [WalkEntry -> T]] /\ << >> \in T
  BY CollectType DEF CollectStep
<1>2. PICK iter \in [SUBSET DOMAIN w -> T] : FoldsLeft(iter, w, T, << >>, CollectStep)
  BY <1>1, FoldLeftRounds
<1>3. PICK rounds \in [0..Len(w) -> T] :
         /\ Rounds(rounds, w, << >>, CollectStep)
         /\ EndsWith(rounds, w, T, << >>, CollectStep)
  BY <1>1, FoldLeftRounds
<1>4. ASSUME NEW s \in SUBSET DOMAIN w, s # {}, NEW t \in T
      PROVE  CollectStep[t][w[Max(s)]] = Collect(t, w[Max(s)])
  <2>1. Max(s) \in DOMAIN w
    BY <1>4, MaxOf
  <2>2. w[Max(s)] \in WalkEntry
    BY <2>1
  <2> QED BY <2>2 DEF CollectStep
<1>5. ASSUME NEW s \in SUBSET DOMAIN w
      PROVE  iter[s] = IF s = {} THEN << >>
                       ELSE Collect(iter[s \ {Max(s)}], w[Max(s)])
  BY <1>2, <1>4 DEF FoldsLeft
<1>6. iter = B(iter)
  BY <1>5
<1>7. chosen = B(chosen)
  BY <1>6 DEF CollectAlong
<1> HIDE DEF chosen
<1>8. ASSUME NEW s \in SUBSET DOMAIN w
      PROVE  chosen[s] = IF s = {} THEN << >>
                         ELSE Collect(chosen[s \ {Max(s)}], w[Max(s)])
  BY <1>7
<1>9. FoldsLeft(chosen, w, T, << >>, CollectStep)
  BY <1>4, <1>8 DEF FoldsLeft
<1>10. FoldLeft(Collect, << >>, w) = rounds[Len(w)]
  BY <1>3, <1>9, CollectChosen DEF chosen, EndsWith
<1>11. ASSUME NEW n \in 1..Len(w) PROVE rounds[n] = Collect(rounds[n - 1], w[n])
  <2>1. n - 1 \in 0..Len(w) /\ w[n] \in WalkEntry
    OBVIOUS
  <2>2. rounds[n - 1] \in T
    BY <2>1
  <2>3. rounds[n] = CollectStep[rounds[n - 1]][w[n]]
    BY <1>3 DEF Rounds
  <2> QED BY <2>1, <2>2, <2>3 DEF CollectStep
<1>12. rounds[0] = << >>
  BY <1>3 DEF Rounds
<1> QED BY <1>10, <1>11, <1>12 DEF CollectRounds

-----------------------------------------------------------------------------
(***************************************************************************)
(* Positions and distances.                                                *)
(***************************************************************************)

\* The position d steps clockwise from the key, and how far p is from it.
At(key, d) == (key + d) % Size
Ahead(p, key) == (p - key) % Size

LEMMA Clockwise ==
    ASSUME NEW key \in Positions
    PROVE  /\ \A d \in Positions :
                 /\ At(key, d) \in Positions /\ Ahead(At(key, d), key) = d
                 /\ At(key, d) = IF key + d < Size THEN key + d ELSE key + d - Size
           /\ \A p \in Positions :
                 /\ Ahead(p, key) \in Positions /\ At(key, Ahead(p, key)) = p
                 /\ Ahead(p, key) = IF p >= key THEN p - key ELSE p - key + Size
<1> USE HashRingAssumption DEF Positions
<1>1. ASSUME NEW d \in Positions
      PROVE  At(key, d) = IF key + d < Size THEN key + d ELSE key + d - Size
  BY DEF At
<1>2. ASSUME NEW p \in Positions
      PROVE  Ahead(p, key) = IF p >= key THEN p - key ELSE p - key + Size
  BY DEF Ahead
<1>3. ASSUME NEW d \in Positions
      PROVE  At(key, d) \in Positions /\ Ahead(At(key, d), key) = d
  BY <1>1, <1>2
<1>4. ASSUME NEW p \in Positions
      PROVE  Ahead(p, key) \in Positions /\ At(key, Ahead(p, key)) = p
  BY <1>1, <1>2
<1> QED BY <1>1, <1>2, <1>3, <1>4

\* The distance of a member is that of its nearest vnode, which is in the ring.
LEMMA MemberDistance ==
    ASSUME RingInv, NEW key \in Positions, NEW n \in Members
    PROVE  /\ Distance(n, key) \in Positions
           /\ ring[At(key, Distance(n, key))] # Vacant
           /\ ring[At(key, Distance(n, key))].id = n
           /\ \A p \in vnodes[n] : Distance(n, key) <= Ahead(p, key)
<1> DEFINE d == {(p - key) % Size : p \in vnodes[n]}
<1>1. n \in Ids /\ vnodes[n] # {} /\ vnodes[n] \subseteq Positions /\ members[n] # Out
  BY DEF Members, RingInv, Hashed
<1>2. \A p \in vnodes[n] : Ahead(p, key) \in Positions /\ Ahead(p, key) \in d
  BY <1>1, Clockwise DEF Ahead
<1>3. d \subseteq Positions /\ d # {}
  BY <1>1, <1>2 DEF Ahead
<1>4. \E i \in d : \A j \in d : i <= j
  <2> HIDE DEF d
  <2>1. d \in SUBSET Nat
    BY <1>3, HashRingAssumption DEF Positions
  <2> QED BY <1>3, <2>1, LeastNatural
<1>5. Distance(n, key) \in d /\ \A j \in d : Distance(n, key) <= j
  BY <1>4 DEF Distance
<1>6. PICK p \in vnodes[n] : Distance(n, key) = Ahead(p, key)
  BY <1>5 DEF Ahead
<1>7. At(key, Distance(n, key)) = p /\ p \in Positions
  BY <1>1, <1>6, Clockwise
<1>8. ring[p] # Vacant
  BY <1>1, <1>7 DEF RingInv, Entries
<1>9. ring[p].id = n
  BY <1>1, <1>7, <1>8 DEF RingInv, Entries, Hashed, Node
<1> QED BY <1>2, <1>3, <1>5, <1>7, <1>8, <1>9

\* An entry belongs to a member, which is no further than the entry.
LEMMA EntryDistance ==
    ASSUME RingInv, NEW key \in Positions, NEW p \in Positions, ring[p] # Vacant
    PROVE  /\ ring[p] \in Node /\ ring[p].id \in Members
           /\ ring[p].address = members[ring[p].id]
           /\ Distance(ring[p].id, key) <= Ahead(p, key)
<1>1. /\ ring[p] \in Node /\ ring[p].id \in Ids /\ ring[p].address \in Addresses
      /\ p \in vnodes[ring[p].id] /\ ring[p].address = members[ring[p].id]
  BY DEF RingInv, Entries, Node
<1>2. ring[p].id \in Members
  BY <1>1, HashRingAssumption DEF Members
<1> QED BY <1>1, <1>2, MemberDistance

\* No two members are equally far.
LEMMA DistancesDiffer ==
    ASSUME RingInv, NEW key \in Positions, NEW n \in Members, NEW m \in Members,
           Distance(n, key) = Distance(m, key)
    PROVE  n = m
  BY MemberDistance

-----------------------------------------------------------------------------
(***************************************************************************)
(* The loop invariant of get_nodes.                                        *)
(***************************************************************************)

LEMMA WalkShape ==
    ASSUME RingInv, NEW key \in Positions
    PROVE  /\ Walk(ring, key) \in Seq(WalkEntry)
           /\ Len(Walk(ring, key)) = 2 * Size - key
           /\ \A i \in 1..(2 * Size - key) :
                 Walk(ring, key)[i] = ring[At(key, IF i <= Size THEN i - 1
                                                   ELSE i - 1 - Size)]
<1> DEFINE up  == [i \in 1..(Size - key) |-> ring[key + i - 1]]
           all == [i \in 1..Size |-> ring[i - 1]]
<1>1. /\ Size \in Nat /\ Size > 0 /\ key \in Nat /\ key < Size
      /\ ring \in [Positions -> WalkEntry]
  BY HashRingAssumption DEF Positions, RingInv, Entries, WalkEntry
<1>2. up \in Seq(WalkEntry) /\ Len(up) = Size - key
  <2>1. \A i \in 1..(Size - key) : ring[key + i - 1] \in WalkEntry
    BY <1>1 DEF Positions
  <2> QED BY <1>1, <2>1
<1>3. all \in Seq(WalkEntry) /\ Len(all) = Size
  <2>1. \A i \in 1..Size : ring[i - 1] \in WalkEntry
    BY <1>1 DEF Positions
  <2> QED BY <1>1, <2>1
<1>4. Walk(ring, key) = up \o all
  BY DEF Walk
<1>5. ASSUME NEW i \in 1..(2 * Size - key)
      PROVE  (up \o all)[i] = ring[IF i <= Size - key THEN key + i - 1
                                   ELSE key + i - 1 - Size]
  <2>1. CASE i <= Size - key
    <3>1. (up \o all)[i] = up[i]
      <4> HIDE DEF up, all
      <4> QED BY <1>1, <1>2, <1>3, <2>1
    <3> QED BY <1>1, <2>1, <3>1
  <2>2. CASE i > Size - key
    <3>1. (up \o all)[i] = all[i - (Size - key)]
      <4> HIDE DEF up, all
      <4> QED BY <1>1, <1>2, <1>3, <2>2
    <3>2. i - (Size - key) \in 1..Size
      BY <1>1, <2>2
    <3>3. all[i - (Size - key)] = ring[i - (Size - key) - 1]
      BY <3>2
    <3>4. i - (Size - key) - 1 = key + i - 1 - Size
      BY <1>1
    <3> QED BY <1>1, <2>2, <3>1, <3>3, <3>4
  <2> QED BY <1>1, <2>1, <2>2
<1>6. ASSUME NEW i \in 1..(2 * Size - key)
      PROVE  (IF i <= Size - key THEN key + i - 1 ELSE key + i - 1 - Size)
                = At(key, IF i <= Size THEN i - 1 ELSE i - 1 - Size)
  <2>1. CASE i <= Size
    <3>1. i - 1 \in Positions
      BY <1>1, <2>1 DEF Positions
    <3>2. At(key, i - 1) = IF key + (i - 1) < Size THEN key + (i - 1)
                           ELSE key + (i - 1) - Size
      BY <3>1, Clockwise
    <3> QED BY <1>1, <2>1, <3>2
  <2>2. CASE i > Size
    <3>1. i - 1 - Size \in Positions
      BY <1>1, <2>2 DEF Positions
    <3>2. At(key, i - 1 - Size) = IF key + (i - 1 - Size) < Size
                                  THEN key + (i - 1 - Size)
                                  ELSE key + (i - 1 - Size) - Size
      BY <3>1, Clockwise
    <3> QED BY <1>1, <2>2, <3>2
  <2> QED BY <1>1, <2>1, <2>2
<1> HIDE DEF up, all
<1>7. up \o all \in Seq(WalkEntry) /\ Len(up \o all) = 2 * Size - key
  BY <1>1, <1>2, <1>3
<1> QED BY <1>4, <1>5, <1>6, <1>7

Want == IF ReplicationFactor = 0 THEN 1 ELSE ReplicationFactor
IdsOf(list) == {list[i].id : i \in DOMAIN list}

\* A list of members, each with the entry at its nearest vnode, nearest first.
Ordered(list, key) ==
    /\ list \in Seq(Node) /\ Len(list) <= Want
    /\ \A i \in DOMAIN list :
          /\ list[i].id \in Members
          /\ list[i] = ring[At(key, Distance(list[i].id, key))]
    /\ \A i, j \in DOMAIN list :
          i < j => Distance(list[i].id, key) < Distance(list[j].id, key)

\* The member m is in the list, or the list is full of nearer ones.
Settled(list, key, m) ==
    \/ m \in IdsOf(list)
    \/ /\ Len(list) = Want
       /\ \A i \in DOMAIN list : Distance(list[i].id, key) < Distance(m, key)

\* After n positions of the walk.
After(list, key, n) ==
    /\ Ordered(list, key)
    /\ \A i \in DOMAIN list : Distance(list[i].id, key) < n
    /\ \A m \in Members : Distance(m, key) < n => Settled(list, key, m)

LEMMA Round ==
    ASSUME RingInv, NEW key \in Positions, NEW n \in 1..(2 * Size - key), NEW list,
           After(list, key, n - 1)
    PROVE  After(Collect(list, Walk(ring, key)[n]), key, n)
<1> DEFINE e == Walk(ring, key)[n]
           Dist(m) == Distance(m, key)
<1> HIDE DEF Dist
<1>1. /\ Size \in Nat /\ Size > 0 /\ key \in Nat /\ key < Size
      /\ n \in Nat /\ n >= 1
      /\ list \in Seq(Node) /\ Len(list) \in Nat /\ Want \in Nat /\ Want >= 1
  BY HashRingAssumption DEF Positions, After, Ordered, Want
<1>2. ASSUME NEW m \in Members
      PROVE  Dist(m) \in Nat /\ Dist(m) < Size
  BY <1>1, MemberDistance DEF Positions, Dist
<1>3. \A i \in DOMAIN list : list[i].id \in Members /\ Dist(list[i].id) < n - 1
  BY DEF After, Ordered, Dist
<1>4. e = ring[At(key, IF n <= Size THEN n - 1 ELSE n - 1 - Size)]
  BY WalkShape
\* A member at distance n - 1 is the one the walk has reached.
<1>5. ASSUME NEW m \in Members, Dist(m) = n - 1
      PROVE  e # Vacant /\ e.id = m
  <2>1. n <= Size
    BY <1>1, <1>2, <1>5
  <2>2. e = ring[At(key, Distance(m, key))]
    BY <1>4, <1>5, <2>1 DEF Dist
  <2> QED BY <2>2, MemberDistance
\* The list stays as it is when no member is at distance n - 1 or it is full.
<1>6. ASSUME \A m \in Members : Dist(m) = n - 1 => Len(list) = Want
      PROVE  After(list, key, n)
  <2>1. \A i \in DOMAIN list : Dist(list[i].id) < n
    BY <1>1, <1>2, <1>3
  <2>2. ASSUME NEW m \in Members, Dist(m) < n PROVE Settled(list, key, m)
    <3>1. CASE Dist(m) < n - 1
      BY <3>1 DEF After, Dist
    <3>2. CASE Dist(m) = n - 1
      BY <1>3, <1>6, <3>2 DEF Settled, Dist
    <3> QED BY <1>1, <1>2, <2>2, <3>1, <3>2
  <2> QED BY <2>1, <2>2 DEF After, Dist
<1>7. CASE e = Vacant
  <2>1. Collect(list, e) = list
    BY <1>7 DEF Collect
  <2>2. \A m \in Members : Dist(m) # n - 1
    BY <1>5, <1>7
  <2> QED BY <1>6, <2>1, <2>2
<1>8. CASE e # Vacant
  <2> DEFINE p == At(key, IF n <= Size THEN n - 1 ELSE n - 1 - Size)
  <2>1. p \in Positions /\ Ahead(p, key) <= n - 1
    <3>1. CASE n <= Size
      <4>1. n - 1 \in Positions
        BY <1>1, <3>1 DEF Positions
      <4> QED BY <1>1, <3>1, <4>1, Clockwise
    <3>2. CASE n > Size
      <4>1. n - 1 - Size \in Positions
        BY <1>1, <3>2 DEF Positions
      <4> QED BY <1>1, <3>2, <4>1, Clockwise
    <3> QED BY <1>1, <3>1, <3>2
  <2>2. e \in Node /\ e.id \in Members /\ Distance(e.id, key) <= Ahead(p, key)
    <3> HIDE DEF e, p
    <3>1. e = ring[p]
      BY <1>4 DEF p
    <3> QED BY <1>8, <2>1, <3>1, EntryDistance
  <2>3. Dist(e.id) <= n - 1
    <3>1. Ahead(p, key) \in Positions
      BY <2>1, Clockwise
    <3>2. Ahead(p, key) \in Int
      BY <3>1 DEF Positions
    <3> HIDE DEF e, p
    <3> QED BY <1>1, <1>2, <2>1, <2>2, <3>2 DEF Dist
  <2> HIDE DEF e, p
  <2>4. CASE Dist(e.id) < n - 1
    <3>1. Settled(list, key, e.id)
      BY <2>2, <2>4 DEF After, Dist
    <3>2. Collect(list, e) = list
      <4>1. CASE e.id \in IdsOf(list)
        BY <4>1 DEF Collect, IdsOf
      <4>2. CASE Len(list) = Want
        <5>1. list # << >> /\ Len(list) >= ReplicationFactor
          BY <1>1, <4>2, HashRingAssumption DEF Want
        <5> QED BY <5>1 DEF Collect
      <4> QED BY <3>1, <4>1, <4>2 DEF Settled
    <3>3. \A m \in Members : Dist(m) # n - 1
      BY <1>5, <2>4, <1>1, <1>2
    <3> QED BY <1>6, <3>2, <3>3 DEF e
  <2>5. CASE Dist(e.id) = n - 1 /\ Len(list) >= Want
    <3>1. Len(list) = Want
      BY <1>1, <2>5 DEF After, Ordered
    <3>2. Collect(list, e) = list
      <4>1. list # << >> /\ Len(list) >= ReplicationFactor
        BY <1>1, <3>1, HashRingAssumption DEF Want
      <4> QED BY <4>1 DEF Collect
    <3> QED BY <1>6, <3>1, <3>2 DEF e
  <2>6. CASE Dist(e.id) = n - 1 /\ Len(list) < Want
    <3> DEFINE new == Append(list, e)
               last == Len(list) + 1
    <3>1. Collect(list, e) = new
      BY <1>1, <1>2, <1>3, <1>8, <2>2, <2>6 DEF Collect, Want
    <3>2. /\ new \in Seq(Node) /\ Len(new) = last /\ DOMAIN new = 1..last
          /\ new[last] = e /\ \A i \in 1..last : i # last => i \in DOMAIN list /\ new[i] = list[i]
          /\ DOMAIN list = 1..(last - 1) /\ last \in Nat
      BY <1>1, <2>2
    <3> HIDE DEF new, last
    <3>3. \A i \in DOMAIN new : new[i].id \in Members /\ Dist(new[i].id) < n
      BY <1>1, <1>2, <1>3, <2>2, <2>6, <3>2
    <3>4. ASSUME NEW i \in DOMAIN new
          PROVE  new[i] = ring[At(key, Distance(new[i].id, key))]
      <4>1. CASE i = last
        <5>1. n <= Size
          BY <1>1, <1>2, <2>2, <2>6
        <5> QED BY <1>4, <2>6, <3>2, <4>1, <5>1 DEF Dist
      <4>2. CASE i # last
        BY <3>2, <4>2 DEF After, Ordered
      <4> QED BY <4>1, <4>2
    <3>5. ASSUME NEW i \in DOMAIN new, NEW j \in DOMAIN new, i < j
          PROVE  Distance(new[i].id, key) < Distance(new[j].id, key)
      <4>1. i # last /\ i \in DOMAIN list
        BY <3>2, <3>5
      <4>2. CASE j = last
        <5>1. new[i].id = list[i].id /\ Dist(list[i].id) < n - 1
          BY <1>3, <3>2, <4>1
        <5> QED BY <2>6, <3>2, <4>2, <5>1 DEF Dist
      <4>3. CASE j # last
        <5>1. j \in DOMAIN list /\ new[i] = list[i] /\ new[j] = list[j]
          BY <3>2, <4>1, <4>3
        <5> QED BY <3>5, <4>1, <5>1 DEF After, Ordered
      <4> QED BY <4>2, <4>3
    <3>6. ASSUME NEW m \in Members, Dist(m) < n PROVE Settled(new, key, m)
      <4>1. CASE Dist(m) < n - 1
        <5>1. Settled(list, key, m)
          BY <4>1 DEF After, Dist
        <5>2. m \in IdsOf(list)
          BY <1>1, <2>6, <5>1 DEF Settled
        <5>3. PICK i \in DOMAIN list : m = list[i].id
          BY <5>2 DEF IdsOf
        <5>4. i \in DOMAIN new /\ new[i] = list[i]
          BY <1>1, <3>2
        <5> QED BY <5>3, <5>4 DEF Settled, IdsOf
      <4>2. CASE Dist(m) = n - 1
        <5>1. m = e.id
          BY <1>5, <4>2
        <5>2. last \in DOMAIN new /\ new[last].id = m
          BY <1>1, <3>2, <5>1 DEF last
        <5> QED BY <5>2 DEF Settled, IdsOf
      <4> QED BY <1>1, <1>2, <3>6, <4>1, <4>2
    <3>7. Len(new) <= Want
      BY <1>1, <2>6, <3>2 DEF last
    <3>8. Ordered(new, key)
      BY <3>2, <3>3, <3>4, <3>5, <3>7 DEF Ordered
    <3> QED BY <3>1, <3>3, <3>6, <3>8 DEF After, Dist, e
  <2> QED BY <1>1, <1>2, <2>2, <2>3, <2>4, <2>5, <2>6
<1> QED BY <1>7, <1>8

-----------------------------------------------------------------------------
(***************************************************************************)
(* The lists.                                                              *)
(***************************************************************************)

LEMMA ListIsNearest ==
    ASSUME RingInv, NEW key \in Positions
    PROVE  /\ Ordered(GetNodes(ring, key), key)
           /\ \A m \in Members : Settled(GetNodes(ring, key), key, m)
<1> DEFINE w == Walk(ring, key)
           L == 2 * Size - key
<1>1. w \in Seq(WalkEntry) /\ Len(w) = L
  BY WalkShape
<1>2. PICK rounds \in [0..L -> Seq(Node)] :
         CollectRounds(rounds, w) /\ FoldLeft(Collect, << >>, w) = rounds[L]
  <2> HIDE DEF w
  <2> QED BY <1>1, CollectIsRounds
<1>3. L \in Nat /\ Size \in Nat /\ Size < L
  BY HashRingAssumption DEF Positions
<1> HIDE DEF w, L
<1> DEFINE P == {n \in Nat : n <= L => After(rounds[n], key, n)}
<1>4. 0 \in P
  <2>1. rounds[0] = << >> /\ Want \in Nat
    BY <1>2, HashRingAssumption DEF CollectRounds, Want
  <2>2. Ordered(rounds[0], key)
    BY <2>1 DEF Ordered
  <2>3. \A m \in Members : ~ (Distance(m, key) < 0)
    BY MemberDistance DEF Positions
  <2> QED BY <2>1, <2>2, <2>3 DEF After
<1>5. ASSUME NEW n \in P PROVE n + 1 \in P
  <2>0. n \in Nat
    OBVIOUS
  <2> SUFFICES ASSUME n + 1 <= L PROVE After(rounds[n + 1], key, n + 1)
    BY <2>0
  <2>1. n + 1 \in 1..L /\ n + 1 - 1 = n /\ n <= L
    BY <1>3, <2>0
  <2>2. After(rounds[n], key, n)
    BY <2>1
  <2>3. rounds[n + 1] = Collect(rounds[n], w[n + 1])
    BY <1>1, <1>2, <2>1 DEF CollectRounds
  <2>4. n + 1 \in 1..(2 * Size - key)
    BY <2>1 DEF L
  <2> HIDE DEF P
  <2>5. After(Collect(rounds[n], Walk(ring, key)[n + 1]), key, n + 1)
    <3> DEFINE k == n + 1
               list == rounds[n]
    <3>1. k \in 1..(2 * Size - key) /\ k - 1 = n
      BY <2>0, <2>4
    <3> HIDE DEF k
    <3>3. After(list, key, k - 1)
      BY <2>2, <3>1
    <3> HIDE DEF list
    <3>2. After(Collect(list, Walk(ring, key)[k]), key, k)
      BY <3>1, <3>3, Round
    <3> QED BY <3>2 DEF k, list
  <2> QED BY <2>3, <2>5 DEF w
<1>6. P = Nat
  <2>1. P \in SUBSET Nat
    OBVIOUS
  <2> HIDE DEF P
  <2> QED BY <1>4, <1>5, <2>1, NaturalSetInduction
<1>7. After(rounds[L], key, L)
  <2>1. L \in P
    BY <1>3, <1>6
  <2> QED BY <1>3, <2>1
<1>8. GetNodes(ring, key) = rounds[L]
  BY <1>2 DEF GetNodes, w
<1>9. \A m \in Members : Distance(m, key) < L
  BY <1>3, MemberDistance DEF Positions
<1> QED BY <1>7, <1>8, <1>9 DEF After

LEMMA MembersFinite ==
    ASSUME RingInv
    PROVE  IsFiniteSet(Members)
<1>1. 0 \in Positions /\ IsFiniteSet(Positions)
  BY HashRingAssumption, FS_Interval DEF Positions
<1> DEFINE f == [n \in Members |-> Distance(n, 0)]
<1>2. f \in Injection(Members, Positions)
  BY <1>1, MemberDistance, DistancesDiffer DEF Injection, IsInjective
<1> QED BY <1>1, <1>2, FS_Injection

\* An ordered list names no node twice.
LEMMA OrderedLength ==
    ASSUME NEW key \in Positions, NEW list, RingInv, Ordered(list, key)
    PROVE  /\ IsFiniteSet(IdsOf(list)) /\ Cardinality(IdsOf(list)) = Len(list)
           /\ \A i, j \in DOMAIN list : list[i].id = list[j].id => i = j
<1> DEFINE f == [i \in 1..Len(list) |-> list[i].id]
<1>1. /\ list \in Seq(Node) /\ Len(list) \in Nat /\ DOMAIN list = 1..Len(list)
      /\ \A i \in DOMAIN list : list[i].id \in Members
  BY DEF Ordered
<1>2. \A i \in DOMAIN list : Distance(list[i].id, key) \in Int
  BY <1>1, MemberDistance DEF Positions
<1>3. ASSUME NEW i \in DOMAIN list, NEW j \in DOMAIN list, list[i].id = list[j].id
      PROVE  i = j
  <2>1. ~ (i < j) /\ ~ (j < i)
    BY <1>2, <1>3 DEF Ordered
  <2> QED BY <1>1, <2>1
<1>4. f \in Bijection(1..Len(list), IdsOf(list))
  BY <1>1, <1>3 DEF Bijection, Injection, Surjection, IsInjective, IdsOf
<1>5. ExistsBijection(1..Len(list), IdsOf(list))
  BY <1>4 DEF ExistsBijection
<1>6. IsFiniteSet(1..Len(list)) /\ Cardinality(1..Len(list)) = Len(list)
  <2>1. \A k \in Nat : IsFiniteSet(1..k) /\ Cardinality(1..k) = k
    BY FS_Interval
  <2> QED BY <1>1, <2>1
<1> QED BY <1>3, <1>5, <1>6, FS_Bijection

\* get_node finds the entry that is first in the list.
LEMMA FirstIsNearest ==
    ASSUME RingInv, NEW key \in Positions
    PROVE  GetNode(ring, key) =
              IF GetNodes(ring, key) = << >> THEN Vacant ELSE GetNodes(ring, key)[1]
<1> DEFINE list  == GetNodes(ring, key)
           above == {p \in Positions : p >= key /\ ring[p] # Vacant}
           from  == IF above # {} THEN above ELSE {p \in Positions : ring[p] # Vacant}
           first == CHOOSE p \in from : \A q \in from : p <= q
<1>1. Ordered(list, key) /\ \A m \in Members : Settled(list, key, m)
  BY ListIsNearest
<1>2. GetNode(ring, key) = IF from = {} THEN Vacant ELSE ring[first]
  BY DEF GetNode
<1>3. from \subseteq Positions /\ \A p \in from : ring[p] # Vacant
  OBVIOUS
<1>4. /\ Size \in Nat /\ Size > 0 /\ key \in Nat /\ key < Size
      /\ Want \in Nat /\ Want >= 1
  BY HashRingAssumption DEF Positions, Want
<1>5. list \in Seq(Node)
  BY <1>1 DEF Ordered
<1> HIDE DEF list
<1>6. CASE list = << >>
  <2>1. Members = {}
    BY <1>1, <1>4, <1>6 DEF Settled, IdsOf
  <2>2. \A p \in Positions : ring[p] = Vacant
    BY <2>1, EntryDistance
  <2>3. from = {}
    BY <2>2
  <2> QED BY <1>2, <1>6, <2>3 DEF list
<1>7. CASE list # << >>
  <2> DEFINE n == list[1].id
             D == Distance(n, key)
             p1 == At(key, D)
  <2>1. 1 \in DOMAIN list /\ DOMAIN list = 1..Len(list) /\ Len(list) \in Nat
    BY <1>5, <1>7
  <2>2. n \in Members /\ list[1] = ring[p1]
    BY <1>1, <2>1 DEF Ordered
  <2>3. D \in Positions /\ p1 \in Positions /\ ring[p1] # Vacant
    BY <2>2, MemberDistance, Clockwise
  <2>4. ASSUME NEW m \in Members PROVE D <= Distance(m, key)
    <3>0. Distance(m, key) \in Int /\ D \in Int
      BY <2>2, MemberDistance DEF Positions
    <3>1. CASE m \in IdsOf(list)
      <4>1. PICK i \in DOMAIN list : m = list[i].id
        BY <3>1 DEF IdsOf
      <4>2. i = 1 \/ 1 < i
        BY <2>1
      <4> QED BY <1>1, <2>1, <3>0, <4>1, <4>2 DEF Ordered
    <3>2. CASE m \notin IdsOf(list)
      BY <1>1, <2>1, <3>0, <3>2 DEF Settled
    <3> QED BY <3>1, <3>2
  <2>5. from # {}
    BY <2>3
  <2>6. first \in from /\ \A q \in from : first <= q
    <3>1. from \in SUBSET Nat
      BY <1>3, <1>4 DEF Positions
    <3> HIDE DEF from
    <3>2. \E p \in from : \A q \in from : p <= q
      BY <2>5, <3>1, LeastNatural
    <3> QED BY <3>2
  <2>7. first \in Positions /\ ring[first] # Vacant
    BY <1>3, <2>6
  <2>8. D <= Ahead(first, key)
    <3>1. ring[first].id \in Members /\ Distance(ring[first].id, key) <= Ahead(first, key)
      BY <2>7, EntryDistance
    <3>2. D <= Distance(ring[first].id, key)
      BY <2>4, <3>1
    <3>3. D \in Int /\ Distance(ring[first].id, key) \in Int /\ Ahead(first, key) \in Int
      <4>1. Distance(ring[first].id, key) \in Positions
        <5> HIDE DEF first
        <5> QED BY <3>1, MemberDistance
      <4>2. Ahead(first, key) \in Positions
        <5> HIDE DEF first
        <5> QED BY <2>7, Clockwise
      <4> HIDE DEF first, D
      <4> QED BY <2>3, <4>1, <4>2 DEF Positions
    <3> HIDE DEF D, first
    <3> QED BY <3>1, <3>2, <3>3
  <2> HIDE DEF first, D, n
  <2>9. /\ p1 = IF key + D < Size THEN key + D ELSE key + D - Size
        /\ Ahead(first, key) = IF first >= key THEN first - key ELSE first - key + Size
    BY <2>3, <2>7, Clockwise
  <2>10. /\ D \in Nat /\ D < Size /\ p1 \in Nat /\ p1 < Size
         /\ first \in Nat /\ first < Size
    BY <1>4, <2>3, <2>7 DEF Positions
  <2>11. first = p1
    <3>1. CASE above # {}
      <4>1. first >= key
        BY <2>6, <3>1
      <4>2. p1 = key + D /\ p1 <= first
        BY <1>4, <2>8, <2>9, <2>10, <4>1
      <4>3. p1 \in from
        BY <1>4, <2>3, <2>10, <3>1, <4>2
      <4>4. first <= p1
        BY <2>6, <4>3
      <4> QED BY <2>10, <4>2, <4>4
    <3>2. CASE above = {}
      <4>1. first < key /\ p1 < key
        BY <1>4, <2>3, <2>7, <2>10, <3>2
      <4>2. p1 <= first
        BY <1>4, <2>8, <2>9, <2>10, <4>1
      <4>3. p1 \in from
        BY <2>3, <3>2
      <4>4. first <= p1
        BY <2>6, <4>3
      <4> QED BY <2>10, <4>2, <4>4
    <3> QED BY <3>1, <3>2
  <2> QED BY <1>2, <1>7, <2>2, <2>5, <2>11 DEF list, first
<1> QED BY <1>6, <1>7

LEMMA NearestLength ==
    ASSUME RingInv, NEW key \in Positions
    PROVE  Len(GetNodes(ring, key)) = IF Cardinality(Members) < Want
                                      THEN Cardinality(Members) ELSE Want
<1> DEFINE list == GetNodes(ring, key)
           ids == IdsOf(list)
<1>1. Ordered(list, key) /\ \A m \in Members : Settled(list, key, m)
  BY ListIsNearest
<1> HIDE DEF list
<1>2. IsFiniteSet(ids) /\ Cardinality(ids) = Len(list)
  BY <1>1, OrderedLength
<1>3. IsFiniteSet(Members) /\ Cardinality(Members) \in Nat
  BY MembersFinite, FS_CardinalityType
<1>4. ids \subseteq Members /\ Len(list) \in Nat /\ Len(list) <= Want /\ Want \in Nat
  BY <1>1, HashRingAssumption DEF Ordered, IdsOf, Want
<1>5. Cardinality(ids) <= Cardinality(Members)
  BY <1>3, <1>4, FS_Subset
<1>6. CASE Members \subseteq ids
  <2>1. Members = ids
    BY <1>4, <1>6
  <2> QED BY <1>2, <1>3, <1>4, <2>1 DEF list
<1>7. CASE ~ (Members \subseteq ids)
  <2>1. Len(list) = Want
    BY <1>1, <1>7 DEF Settled
  <2> QED BY <1>2, <1>3, <1>4, <1>5, <2>1 DEF list
<1> QED BY <1>6, <1>7

LEMMA RingInvImpliesNearest == RingInv => ListsAreNearest
<1> SUFFICES ASSUME RingInv, NEW key \in Positions
             PROVE  LET list == GetNodes(ring, key)
                        want == IF ReplicationFactor = 0 THEN 1 ELSE ReplicationFactor
                        ids  == {list[i].id : i \in DOMAIN list}
                    IN  /\ ids \subseteq Members
                        /\ Len(list) = Cardinality(ids)
                        /\ Len(list) = IF Cardinality(Members) < want
                                       THEN Cardinality(Members) ELSE want
                        /\ \A i, j \in DOMAIN list :
                              i < j => Distance(list[i].id, key) < Distance(list[j].id, key)
                        /\ \A n \in Members \ ids, i \in DOMAIN list :
                              Distance(list[i].id, key) < Distance(n, key)
                        /\ GetNode(ring, key) = IF list = << >> THEN Vacant ELSE list[1]
                        /\ \A n \in Ids : IsResponsible(ring, n, key) <=> n \in ids
  BY DEF ListsAreNearest
<1> DEFINE list == GetNodes(ring, key)
           ids == {list[i].id : i \in DOMAIN list}
<1>1. Ordered(list, key) /\ \A m \in Members : Settled(list, key, m)
  BY ListIsNearest
<1>2. /\ ids = IdsOf(list)
      /\ Want = IF ReplicationFactor = 0 THEN 1 ELSE ReplicationFactor
  BY DEF IdsOf, Want
<1>3. GetNode(ring, key) = IF list = << >> THEN Vacant ELSE list[1]
  BY FirstIsNearest
<1>4. Len(list) = IF Cardinality(Members) < Want THEN Cardinality(Members) ELSE Want
  BY NearestLength
<1>5. \A n \in Ids : IsResponsible(ring, n, key) <=> n \in ids
  BY DEF IsResponsible
<1> HIDE DEF list
<1>6. Len(list) = Cardinality(ids)
  BY <1>1, <1>2, OrderedLength
<1>7. ids \subseteq Members
  BY <1>1 DEF Ordered
<1>8. \A i, j \in DOMAIN list :
         i < j => Distance(list[i].id, key) < Distance(list[j].id, key)
  BY <1>1 DEF Ordered
<1>9. \A n \in Members \ ids, i \in DOMAIN list :
         Distance(list[i].id, key) < Distance(n, key)
  BY <1>1, <1>2 DEF Settled
<1> HIDE DEF ids
<1> QED BY <1>2, <1>3, <1>4, <1>5, <1>6, <1>7, <1>8, <1>9, Zenon DEF list, ids

\* For every key, get_nodes returns the replication_factor members nearest to
\* it, nearest first, and get_node and is_responsible agree with it.
THEOREM ListsAlwaysNearest == Spec => []ListsAreNearest
  BY RingInit, RingNext, RingInvImpliesNearest, PTL DEF Spec

-----------------------------------------------------------------------------
(***************************************************************************)
(* Minimal disruption.  Without n, a list is a leading part of the other   *)
(* members in their order around the key, of one of two lengths; when only *)
(* n changes, that order stays.                                            *)
(***************************************************************************)

\* a lists the members of M that are nearest by dist, with their addresses.
Leading(a, M, dist, addr) ==
    /\ a \in Seq(Node)
    /\ \A i \in DOMAIN a : a[i].id \in M /\ a[i].address = addr[a[i].id]
    /\ \A i, j \in DOMAIN a : i < j => dist[a[i].id] < dist[a[j].id]
    /\ \A m \in M : m \in IdsOf(a) \/ \A i \in DOMAIN a : dist[a[i].id] < dist[m]

LEMMA LeadingIsPrefix ==
    ASSUME NEW M, NEW dist \in [M -> Int], NEW addr,
           \A m1, m2 \in M : dist[m1] = dist[m2] => m1 = m2,
           NEW a, NEW b, Leading(a, M, dist, addr), Leading(b, M, dist, addr),
           Len(a) <= Len(b)
    PROVE  IsPrefix(a, b)
<1>1. /\ a \in Seq(Node) /\ b \in Seq(Node) /\ Len(a) \in Nat /\ Len(b) \in Nat
      /\ DOMAIN a = 1..Len(a) /\ DOMAIN b = 1..Len(b)
      /\ \A i \in DOMAIN a : i \in DOMAIN b /\ i \in Nat
  BY DEF Leading
<1> DEFINE Differ == {i \in DOMAIN a : a[i] # b[i]}
\* At the first difference the nearer of the two would be missing in the other.
<1>2. Differ = {}
  <2> SUFFICES ASSUME Differ # {} PROVE FALSE
    OBVIOUS
  <2>1. Differ \in SUBSET Nat
    BY <1>1
  <2>2. PICK i \in Differ : \A j \in Differ : i <= j
    <3> HIDE DEF Differ
    <3> QED BY <2>1, LeastNatural
  <2>3. i \in DOMAIN a /\ i \in DOMAIN b /\ i \in Nat /\ a[i] # b[i]
    BY <1>1
  <2>4. \A j \in DOMAIN a : j < i => a[j] = b[j]
    BY <1>1, <2>2, <2>3
  <2> HIDE DEF Differ
  <2>5. a[i].id \in M /\ b[i].id \in M /\ dist[a[i].id] \in Int /\ dist[b[i].id] \in Int
    BY <2>3 DEF Leading
  <2>6. ~ (dist[b[i].id] < dist[a[i].id])
    <3> SUFFICES ASSUME dist[b[i].id] < dist[a[i].id] PROVE FALSE
      OBVIOUS
    <3>1. b[i].id \in IdsOf(a)
      BY <2>3, <2>5 DEF Leading
    <3>2. PICK j \in DOMAIN a : a[j].id = b[i].id
      BY <3>1 DEF IdsOf
    <3>3. j < i
      BY <1>1, <2>3, <2>5, <3>2 DEF Leading
    <3>4. a[j] = b[j] /\ j \in DOMAIN b
      BY <1>1, <2>4, <3>3
    <3>5. dist[b[j].id] < dist[b[i].id]
      BY <2>3, <3>3, <3>4 DEF Leading
    <3> QED BY <2>5, <3>2, <3>4, <3>5
  <2>7. ~ (dist[a[i].id] < dist[b[i].id])
    <3> SUFFICES ASSUME dist[a[i].id] < dist[b[i].id] PROVE FALSE
      OBVIOUS
    <3>1. a[i].id \in IdsOf(b)
      BY <2>3, <2>5 DEF Leading
    <3>2. PICK j \in DOMAIN b : b[j].id = a[i].id
      BY <3>1 DEF IdsOf
    <3>3. j < i
      <4>1. j \in Nat /\ dist[b[j].id] < dist[b[i].id]
        BY <1>1, <3>2
      <4>2. ~ (i < j)
        BY <2>3, <2>5, <3>2, <4>1 DEF Leading
      <4>3. i # j
        BY <2>5, <4>1
      <4> QED BY <2>3, <4>1, <4>2, <4>3
    <3>4. j \in DOMAIN a /\ a[j] = b[j]
      BY <1>1, <2>3, <2>4, <3>3
    <3>5. dist[a[j].id] < dist[a[i].id]
      BY <2>3, <3>3, <3>4 DEF Leading
    <3> QED BY <2>5, <3>2, <3>4, <3>5
  <2>8. a[i].id = b[i].id
    BY <2>5, <2>6, <2>7
  <2>9. a[i].address = b[i].address
    BY <2>3, <2>8 DEF Leading
  <2>10. a[i] \in Node /\ b[i] \in Node
    BY <1>1, <2>3
  <2> QED BY <2>3, <2>8, <2>9, <2>10 DEF Node
<1>3. \A i \in 1..Len(a) : a[i] = b[i]
  BY <1>1, <1>2
<1>4. SubSeq(a, 1, Len(a)) = SubSeq(b, 1, Len(a))
  <2>1. /\ SubSeq(a, 1, Len(a)) = [i \in 1..Len(a) |-> a[i]]
        /\ SubSeq(b, 1, Len(a)) = [i \in 1..Len(a) |-> b[i]]
    BY <1>1
  <2> QED BY <1>3, <2>1
<1> QED BY <1>4 DEF IsPrefix

LEMMA RemoveAtShape ==
    ASSUME NEW list \in Seq(Node), NEW k \in DOMAIN list
    PROVE  /\ RemoveAt(list, k) \in Seq(Node)
           /\ Len(RemoveAt(list, k)) = Len(list) - 1
           /\ \A i \in 1..(Len(list) - 1) :
                 RemoveAt(list, k)[i] = IF i < k THEN list[i] ELSE list[i + 1]
<1> DEFINE front == SubSeq(list, 1, k - 1)
           back == SubSeq(list, k + 1, Len(list))
<1>1. Len(list) \in Nat /\ k \in Nat /\ 1 <= k /\ k <= Len(list)
  OBVIOUS
<1>2. /\ front \in Seq(Node) /\ Len(front) = k - 1
      /\ \A i \in 1..(k - 1) : front[i] = list[i]
  BY <1>1
<1>3. /\ back \in Seq(Node) /\ Len(back) = Len(list) - k
      /\ \A i \in 1..(Len(list) - k) : back[i] = list[k + i]
  BY <1>1
<1>4. RemoveAt(list, k) = front \o back
  BY DEF RemoveAt
<1> HIDE DEF front, back
<1>5. front \o back \in Seq(Node) /\ Len(front \o back) = Len(list) - 1
  BY <1>1, <1>2, <1>3
<1>6. ASSUME NEW i \in 1..(Len(list) - 1)
      PROVE  (front \o back)[i] = IF i < k THEN list[i] ELSE list[i + 1]
  <2>1. CASE i < k
    BY <1>1, <1>2, <1>3, <2>1
  <2>2. CASE i >= k
    <3>1. (front \o back)[i] = back[i - (k - 1)]
      BY <1>1, <1>2, <1>3, <2>2
    <3>2. i - (k - 1) \in 1..(Len(list) - k) /\ k + (i - (k - 1)) = i + 1
      BY <1>1, <2>2
    <3>3. back[i - (k - 1)] = list[i + 1]
      BY <1>3, <3>2
    <3>4. ~ (i < k)
      BY <1>1, <2>2
    <3> QED BY <3>1, <3>3, <3>4
  <2>3. i < k \/ i >= k
    BY <1>1
  <2> QED BY <2>1, <2>2, <2>3
<1> QED BY <1>4, <1>5, <1>6

Rest(n) == Members \ {n}
RestDistance(n, key) == [m \in Rest(n) |-> Distance(m, key)]
RestAddress(n) == [m \in Rest(n) |-> members[m]]
RestSize(n) == IF Cardinality(Rest(n)) < Want THEN Cardinality(Rest(n)) ELSE Want

\* A list of members without n.
OthersLead(n, key) ==
    LET a == Others(GetNodes(ring, key), n)
    IN  /\ Leading(a, Rest(n), RestDistance(n, key), RestAddress(n))
        /\ Len(a) \in {RestSize(n) - 1, RestSize(n)}

LEMMA OthersAreLeading ==
    ASSUME RingInv, NEW key \in Positions, NEW n \in Ids
    PROVE  OthersLead(n, key)
<1> DEFINE list == GetNodes(ring, key)
           a == Others(list, n)
<1>1. Ordered(list, key) /\ \A m \in Members : Settled(list, key, m)
  BY ListIsNearest
<1>2. Len(list) = IF Cardinality(Members) < Want THEN Cardinality(Members) ELSE Want
  BY NearestLength
<1> HIDE DEF list
<1>3. /\ list \in Seq(Node) /\ Len(list) \in Nat /\ DOMAIN list = 1..Len(list)
      /\ \A i \in DOMAIN list : list[i].id \in Members
      /\ \A i, j \in DOMAIN list :
            i < j => Distance(list[i].id, key) < Distance(list[j].id, key)
  BY <1>1 DEF Ordered
<1>4. ASSUME NEW i \in DOMAIN list
      PROVE  list[i].address = members[list[i].id]
  <2> DEFINE p == At(key, Distance(list[i].id, key))
  <2>1. list[i] = ring[p] /\ list[i] \in Node
    BY <1>1, <1>3 DEF Ordered
  <2>2. p \in Positions
    BY <1>3, MemberDistance, Clockwise
  <2> QED BY <2>1, <2>2, EntryDistance, HashRingAssumption
<1>5. /\ IsFiniteSet(IdsOf(list)) /\ Cardinality(IdsOf(list)) = Len(list)
      /\ \A i, j \in DOMAIN list : list[i].id = list[j].id => i = j
  BY <1>1, OrderedLength
<1>6. /\ IsFiniteSet(Members) /\ Cardinality(Members) \in Nat
      /\ IsFiniteSet(Rest(n)) /\ Cardinality(Rest(n)) \in Nat
      /\ Cardinality(Rest(n)) = IF n \in Members THEN Cardinality(Members) - 1
                                ELSE Cardinality(Members)
      /\ Want \in Nat /\ Want >= 1
  <2>1. IsFiniteSet(Members) /\ Cardinality(Members) \in Nat
    BY MembersFinite, FS_CardinalityType
  <2>2. IsFiniteSet(Rest(n))
    BY <2>1, FS_Subset DEF Rest
  <2>3. n \in Members => Cardinality(Rest(n)) = Cardinality(Members) - 1
    BY <2>1, FS_RemoveElement DEF Rest
  <2>4. n \notin Members => Rest(n) = Members
    BY DEF Rest
  <2>5. Want \in Nat /\ Want >= 1
    BY HashRingAssumption DEF Want
  <2>6. Cardinality(Rest(n)) \in Nat
    BY <2>2, FS_CardinalityType
  <2> QED BY <2>1, <2>2, <2>3, <2>4, <2>5, <2>6
<1>7. CASE n \notin IdsOf(list)
  <2>1. a = list
    BY <1>7 DEF Others, IdsOf
  <2>2. \A i \in DOMAIN list : list[i].id \in Rest(n)
    BY <1>3, <1>7 DEF IdsOf, Rest
  <2>3. ASSUME NEW m \in Rest(n)
        PROVE  \/ m \in IdsOf(list)
               \/ \A i \in DOMAIN list : Distance(list[i].id, key) < Distance(m, key)
    BY <1>1 DEF Settled, Rest
  <2>4. Leading(list, Rest(n), RestDistance(n, key), RestAddress(n))
    BY <1>3, <1>4, <2>2, <2>3 DEF Leading, RestDistance, RestAddress
  <2>5. Len(list) = RestSize(n)
    <3>1. CASE n \notin Members
      BY <1>2, <1>6, <3>1 DEF RestSize
    <3>2. CASE n \in Members
      <4>1. Len(list) = Want
        BY <1>1, <1>7, <3>2 DEF Settled
      <4>2. IdsOf(list) \subseteq Rest(n)
        BY <2>2 DEF IdsOf
      <4>3. Cardinality(IdsOf(list)) <= Cardinality(Rest(n))
        BY <1>6, <4>2, FS_Subset
      <4> QED BY <1>5, <1>6, <4>1, <4>3 DEF RestSize
    <3> QED BY <3>1, <3>2
  <2> QED BY <2>1, <2>4, <2>5 DEF OthersLead, list
<1>8. CASE n \in IdsOf(list)
  <2> DEFINE k == CHOOSE i \in DOMAIN list : list[i].id = n
  <2>1. (\E i \in DOMAIN list : list[i].id = n) /\ n \in Members
    BY <1>3, <1>8 DEF IdsOf
  <2>2. k \in DOMAIN list /\ list[k].id = n /\ a = RemoveAt(list, k)
    BY <2>1 DEF Others
  <2> HIDE DEF k, a
  <2>3. /\ a \in Seq(Node) /\ Len(a) = Len(list) - 1 /\ DOMAIN a = 1..(Len(list) - 1)
        /\ \A i \in 1..(Len(list) - 1) : a[i] = IF i < k THEN list[i] ELSE list[i + 1]
    <3>1. /\ a \in Seq(Node) /\ Len(a) = Len(list) - 1
          /\ \A i \in 1..(Len(list) - 1) : a[i] = IF i < k THEN list[i] ELSE list[i + 1]
      <4>1. \A l \in Seq(Node) : \A i \in DOMAIN l :
               /\ RemoveAt(l, i) \in Seq(Node)
               /\ Len(RemoveAt(l, i)) = Len(l) - 1
               /\ \A j \in 1..(Len(l) - 1) :
                     RemoveAt(l, i)[j] = IF j < i THEN l[j] ELSE l[j + 1]
        BY RemoveAtShape
      <4> QED BY <1>3, <2>2, <4>1
    <3>2. DOMAIN a = 1..Len(a)
      BY <3>1
    <3> QED BY <3>1, <3>2
  <2> DEFINE at(i) == IF i < k THEN i ELSE i + 1
  <2>4. ASSUME NEW i \in DOMAIN a
        PROVE  at(i) \in DOMAIN list /\ at(i) # k /\ a[i] = list[at(i)]
    BY <1>3, <2>2, <2>3
  <2>5. \A i \in DOMAIN a : a[i].id \in Rest(n) /\ a[i].address = members[a[i].id]
    <3> HIDE DEF at
    <3> QED BY <1>3, <1>4, <1>5, <2>2, <2>4 DEF Rest
  <2>6. ASSUME NEW i \in DOMAIN a, NEW j \in DOMAIN a, i < j
        PROVE  Distance(a[i].id, key) < Distance(a[j].id, key)
    <3>1. at(i) < at(j)
      BY <1>3, <2>2, <2>3, <2>6
    <3> HIDE DEF at
    <3> QED BY <1>3, <2>4, <3>1
  <2>7. ASSUME NEW m \in Rest(n)
        PROVE  \/ m \in IdsOf(a)
               \/ \A i \in DOMAIN a : Distance(a[i].id, key) < Distance(m, key)
    <3>1. m # n /\ Settled(list, key, m)
      BY <1>1 DEF Rest
    <3>2. CASE m \in IdsOf(list)
      <4>1. PICK j \in DOMAIN list : list[j].id = m
        BY <3>2 DEF IdsOf
      <4>2. j # k
        BY <2>2, <3>1, <4>1
      <4>3. CASE j < k
        <5>1. j \in DOMAIN a /\ a[j] = list[j]
          BY <1>3, <2>2, <2>3, <4>1, <4>3
        <5> QED BY <4>1, <5>1 DEF IdsOf
      <4>4. CASE j > k
        <5>1. j - 1 \in DOMAIN a /\ a[j - 1] = list[j]
          BY <1>3, <2>2, <2>3, <4>1, <4>4
        <5> QED BY <4>1, <5>1 DEF IdsOf
      <4> QED BY <1>3, <2>2, <4>2, <4>3, <4>4
    <3>3. CASE m \notin IdsOf(list)
      <4>1. \A i \in DOMAIN list : Distance(list[i].id, key) < Distance(m, key)
        BY <3>1, <3>3 DEF Settled
      <4> HIDE DEF at
      <4> QED BY <2>4, <4>1
    <3> QED BY <3>2, <3>3
  <2>8. Leading(a, Rest(n), RestDistance(n, key), RestAddress(n))
    BY <2>3, <2>5, <2>6, <2>7 DEF Leading, RestDistance, RestAddress
  <2>9. Len(a) \in {RestSize(n) - 1, RestSize(n)}
    BY <1>2, <1>6, <2>1, <2>3 DEF RestSize
  <2> QED BY <2>8, <2>9 DEF OthersLead, a, list
<1> QED BY <1>7, <1>8

OthersAlwaysLead == \A n \in Ids, key \in Positions : OthersLead(n, key)

LEMMA RingInvImpliesLead == RingInv => OthersAlwaysLead
  BY OthersAreLeading DEF OthersAlwaysLead

LEMMA RingInvImpliesLeadPrimed == RingInv' => OthersAlwaysLead'
  BY RingInvImpliesLead, PTL

\* Whether n is in the ring changes nothing about the others.
LEMMA RestStays ==
    ASSUME NEW n \in Ids, NEW key \in Positions, vnodes' = vnodes,
           \A m \in Ids \ {n} : members'[m] = members[m]
    PROVE  /\ Rest(n)' = Rest(n)
           /\ RestDistance(n, key)' = RestDistance(n, key)
           /\ RestAddress(n)' = RestAddress(n)
           /\ RestSize(n)' = RestSize(n)
<1>1. Rest(n)' = Rest(n) /\ Rest(n) \subseteq Ids \ {n}
  BY DEF Rest, Members
<1>2. \A m : Distance(m, key)' = Distance(m, key)
  BY DEF Distance
<1>3. RestDistance(n, key)' = RestDistance(n, key)
  BY <1>1, <1>2 DEF RestDistance
<1>4. RestAddress(n)' = RestAddress(n)
  BY <1>1 DEF RestAddress
<1>5. RestSize(n)' = RestSize(n)
  BY <1>1 DEF RestSize, Want
<1> QED BY <1>1, <1>3, <1>4, <1>5

LEMMA OneNodeMoves ==
    ASSUME RingInv, RingInv', vnodes' = vnodes, NEW n \in Ids, NEW key \in Positions,
           \A m \in Ids \ {n} : members'[m] = members[m]
    PROVE  LET old == Others(GetNodes(ring, key), n)
               new == Others(GetNodes(ring', key), n)
           IN  /\ IsPrefix(old, new) \/ IsPrefix(new, old)
               /\ Len(new) - Len(old) \in {-1, 0, 1}
<1> DEFINE old == Others(GetNodes(ring, key), n)
           new == Others(GetNodes(ring', key), n)
           M == Rest(n)
           dist == RestDistance(n, key)
           addr == RestAddress(n)
<1>1. Leading(old, M, dist, addr) /\ Len(old) \in {RestSize(n) - 1, RestSize(n)}
  BY RingInvImpliesLead DEF OthersAlwaysLead, OthersLead
<1>2. Leading(new, M, dist, addr) /\ Len(new) \in {RestSize(n) - 1, RestSize(n)}
  <2>1. OthersLead(n, key)'
    BY RingInvImpliesLeadPrimed DEF OthersAlwaysLead
  <2>2. /\ Leading(new, Rest(n)', RestDistance(n, key)', RestAddress(n)')
        /\ Len(new) \in {RestSize(n)' - 1, RestSize(n)'}
    BY <2>1 DEF OthersLead
  <2> HIDE DEF new
  <2> QED BY <2>2, RestStays
<1>3. dist \in [M -> Int] /\ \A m1, m2 \in M : dist[m1] = dist[m2] => m1 = m2
  <2>1. \A m \in Members : Distance(m, key) \in Int
    BY MemberDistance DEF Positions
  <2>2. \A m1, m2 \in Members : Distance(m1, key) = Distance(m2, key) => m1 = m2
    BY DistancesDiffer
  <2> QED BY <2>1, <2>2 DEF RestDistance, Rest
<1>4. RestSize(n) \in Int
  <2>1. IsFiniteSet(Rest(n))
    BY MembersFinite, FS_Subset DEF Rest
  <2>2. Cardinality(Rest(n)) \in Nat
    BY <2>1, FS_CardinalityType
  <2> QED BY <2>2, HashRingAssumption DEF RestSize, Want
<1> HIDE DEF old, new, M, dist, addr
<1>5. Len(old) <= Len(new) \/ Len(new) <= Len(old)
  BY <1>1, <1>2, <1>4
<1>6. IsPrefix(old, new) \/ IsPrefix(new, old)
  BY <1>1, <1>2, <1>3, <1>5, LeadingIsPrefix
<1>7. Len(new) - Len(old) \in {-1, 0, 1}
  BY <1>1, <1>2, <1>4
<1> QED BY <1>6, <1>7 DEF old, new

\* When one node joins, leaves or changes its address, every replica list keeps
\* the others in their order, and at most one of them enters or leaves.
THEOREM OneNodeAtATime == Spec => OnlyOneNodeMoves
<1> DEFINE Moves ==
      \A n \in Ids, key \in Positions :
          (/\ members'[n] # members[n]
           /\ \A m \in Ids \ {n} : members'[m] = members[m])
          => LET old == Others(GetNodes(ring, key), n)
                 new == Others(GetNodes(ring', key), n)
             IN  /\ IsPrefix(old, new) \/ IsPrefix(new, old)
                 /\ Len(new) - Len(old) \in {-1, 0, 1}
<1>1. RingInv /\ RingInv' /\ [Next]_vars => [Moves]_vars
  <2> SUFFICES ASSUME RingInv, RingInv', Next PROVE Moves
    OBVIOUS
  <2>1. vnodes' = vnodes
    BY DEF Next, AddNode, RemoveNode
  <2> QED BY <2>1, OneNodeMoves
<1>2. [][Moves]_vars => OnlyOneNodeMoves
  BY DEF OnlyOneNodeMoves
<1> HIDE DEF Moves
<1> QED BY <1>1, <1>2, RingInit, RingNext, PTL DEF Spec
=============================================================================
