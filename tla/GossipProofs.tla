---------------------------- MODULE GossipProofs ----------------------------
(***************************************************************************)
(* Proofs about Gossip, for every set of nodes, every choice of seeds and  *)
(* fanout, and any number of rounds, messages, crashes and restarts.       *)
(***************************************************************************)
EXTENDS Gossip, TLAPS

-----------------------------------------------------------------------------
\* A record is not Unknown, and has a status, a heartbeat and a generation.
LEMMA KnownRecords ==
    ASSUME NEW view \in Views, NEW p \in Nodes
    PROVE  /\ p \in Known(view) <=> view[p] \in PeerState
           /\ view[p] \in PeerState =>
                /\ view[p].status \in Statuses /\ view[p].address \in Addresses
                /\ view[p].heartbeat \in Nat /\ view[p].generation \in Nat
  <1>1. Unknown \notin PeerState
    BY DEF Unknown, PeerState, Statuses
  <1>. QED  BY <1>1 DEF Known, Views, PeerState

LEMMA SeedTypes ==
    ASSUME NEW n \in Nodes
    PROVE  SeedView(n) \in Views /\ SeedRing(n) \in [Nodes -> Addresses \cup {Out}]
  BY DEF SeedView, SeedState, SeedRing, Views, PeerState, Statuses, Addresses, Out

LEMMA MessageTypes ==
    ASSUME TypeOK, NEW n \in Nodes
    PROVE  BuildMessage(n) \in Views
  <1>1. [status |-> "Alive", address |-> "blank",
         heartbeat |-> heartbeat[n], generation |-> 1] \in PeerState
    BY DEF TypeOK, PeerState, Statuses, Addresses
  <1>2. peers[n] \in Views
    BY DEF TypeOK
  <1>. QED  BY <1>1, <1>2 DEF BuildMessage, Views

\* The ring entry of a peer whose record is replaced.
LEMMA RingAfterType ==
    ASSUME NEW old \in Addresses \cup {Out}, NEW new \in PeerState
    PROVE  /\ RingAfter(old, new) \in Addresses \cup {Out}
           /\ new.status = "Alive" => RingAfter(old, new) # Out
           /\ new.status = "Dead" => RingAfter(old, new) = Out
  <1>1. new.status \in Statuses /\ new.address \in Addresses
    BY DEF PeerState
  <1>. QED  BY <1>1 DEF RingAfter, Statuses, Addresses, Out

\* What handle_gossip does to the records and the ring of the receiver.
LEMMA HandleEffect ==
    ASSUME TypeOK, NEW m \in msgs, HandleGossip(m)
    PROVE  /\ m.to \in Nodes /\ m.nodes \in Views /\ up[m.to]
           /\ msgs' = msgs \ {m}
           /\ UNCHANGED <<up, heartbeat, targets, restarts, highest>>
           /\ peers' \in [Nodes -> Views]
           /\ ring' \in [Nodes -> [Nodes -> Addresses \cup {Out}]]
           /\ \A n, p \in Nodes :
                \/ peers'[n][p] = peers[n][p] /\ ring'[n][p] = ring[n][p]
                \/ /\ n = m.to /\ p # n /\ m.nodes[p] \in PeerState
                   /\ Supersedes(m.nodes[p], peers[n][p])
                   /\ peers'[n][p] = m.nodes[p]
                   /\ ring'[n][p] = RingAfter(ring[n][p], m.nodes[p])
  <1>. DEFINE n == m.to
              acc == Accepted(n, m.nodes)
  <1>1. n \in Nodes /\ m.nodes \in Views
    BY DEF TypeOK
  <1>2. ASSUME NEW p \in acc
        PROVE  /\ p \in Nodes /\ p # n /\ m.nodes[p] \in PeerState
               /\ Supersedes(m.nodes[p], peers[n][p])
    BY <1>1, KnownRecords DEF Accepted, Known
  <1>3. /\ up[n] /\ msgs' = msgs \ {m}
        /\ UNCHANGED <<up, heartbeat, targets, restarts, highest>>
        /\ peers' = [peers EXCEPT ![n] =
              [p \in Nodes |-> IF p \in acc THEN m.nodes[p] ELSE peers[n][p]]]
        /\ ring' = [ring EXCEPT ![n] =
              [p \in Nodes |-> IF p \in acc THEN RingAfter(ring[n][p], m.nodes[p])
                                            ELSE ring[n][p]]]
    BY DEF HandleGossip
  <1>. HIDE DEF acc, n
  <1>4. peers \in [Nodes -> Views] /\ ring \in [Nodes -> [Nodes -> Addresses \cup {Out}]]
    BY DEF TypeOK
  <1>5. peers' \in [Nodes -> Views]
    <2>1. [p \in Nodes |-> IF p \in acc THEN m.nodes[p] ELSE peers[n][p]] \in Views
      BY <1>1, <1>4 DEF Views
    <2>. QED  BY <1>1, <1>3, <1>4, <2>1
  <1>6. ring' \in [Nodes -> [Nodes -> Addresses \cup {Out}]]
    <2>1. \A p \in acc : RingAfter(ring[n][p], m.nodes[p]) \in Addresses \cup {Out}
      BY <1>1, <1>2, <1>4, RingAfterType
    <2>2. [p \in Nodes |-> IF p \in acc THEN RingAfter(ring[n][p], m.nodes[p])
                                        ELSE ring[n][p]]
             \in [Nodes -> Addresses \cup {Out}]
      BY <1>1, <1>4, <2>1
    <2>. QED  BY <1>1, <1>3, <1>4, <2>2
  <1>7. ASSUME NEW q \in Nodes, NEW p \in Nodes
        PROVE  \/ peers'[q][p] = peers[q][p] /\ ring'[q][p] = ring[q][p]
               \/ /\ q = n /\ p # q /\ m.nodes[p] \in PeerState
                  /\ Supersedes(m.nodes[p], peers[q][p])
                  /\ peers'[q][p] = m.nodes[p]
                  /\ ring'[q][p] = RingAfter(ring[q][p], m.nodes[p])
    <2>1. CASE q = n /\ p \in acc
      BY <1>1, <1>2, <1>3, <1>4, <2>1
    <2>2. CASE q # n \/ p \notin acc
      BY <1>1, <1>3, <1>4, <2>2
    <2>. QED  BY <2>1, <2>2
  <1>. QED  BY <1>1, <1>3, <1>5, <1>6, <1>7 DEF n

\* What check_failures does to the records and the ring of the node.
LEMMA CheckEffect ==
    ASSUME TypeOK, NEW n \in Nodes, NEW late \in SUBSET Nodes,
           CheckFailures(n, late)
    PROVE  /\ UNCHANGED <<up, heartbeat, targets, msgs, restarts, highest>>
           /\ peers' \in [Nodes -> Views]
           /\ ring' \in [Nodes -> [Nodes -> Addresses \cup {Out}]]
           /\ \A q, p \in Nodes :
                \/ peers'[q][p] = peers[q][p] /\ ring'[q][p] = ring[q][p]
                \/ /\ q = n /\ peers[q][p] \in PeerState
                   /\ peers[q][p].status = "Alive"
                   /\ peers'[q][p] = [peers[q][p] EXCEPT !.status = "Suspect"]
                   /\ ring'[q][p] = ring[q][p]
                \/ /\ q = n /\ peers[q][p] \in PeerState
                   /\ peers[q][p].status = "Suspect"
                   /\ peers'[q][p] = [peers[q][p] EXCEPT !.status = "Dead"]
                   /\ ring'[q][p] = Out
  <1>. DEFINE suspects == {p \in late : peers[n][p].status = "Alive"}
              dead     == {p \in late : peers[n][p].status = "Suspect"}
              row == [p \in Nodes |->
                        CASE p \in suspects -> [peers[n][p] EXCEPT !.status = "Suspect"]
                          [] p \in dead     -> [peers[n][p] EXCEPT !.status = "Dead"]
                          [] OTHER          -> peers[n][p]]
  <1>1. /\ UNCHANGED <<up, heartbeat, targets, msgs, restarts, highest>>
        /\ late \subseteq NotDead(peers[n])
        /\ peers' = [peers EXCEPT ![n] = row]
        /\ ring' = [ring EXCEPT ![n] =
                      [p \in Nodes |-> IF p \in dead THEN Out ELSE ring[n][p]]]
    BY DEF CheckFailures
  <1>2. /\ peers \in [Nodes -> Views] /\ peers[n] \in Views
        /\ ring \in [Nodes -> [Nodes -> Addresses \cup {Out}]]
    BY DEF TypeOK
  <1>3. \A p \in late : peers[n][p] \in PeerState
    BY <1>1, <1>2, KnownRecords DEF NotDead, Known
  <1>4. suspects \cap dead = {} /\ suspects \subseteq late /\ dead \subseteq late
    OBVIOUS
  <1>5. \A p \in Nodes :
           /\ p \in suspects => row[p] = [peers[n][p] EXCEPT !.status = "Suspect"]
           /\ p \in dead => row[p] = [peers[n][p] EXCEPT !.status = "Dead"]
           /\ p \notin suspects \cup dead => row[p] = peers[n][p]
    <2>. HIDE DEF suspects, dead
    <2>. QED  BY <1>4
  <1>6. \A r \in PeerState : /\ [r EXCEPT !.status = "Suspect"] \in PeerState
                             /\ [r EXCEPT !.status = "Dead"] \in PeerState
    BY DEF PeerState, Statuses
  <1>s. /\ \A p \in suspects : peers[n][p].status = "Alive"
        /\ \A p \in dead : peers[n][p].status = "Suspect"
    OBVIOUS
  <1>d. DOMAIN row = Nodes /\ row = [p \in Nodes |-> row[p]]
    OBVIOUS
  <1>. HIDE DEF suspects, dead, row
  <1>7. row \in Views
    <2>1. ASSUME NEW p \in Nodes PROVE row[p] \in PeerState \cup {Unknown}
      <3>1. CASE p \in suspects
        <4>1. peers[n][p] \in PeerState
          BY <1>3, <1>4, <3>1
        <4>2. row[p] = [peers[n][p] EXCEPT !.status = "Suspect"]
          BY <1>5, <3>1
        <4>. QED  BY <1>6, <4>1, <4>2, Zenon
      <3>2. CASE p \in dead
        <4>1. peers[n][p] \in PeerState
          BY <1>3, <1>4, <3>2
        <4>2. row[p] = [peers[n][p] EXCEPT !.status = "Dead"]
          BY <1>5, <3>2
        <4>. QED  BY <1>6, <4>1, <4>2, Zenon
      <3>3. CASE p \notin suspects \cup dead
        BY <1>2, <1>5, <3>3 DEF Views
      <3>. QED  BY <3>1, <3>2, <3>3
    <2>. QED  BY <1>d, <2>1 DEF Views
  <1>8. ASSUME NEW q \in Nodes, NEW p \in Nodes
        PROVE  \/ peers'[q][p] = peers[q][p] /\ ring'[q][p] = ring[q][p]
               \/ /\ q = n /\ peers[q][p] \in PeerState
                  /\ peers[q][p].status = "Alive"
                  /\ peers'[q][p] = [peers[q][p] EXCEPT !.status = "Suspect"]
                  /\ ring'[q][p] = ring[q][p]
               \/ /\ q = n /\ peers[q][p] \in PeerState
                  /\ peers[q][p].status = "Suspect"
                  /\ peers'[q][p] = [peers[q][p] EXCEPT !.status = "Dead"]
                  /\ ring'[q][p] = Out
    <2>1. CASE q # n
      BY <1>1, <1>2, <2>1
    <2>2. CASE q = n /\ p \in suspects
      BY <1>1, <1>2, <1>3, <1>4, <1>5, <1>s, <2>2
    <2>3. CASE q = n /\ p \in dead
      BY <1>1, <1>2, <1>3, <1>4, <1>5, <1>s, <2>3
    <2>4. CASE q = n /\ p \notin suspects \cup dead
      BY <1>1, <1>2, <1>5, <2>4
    <2>. QED  BY <2>1, <2>2, <2>3, <2>4
  <1>9. peers' \in [Nodes -> Views]
    BY <1>1, <1>2, <1>7
  <1>10. ring' \in [Nodes -> [Nodes -> Addresses \cup {Out}]]
    BY <1>1, <1>2
  <1>. QED  BY <1>1, <1>8, <1>9, <1>10
-----------------------------------------------------------------------------
(***************************************************************************)
(* Type correctness.                                                       *)
(***************************************************************************)
LEMMA TypeInit == Init => TypeOK
  BY SeedTypes DEF Init, TypeOK

LEMMA TypeNext == TypeOK /\ [Next]_vars => TypeOK'
  <1>. SUFFICES ASSUME TypeOK, [Next]_vars PROVE TypeOK'
    OBVIOUS
  <1>1. ASSUME NEW n \in Nodes, StartRound(n)
        PROVE  TypeOK'
    <2>1. PICK s \in Choices(NotDead(peers[n])) :
             targets' = [targets EXCEPT ![n] = {p \in s : peers[n][p].address # "blank"}]
      BY <1>1 DEF StartRound
    <2>2. {p \in s : peers[n][p].address # "blank"} \subseteq Nodes
      BY <2>1 DEF Choices, NotDead, Known
    <2>3. targets' \in [Nodes -> SUBSET Nodes]
      BY <2>1, <2>2 DEF TypeOK
    <2>4. heartbeat' \in [Nodes -> Nat]
      BY <1>1 DEF StartRound, TypeOK
    <2>5. highest' \in [Nodes -> Nat]
      BY <1>1, <2>4 DEF StartRound, TypeOK
    <2>. QED  BY <1>1, <2>3, <2>4, <2>5 DEF StartRound, TypeOK
  <1>2. ASSUME NEW n \in Nodes, SendRound(n)
        PROVE  TypeOK'
    <2>1. msgs' \subseteq [to: Nodes, nodes: Views]
      BY <1>2, MessageTypes DEF SendRound, TypeOK
    <2>2. targets' \in [Nodes -> SUBSET Nodes]
      BY <1>2 DEF SendRound, TypeOK
    <2>. QED  BY <1>2, <2>1, <2>2 DEF SendRound, TypeOK
  <1>3. ASSUME NEW n \in Nodes, NEW late \in SUBSET Nodes, CheckFailures(n, late)
        PROVE  TypeOK'
    BY <1>3, CheckEffect DEF TypeOK
  <1>4. ASSUME NEW m \in msgs, HandleGossip(m)
        PROVE  TypeOK'
    BY <1>4, HandleEffect DEF TypeOK
  <1>5. ASSUME NEW n \in Nodes, Crash(n)
        PROVE  TypeOK'
    BY <1>5 DEF Crash, TypeOK
  <1>6. ASSUME NEW n \in Nodes, Restart(n)
        PROVE  TypeOK'
    BY <1>6, SeedTypes DEF Restart, TypeOK
  <1>7. CASE UNCHANGED vars
    BY <1>7 DEF vars, TypeOK
  <1>. QED  BY <1>1, <1>2, <1>3, <1>4, <1>5, <1>6, <1>7 DEF Next

\* Every variable keeps its type.
THEOREM TypeCorrect == Spec => []TypeOK
  BY TypeInit, TypeNext, PTL DEF Spec

-----------------------------------------------------------------------------
(***************************************************************************)
(* The ring follows the verdicts.  The property is inductive, given the    *)
(* types.                                                                  *)
(***************************************************************************)

\* RingFollowsStatus for one entry of one node.
EntryFollows(rec, entry) ==
    /\ rec = Unknown => entry = Out
    /\ rec.status = "Alive" => entry # Out
    /\ rec.status = "Dead" => entry = Out

LEMMA RingByEntry ==
    TypeOK => (RingFollowsStatus <=>
        \A n \in Nodes :
            /\ ring[n][n] # Out /\ peers[n][n] = Unknown
            /\ \A p \in Nodes \ {n} : EntryFollows(peers[n][p], ring[n][p]))
  <1>1. Unknown.status = "Unknown"
    BY DEF Unknown
  <1>. QED  BY <1>1 DEF RingFollowsStatus, EntryFollows, Known

LEMMA RingByEntryPrimed ==
    TypeOK' => (RingFollowsStatus' <=>
        \A n \in Nodes :
            /\ ring'[n][n] # Out /\ peers'[n][n] = Unknown
            /\ \A p \in Nodes \ {n} : EntryFollows(peers'[n][p], ring'[n][p]))
  <1>1. Unknown.status = "Unknown"
    BY DEF Unknown
  <1>. QED  BY <1>1 DEF RingFollowsStatus, EntryFollows, Known

LEMMA SeedEntries ==
    ASSUME NEW n \in Nodes
    PROVE  /\ SeedRing(n)[n] # Out /\ SeedView(n)[n] = Unknown
           /\ \A p \in Nodes \ {n} : EntryFollows(SeedView(n)[p], SeedRing(n)[p])
  <1>1. n \notin Seeds[n]
    BY SeedsAssumption
  <1>2. SeedState # Unknown /\ SeedState.status = "Alive" /\ Unknown.status = "Unknown"
    BY DEF SeedState, Unknown
  <1>. QED  BY <1>1, <1>2 DEF SeedRing, SeedView, EntryFollows, Out

LEMMA RingInit == Init => RingFollowsStatus
  <1>. SUFFICES ASSUME Init PROVE RingFollowsStatus
    OBVIOUS
  <1>1. TypeOK
    BY TypeInit
  <1>2. \A n \in Nodes : peers[n] = SeedView(n) /\ ring[n] = SeedRing(n)
    BY DEF Init
  <1>. QED  BY <1>1, <1>2, SeedEntries, RingByEntry

LEMMA RingNext == TypeOK /\ RingFollowsStatus /\ [Next]_vars => RingFollowsStatus'
  <1>. SUFFICES ASSUME TypeOK, RingFollowsStatus, [Next]_vars
                PROVE  RingFollowsStatus'
    OBVIOUS
  <1>1. TypeOK'
    BY TypeNext
  <1>2. \A n \in Nodes :
            /\ ring[n][n] # Out /\ peers[n][n] = Unknown
            /\ \A p \in Nodes \ {n} : EntryFollows(peers[n][p], ring[n][p])
    BY RingByEntry
  <1>. SUFFICES ASSUME NEW n \in Nodes
                PROVE  /\ ring'[n][n] # Out /\ peers'[n][n] = Unknown
                       /\ \A p \in Nodes \ {n} : EntryFollows(peers'[n][p], ring'[n][p])
    BY <1>1, RingByEntryPrimed
  <1>3. CASE UNCHANGED <<peers, ring>>
    BY <1>2, <1>3
  <1>4. ASSUME NEW q \in Nodes, NEW late \in SUBSET Nodes, CheckFailures(q, late)
        PROVE  /\ ring'[n][n] # Out /\ peers'[n][n] = Unknown
               /\ \A p \in Nodes \ {n} : EntryFollows(peers'[n][p], ring'[n][p])
    <2>4. \A r, p \in Nodes :
             \/ peers'[r][p] = peers[r][p] /\ ring'[r][p] = ring[r][p]
             \/ /\ r = q /\ peers[r][p] \in PeerState
                /\ peers[r][p].status = "Alive"
                /\ peers'[r][p] = [peers[r][p] EXCEPT !.status = "Suspect"]
                /\ ring'[r][p] = ring[r][p]
             \/ /\ r = q /\ peers[r][p] \in PeerState
                /\ peers[r][p].status = "Suspect"
                /\ peers'[r][p] = [peers[r][p] EXCEPT !.status = "Dead"]
                /\ ring'[r][p] = Out
      BY <1>4, CheckEffect, Zenon
    <2>0. \A p \in Nodes :
             \/ peers'[n][p] = peers[n][p] /\ ring'[n][p] = ring[n][p]
             \/ /\ peers[n][p] \in PeerState /\ ring'[n][p] = ring[n][p]
                /\ peers'[n][p] = [peers[n][p] EXCEPT !.status = "Suspect"]
             \/ /\ peers[n][p] \in PeerState /\ ring'[n][p] = Out
                /\ peers'[n][p] = [peers[n][p] EXCEPT !.status = "Dead"]
      BY <2>4, Zenon
    <2>1. \A p \in Nodes : peers[n][p] \in PeerState => p # n
      BY <1>2 DEF PeerState, Unknown, Statuses
    <2>2. ring'[n][n] # Out /\ peers'[n][n] = Unknown
      BY <1>2, <2>0, <2>1
    <2>3. ASSUME NEW p \in Nodes \ {n}
          PROVE  EntryFollows(peers'[n][p], ring'[n][p])
      <3>1. CASE peers'[n][p] = peers[n][p] /\ ring'[n][p] = ring[n][p]
        BY <1>2, <3>1
      <3>2. CASE /\ peers[n][p] \in PeerState /\ ring'[n][p] = ring[n][p]
                 /\ peers'[n][p] = [peers[n][p] EXCEPT !.status = "Suspect"]
        BY <3>2 DEF EntryFollows, PeerState, Unknown
      <3>3. CASE /\ peers[n][p] \in PeerState /\ ring'[n][p] = Out
                 /\ peers'[n][p] = [peers[n][p] EXCEPT !.status = "Dead"]
        BY <3>3 DEF EntryFollows, PeerState, Unknown
      <3>4. \/ peers'[n][p] = peers[n][p] /\ ring'[n][p] = ring[n][p]
            \/ /\ peers[n][p] \in PeerState /\ ring'[n][p] = ring[n][p]
               /\ peers'[n][p] = [peers[n][p] EXCEPT !.status = "Suspect"]
            \/ /\ peers[n][p] \in PeerState /\ ring'[n][p] = Out
               /\ peers'[n][p] = [peers[n][p] EXCEPT !.status = "Dead"]
        BY <2>0
      <3>. QED  BY <3>1, <3>2, <3>3, <3>4
    <2>. QED  BY <2>2, <2>3
  <1>5. ASSUME NEW m \in msgs, HandleGossip(m)
        PROVE  /\ ring'[n][n] # Out /\ peers'[n][n] = Unknown
               /\ \A p \in Nodes \ {n} : EntryFollows(peers'[n][p], ring'[n][p])
    <2>1. ring'[n][n] # Out /\ peers'[n][n] = Unknown
      BY <1>2, <1>5, HandleEffect
    <2>2. ASSUME NEW p \in Nodes \ {n}
          PROVE  EntryFollows(peers'[n][p], ring'[n][p])
      <3>1. CASE peers'[n][p] = peers[n][p] /\ ring'[n][p] = ring[n][p]
        BY <1>2, <3>1
      <3>2. CASE /\ m.nodes[p] \in PeerState /\ peers'[n][p] = m.nodes[p]
                 /\ ring'[n][p] = RingAfter(ring[n][p], m.nodes[p])
        <4>1. ring[n][p] \in Addresses \cup {Out}
          BY DEF TypeOK
        <4>2. m.nodes[p] # Unknown
          BY <3>2 DEF PeerState, Unknown, Statuses
        <4>. QED  BY <3>2, <4>1, <4>2, RingAfterType DEF EntryFollows
      <3>. QED  BY <1>5, <3>1, <3>2, HandleEffect
    <2>. QED  BY <2>1, <2>2
  <1>6. ASSUME NEW q \in Nodes, Restart(q)
        PROVE  /\ ring'[n][n] # Out /\ peers'[n][n] = Unknown
               /\ \A p \in Nodes \ {n} : EntryFollows(peers'[n][p], ring'[n][p])
    <2>1. CASE n = q
      <3>1. peers'[n] = SeedView(n) /\ ring'[n] = SeedRing(n)
        BY <1>6, <2>1 DEF Restart, TypeOK
      <3>. QED  BY <3>1, SeedEntries
    <2>2. CASE n # q
      <3>1. peers'[n] = peers[n] /\ ring'[n] = ring[n]
        BY <1>6, <2>2 DEF Restart, TypeOK
      <3>. QED  BY <1>2, <3>1
    <2>. QED  BY <2>1, <2>2
  <1>7. ASSUME \/ \E q \in Nodes : StartRound(q) \/ SendRound(q) \/ Crash(q)
               \/ UNCHANGED vars
        PROVE  UNCHANGED <<peers, ring>>
    BY <1>7 DEF StartRound, SendRound, Crash, vars
  <1>. QED  BY <1>3, <1>4, <1>5, <1>6, <1>7 DEF Next

\* For any cluster and any order of messages, timeouts, crashes and restarts:
\* who is Alive is in the ring, who is Dead or unknown is not, and a node
\* never drops itself.
THEOREM RingAlwaysFollowsStatus == Spec => []RingFollowsStatus
  BY TypeCorrect, RingInit, RingNext, PTL DEF Spec

-----------------------------------------------------------------------------
(***************************************************************************)
(* Heartbeats.                                                             *)
(***************************************************************************)

\* What a view claims of a node, the node has reached.
Honest(view, high) ==
    \A p \in Nodes : view[p] \in PeerState => view[p].heartbeat <= high[p]

HeartbeatsHonest ==
    /\ \A p \in Nodes : heartbeat[p] <= highest[p]
    /\ \A n \in Nodes : Honest(peers[n], highest)
    /\ \A m \in msgs : Honest(m.nodes, highest)

LEMMA HonestInit == Init => HeartbeatsHonest
  <1>. SUFFICES ASSUME Init PROVE HeartbeatsHonest
    OBVIOUS
  <1>1. \A n, p \in Nodes : SeedView(n)[p] \in {SeedState, Unknown}
    BY DEF SeedView
  <1>2. Unknown \notin PeerState /\ SeedState.heartbeat = 0
    BY DEF Unknown, PeerState, Statuses, SeedState
  <1>3. \A n \in Nodes : Honest(peers[n], highest)
    BY <1>1, <1>2 DEF Init, Honest
  <1>. QED  BY <1>3 DEF Init, HeartbeatsHonest

LEMMA HonestNext == TypeOK /\ HeartbeatsHonest /\ [Next]_vars => HeartbeatsHonest'
  <1>. SUFFICES ASSUME TypeOK, HeartbeatsHonest, [Next]_vars
                PROVE  HeartbeatsHonest'
    OBVIOUS
  <1>1. ASSUME NEW n \in Nodes, StartRound(n)
        PROVE  HeartbeatsHonest'
    <2>1. UNCHANGED <<peers, msgs>>
      BY <1>1 DEF StartRound
    <2>2. \A p \in Nodes : highest[p] <= highest'[p] /\ heartbeat'[p] <= highest'[p]
      BY <1>1 DEF StartRound, TypeOK, HeartbeatsHonest
    <2>3. ASSUME NEW view \in Views, Honest(view, highest)
          PROVE  Honest(view, highest')
      <3>1. \A p \in Nodes : view[p] \in PeerState => view[p].heartbeat \in Nat
        BY DEF PeerState
      <3>2. \A p \in Nodes : highest[p] \in Nat /\ highest'[p] \in Nat
        BY <1>1 DEF TypeOK, StartRound
      <3>. QED  BY <2>2, <2>3, <3>1, <3>2 DEF Honest
    <2>4. \A q \in Nodes : peers[q] \in Views
      BY DEF TypeOK
    <2>5. \A m \in msgs : m.nodes \in Views
      BY DEF TypeOK
    <2>. QED  BY <2>1, <2>2, <2>3, <2>4, <2>5 DEF HeartbeatsHonest
  <1>2. ASSUME NEW n \in Nodes, SendRound(n)
        PROVE  HeartbeatsHonest'
    <2>1. /\ UNCHANGED <<heartbeat, peers, highest>>
          /\ \A m \in msgs' : m \in msgs \/ m.nodes = BuildMessage(n)
      BY <1>2 DEF SendRound
    <2>2. Honest(BuildMessage(n), highest)
      <3>1. ASSUME NEW p \in Nodes, p # n
            PROVE  BuildMessage(n)[p] = peers[n][p]
        BY <3>1 DEF BuildMessage, TypeOK, Views
      <3>2. BuildMessage(n)[n].heartbeat = heartbeat[n]
        BY DEF BuildMessage, TypeOK, Views
      <3>. QED  BY <3>1, <3>2 DEF Honest, HeartbeatsHonest
    <2>. QED  BY <2>1, <2>2 DEF HeartbeatsHonest
  <1>3. ASSUME NEW n \in Nodes, NEW late \in SUBSET Nodes, CheckFailures(n, late)
        PROVE  HeartbeatsHonest'
    <2>1. UNCHANGED <<heartbeat, msgs, highest>>
      BY <1>3, CheckEffect
    <2>2. ASSUME NEW q \in Nodes, NEW p \in Nodes, peers'[q][p] \in PeerState
          PROVE  peers'[q][p].heartbeat <= highest[p]
      <3>1. peers[q][p] \in PeerState => peers[q][p].heartbeat <= highest[p]
        BY DEF HeartbeatsHonest, Honest
      <3>2. CASE peers'[q][p] = peers[q][p]
        BY <2>2, <3>1, <3>2
      <3>3. CASE /\ peers[q][p] \in PeerState
                 /\ \/ peers'[q][p] = [peers[q][p] EXCEPT !.status = "Suspect"]
                    \/ peers'[q][p] = [peers[q][p] EXCEPT !.status = "Dead"]
        <4>1. peers'[q][p].heartbeat = peers[q][p].heartbeat
          BY <3>3 DEF PeerState
        <4>. QED  BY <3>1, <3>3, <4>1
      <3>4. \/ peers'[q][p] = peers[q][p]
            \/ /\ peers[q][p] \in PeerState
               /\ \/ peers'[q][p] = [peers[q][p] EXCEPT !.status = "Suspect"]
                  \/ peers'[q][p] = [peers[q][p] EXCEPT !.status = "Dead"]
        BY <1>3, CheckEffect
      <3>. QED  BY <3>2, <3>3, <3>4
    <2>. QED  BY <2>1, <2>2 DEF HeartbeatsHonest, Honest
  <1>4. ASSUME NEW m \in msgs, HandleGossip(m)
        PROVE  HeartbeatsHonest'
    <2>1. UNCHANGED <<heartbeat, highest>> /\ msgs' \subseteq msgs
      BY <1>4, HandleEffect
    <2>2. \A q, p \in Nodes :
              peers'[q][p] = peers[q][p] \/ peers'[q][p] = m.nodes[p]
      BY <1>4, HandleEffect
    <2>. QED  BY <2>1, <2>2 DEF HeartbeatsHonest, Honest
  <1>5. ASSUME NEW n \in Nodes, Crash(n)
        PROVE  HeartbeatsHonest'
    BY <1>5 DEF Crash, HeartbeatsHonest
  <1>6. ASSUME NEW n \in Nodes, Restart(n)
        PROVE  HeartbeatsHonest'
    <2>1. Unknown \notin PeerState /\ SeedState.heartbeat = 0
      BY DEF Unknown, PeerState, Statuses, SeedState
    <2>2. \A p \in Nodes : highest[p] \in Nat
      BY DEF TypeOK
    <2>3. Honest(SeedView(n), highest)
      BY <2>1, <2>2 DEF SeedView, Honest
    <2>4. UNCHANGED <<msgs, highest>>
      BY <1>6 DEF Restart
    <2>5. \A q \in Nodes : peers'[q] = peers[q] \/ peers'[q] = SeedView(n)
      BY <1>6 DEF Restart, TypeOK
    <2>6. \A q \in Nodes : heartbeat'[q] = heartbeat[q] \/ heartbeat'[q] = 0
      BY <1>6 DEF Restart, TypeOK
    <2>. QED  BY <2>2, <2>3, <2>4, <2>5, <2>6 DEF HeartbeatsHonest
  <1>7. CASE UNCHANGED vars
    BY <1>7 DEF vars, HeartbeatsHonest
  <1>. QED  BY <1>1, <1>2, <1>3, <1>4, <1>5, <1>6, <1>7 DEF Next

LEMMA HonestImpliesReal == TypeOK /\ HeartbeatsHonest => HeartbeatsAreReal
  <1>. SUFFICES ASSUME TypeOK, HeartbeatsHonest PROVE HeartbeatsAreReal
    OBVIOUS
  <1>1. ASSUME NEW view \in {peers[n] : n \in Nodes} \cup {m.nodes : m \in msgs},
               NEW p \in Nodes, p \in Known(view)
        PROVE  view[p].heartbeat <= highest[p]
    <2>1. view \in Views /\ Honest(view, highest)
      BY DEF TypeOK, HeartbeatsHonest
    <2>. QED  BY <1>1, <2>1, KnownRecords DEF Honest
  <1>. QED  BY <1>1 DEF HeartbeatsAreReal, HeartbeatsHonest

\* No record and no message claims a heartbeat its node has not reached.
THEOREM HeartbeatsAlwaysReal == Spec => []HeartbeatsAreReal
  <1>1. Spec => []HeartbeatsHonest
    BY TypeCorrect, HonestInit, HonestNext, PTL DEF Spec
  <1>. QED  BY <1>1, TypeCorrect, HonestImpliesReal, PTL

-----------------------------------------------------------------------------
(***************************************************************************)
(* Records move forward.                                                   *)
(***************************************************************************)
Forward(old, new) ==
    \/ new.generation > old.generation
    \/ /\ new.generation = old.generation
       /\ \/ new.heartbeat > old.heartbeat
          \/ /\ new.heartbeat = old.heartbeat
             /\ \/ old.status = "Alive" /\ new.status = "Suspect"
                \/ old.status = "Suspect" /\ new.status = "Dead"

LEMMA ForwardStep ==
    ASSUME TypeOK, [Next]_vars, NEW n \in Nodes, NEW p \in Nodes,
           up[n], up'[n], p \in Known(peers[n]), peers'[n][p] # peers[n][p]
    PROVE  p \in Known(peers'[n]) /\ Forward(peers[n][p], peers'[n][p])
  <1>1. peers[n][p] \in PeerState /\ peers[n][p] # Unknown /\ Unknown \notin PeerState
    <2>1. peers[n] \in Views
      BY DEF TypeOK
    <2>2. Unknown \notin PeerState
      BY DEF Unknown, PeerState, Statuses
    <2>. QED  BY <2>1, <2>2 DEF Known, Views
  <1>2. ASSUME NEW q \in Nodes, NEW late \in SUBSET Nodes, CheckFailures(q, late)
        PROVE  p \in Known(peers'[n]) /\ Forward(peers[n][p], peers'[n][p])
    <2>1. CASE /\ peers[n][p].status = "Alive"
               /\ peers'[n][p] = [peers[n][p] EXCEPT !.status = "Suspect"]
      <3>1. peers'[n][p] \in PeerState
        BY <1>1, <2>1 DEF PeerState, Statuses
      <3>2. Forward(peers[n][p], peers'[n][p])
        BY <1>1, <2>1 DEF Forward, PeerState
      <3>. QED  BY <1>1, <3>1, <3>2 DEF Known
    <2>2. CASE /\ peers[n][p].status = "Suspect"
               /\ peers'[n][p] = [peers[n][p] EXCEPT !.status = "Dead"]
      <3>1. peers'[n][p] \in PeerState
        BY <1>1, <2>2 DEF PeerState, Statuses
      <3>2. Forward(peers[n][p], peers'[n][p])
        BY <1>1, <2>2 DEF Forward, PeerState
      <3>. QED  BY <1>1, <3>1, <3>2 DEF Known
    <2>. QED  BY <1>2, <2>1, <2>2, CheckEffect
  <1>3. ASSUME NEW m \in msgs, HandleGossip(m)
        PROVE  p \in Known(peers'[n]) /\ Forward(peers[n][p], peers'[n][p])
    <2>1. /\ peers'[n][p] = m.nodes[p] /\ m.nodes[p] \in PeerState
          /\ Supersedes(m.nodes[p], peers[n][p])
      BY <1>3, HandleEffect
    <2>. QED  BY <1>1, <2>1 DEF Supersedes, Forward, Known
  <1>4. ASSUME NEW q \in Nodes, Restart(q)
        PROVE  peers'[n] = peers[n]
    BY <1>4 DEF Restart, TypeOK
  <1>5. ASSUME \/ \E q \in Nodes : StartRound(q) \/ SendRound(q) \/ Crash(q)
               \/ UNCHANGED vars
        PROVE  peers' = peers
    BY <1>5 DEF StartRound, SendRound, Crash, vars
  <1>. QED  BY <1>2, <1>3, <1>4, <1>5 DEF Next

\* However messages overtake each other, a running process replaces a record
\* only by a newer one, and changes a verdict by itself only one step at a time.
THEOREM RecordsAlwaysForward == Spec => RecordsMoveForward
  <1>1. TypeOK /\ [Next]_vars =>
          [\A n, p \in Nodes :
            up[n] /\ up'[n] /\ p \in Known(peers[n]) /\ peers'[n][p] # peers[n][p] =>
              LET old == peers[n][p]
                  new == peers'[n][p]
              IN  /\ p \in Known(peers'[n])
                  /\ \/ new.generation > old.generation
                     \/ /\ new.generation = old.generation
                        /\ \/ new.heartbeat > old.heartbeat
                           \/ /\ new.heartbeat = old.heartbeat
                              /\ \/ old.status = "Alive" /\ new.status = "Suspect"
                                 \/ old.status = "Suspect" /\ new.status = "Dead"]_vars
    BY ForwardStep DEF Forward
  <1>. QED  BY <1>1, TypeCorrect, PTL DEF Spec, RecordsMoveForward

-----------------------------------------------------------------------------
(***************************************************************************)
(* Gossip implements Membership.                                           *)
(***************************************************************************)
MembersOf(r, n) == {p \in Nodes : r[n][p] # Out}

\* A step changes the members of at most one ring.
LEMMA OneRingAtATime ==
    ASSUME TypeOK, [Next]_vars
    PROVE  \/ \A n \in Nodes : MembersOf(ring', n) = MembersOf(ring, n)
           \/ \E q \in Nodes : \A n \in Nodes \ {q} : ring'[n] = ring[n]
  <1>1. ASSUME NEW q \in Nodes, NEW late \in SUBSET Nodes, CheckFailures(q, late)
        PROVE  \A n \in Nodes \ {q} : ring'[n] = ring[n]
    BY <1>1 DEF CheckFailures, TypeOK
  <1>2. ASSUME NEW m \in msgs, HandleGossip(m)
        PROVE  m.to \in Nodes /\ \A n \in Nodes \ {m.to} : ring'[n] = ring[n]
    BY <1>2 DEF HandleGossip, TypeOK
  <1>3. ASSUME NEW q \in Nodes, Restart(q)
        PROVE  \A n \in Nodes \ {q} : ring'[n] = ring[n]
    BY <1>3 DEF Restart, TypeOK
  <1>4. ASSUME \/ \E q \in Nodes : StartRound(q) \/ SendRound(q) \/ Crash(q)
               \/ UNCHANGED vars
        PROVE  ring' = ring
    BY <1>4 DEF StartRound, SendRound, Crash, vars
  <1>. QED  BY <1>1, <1>2, <1>3, <1>4 DEF Next

LEMMA RevisionStep ==
    ASSUME TypeOK, RingFollowsStatus', [Next]_vars
    PROVE  [M!Next]_[n \in Nodes |-> {p \in Nodes : ring[n][p] # Out}]
  <1>. DEFINE old == [n \in Nodes |-> {p \in Nodes : ring[n][p] # Out}]
              new == [n \in Nodes |-> {p \in Nodes : ring'[n][p] # Out}]
  <1>1. CASE \A n \in Nodes : MembersOf(ring', n) = MembersOf(ring, n)
    <2>1. new = old
      BY <1>1 DEF MembersOf
    <2>. QED  BY <2>1
  <1>2. ASSUME NEW q \in Nodes, \A n \in Nodes \ {q} : ring'[n] = ring[n]
        PROVE  M!Revise(q)
    <2>1. q \in new[q] /\ new[q] \in SUBSET Nodes
      BY DEF RingFollowsStatus
    <2>2. new = [old EXCEPT ![q] = new[q]]
      BY <1>2
    <2>. QED  BY <2>1, <2>2 DEF M!Revise
  <1>. QED  BY <1>1, <1>2, OneRingAtATime DEF M!Next

\* For any cluster and any order of messages, timeouts, crashes and restarts,
\* the rings behave as module Membership says; what Replication is proved to
\* do with any such membership it does with this one.
THEOREM GossipImplementsMembership == Spec => ImplementsMembership
  <1>1. Init => M!Init
    <2>. SUFFICES ASSUME Init PROVE M!Init
      OBVIOUS
    <2>1. ASSUME NEW n \in Nodes
          PROVE  {p \in Nodes : ring[n][p] # Out} = Seeds[n] \cup {n}
      BY SeedsAssumption DEF Init, SeedRing, Out
    <2>. QED  BY <2>1 DEF M!Init
  <1>2. TypeOK /\ RingFollowsStatus' /\ [Next]_vars =>
           [M!Next]_[n \in Nodes |-> {p \in Nodes : ring[n][p] # Out}]
    BY RevisionStep
  <1>. QED  BY <1>1, <1>2, TypeCorrect, RingAlwaysFollowsStatus, PTL
            DEF Spec, ImplementsMembership, M!Spec
=============================================================================
