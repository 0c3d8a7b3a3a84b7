------------------------------- MODULE Gossip -------------------------------
(***************************************************************************)
(* Membership and failure detection (src/src/gossip/detector.rs), and the  *)
(* hash ring as far as membership goes.                                    *)
(*                                                                         *)
(* Every node keeps a record of each peer it knows and spreads its records *)
(* to some peers every round.  A record with a higher generation, or the   *)
(* same generation and a higher heartbeat, replaces an older one; a record *)
(* not replaced for long enough becomes Suspect, then Dead.  The ring is   *)
(* updated under the lock of the peers map, so each handler is one step.   *)
(*                                                                         *)
(* Messages are sent by tasks of their own: they may be overtaken, delayed *)
(* and lost (a message that is never delivered).  The answer to a message  *)
(* is ignored by its sender.  Time is abstract: a check may find the       *)
(* timeout of any peer that is not yet Dead to have run out since its      *)
(* last_seen, or not.                                                      *)
(***************************************************************************)
EXTENDS Naturals, FiniteSets

CONSTANTS
    Nodes,         \* the nodes of the cluster
    Seeds,         \* Seeds[n]: the peers named in n's --seeds
    Fanout,        \* peers gossiped to in one round
    MaxHeartbeat,  \* bound: MaxHeartbeat[n] gossip rounds of each process of n
    MaxDown,       \* bound: processes down at one time
    MaxRestarts,   \* bound: restarts in the cluster
    MaxInTransit   \* bound: messages under way

\* A node does not name itself as a seed.
ASSUME SeedsAssumption ==
    Seeds \in [Nodes -> SUBSET Nodes] /\ \A n \in Nodes : n \notin Seeds[n]
ASSUME FanoutAssumption == Fanout \in Nat

VARIABLES
    up,         \* up[n]: n's process runs
    heartbeat,  \* heartbeat[n]: heartbeat_counter
    peers,      \* peers[n][p]: n's record of p, or Unknown
    ring,       \* ring[n][p]: the address of p in n's ring, or Out
    targets,    \* targets[n]: the peers the running round will send to
    msgs,       \* gossip messages under way
    restarts,   \* number of restarts so far
    highest     \* history: the highest heartbeat any process of n had

vars == <<up, heartbeat, peers, ring, targets, msgs, restarts, highest>>

Statuses == {"Alive", "Suspect", "Dead"}

\* An address that leads to its node, and String::new().
Addresses == {"addr", "blank"}
Out == "out"

PeerState ==
    [status: Statuses, address: Addresses, heartbeat: Nat, generation: Nat]
Unknown == [status |-> "Unknown"]
Views == [Nodes -> PeerState \cup {Unknown}]

Known(view) == {p \in Nodes : view[p] # Unknown}

-----------------------------------------------------------------------------
(***************************************************************************)
(* Start-up: GossipService::new, then add_seed for every seed.             *)
(***************************************************************************)
SeedState ==
    [status |-> "Alive", address |-> "addr", heartbeat |-> 0, generation |-> 0]

SeedView(n) ==
    [p \in Nodes |-> IF p \in Seeds[n] THEN SeedState ELSE Unknown]

SeedRing(n) ==
    [p \in Nodes |-> IF p \in Seeds[n] \cup {n} THEN "addr" ELSE Out]

Init ==
    /\ up = [n \in Nodes |-> TRUE]
    /\ heartbeat = [n \in Nodes |-> 0]
    /\ peers = [n \in Nodes |-> SeedView(n)]
    /\ ring = [n \in Nodes |-> SeedRing(n)]
    /\ targets = [n \in Nodes |-> {}]
    /\ msgs = {}
    /\ restarts = 0
    /\ highest = [n \in Nodes |-> 0]

-----------------------------------------------------------------------------
(***************************************************************************)
(* gossip_round.                                                           *)
(***************************************************************************)
NotDead(view) == {p \in Known(view) : view[p].status # "Dead"}

Least(a, b) == IF a <= b THEN a ELSE b

\* choose_multiple: Fanout of the peers, or all when there are fewer.
Choices(candidates) ==
    {s \in SUBSET candidates :
        Cardinality(s) = Least(Fanout, Cardinality(candidates))}

\* The first part of gossip_round, up to the choice of targets.  A connection
\* to a blank address fails: such a target gets nothing.
StartRound(n) ==
    /\ up[n] /\ targets[n] = {}
    /\ heartbeat[n] < MaxHeartbeat[n]
    /\ heartbeat' = [heartbeat EXCEPT ![n] = @ + 1]
    /\ highest' = [highest EXCEPT ![n] = IF @ < heartbeat'[n] THEN heartbeat'[n] ELSE @]
    /\ \E s \in Choices(NotDead(peers[n])) :
          targets' = [targets EXCEPT ![n] =
                         {p \in s : peers[n][p].address # "blank"}]
    /\ UNCHANGED <<up, peers, ring, msgs, restarts>>

\* Mutant of BuildMessage: the heartbeat of the next round is announced.
BuildMessageAhead(n) ==
    [peers[n] EXCEPT ![n] =
        [status |-> "Alive", address |-> "blank",
         heartbeat |-> heartbeat[n] + 1, generation |-> 1]]

\* build_gossip_message: the records of all peers, and the sender's own.
BuildMessage(n) ==
    [peers[n] EXCEPT ![n] =
        [status |-> "Alive", address |-> "blank",
         heartbeat |-> heartbeat[n], generation |-> 1]]

\* The second part: the peers map is locked again to build the message.
SendRound(n) ==
    /\ up[n] /\ targets[n] # {}
    /\ Cardinality(msgs) + Cardinality(targets[n]) <= MaxInTransit
    /\ msgs' = msgs \cup {[to |-> p, nodes |-> BuildMessage(n)] : p \in targets[n]}
    /\ targets' = [targets EXCEPT ![n] = {}]
    /\ UNCHANGED <<up, heartbeat, peers, ring, restarts, highest>>

-----------------------------------------------------------------------------
(***************************************************************************)
(* handle_gossip.                                                          *)
(***************************************************************************)

\* Mutant of Supersedes: a record as new as the old one replaces it.
SupersedesEqual(new, old) ==
    \/ old = Unknown
    \/ new.generation > old.generation
    \/ new.generation = old.generation /\ new.heartbeat >= old.heartbeat

Supersedes(new, old) ==
    \/ old = Unknown
    \/ new.generation > old.generation
    \/ new.generation = old.generation /\ new.heartbeat > old.heartbeat

\* Mutant of Accepted: what others say of the node itself counts as well.
AcceptedOfSelf(n, view) ==
    {p \in Known(view) : Supersedes(view[p], peers[n][p])}

\* The peers whose records a message replaces.
Accepted(n, view) ==
    {p \in Known(view) : p # n /\ Supersedes(view[p], peers[n][p])}

\* Mutant of RingAfter: dead nodes stay in the ring.
RingAfterKeepsDead(old, new) ==
    IF new.status = "Alive" THEN new.address ELSE old

\* What becomes of the entry of a peer in the ring when its record is replaced.
RingAfter(old, new) ==
    CASE new.status = "Dead"  -> Out
      [] new.status = "Alive" -> new.address
      [] OTHER                -> old

HandleGossip(m) ==
    LET n == m.to
        acc == Accepted(n, m.nodes)
    IN  /\ m \in msgs /\ up[n]
        /\ msgs' = msgs \ {m}
        /\ peers' = [peers EXCEPT ![n] =
                       [p \in Nodes |-> IF p \in acc THEN m.nodes[p] ELSE @[p]]]
        /\ ring' = [ring EXCEPT ![n] =
                       [p \in Nodes |-> IF p \in acc THEN RingAfter(@[p], m.nodes[p])
                                                     ELSE @[p]]]
        /\ UNCHANGED <<up, heartbeat, targets, restarts, highest>>

-----------------------------------------------------------------------------
(***************************************************************************)
(* check_failures.  late is the set of peers whose last_seen is further    *)
(* back than the timeout for their status: suspect_timeout for an Alive    *)
(* peer, dead_timeout for a Suspect.                                       *)
(***************************************************************************)

\* Mutant of CheckFailures: a Suspect is never given up.
CheckFailuresSuspectsOnly(n, late) ==
    /\ up[n]
    /\ late \subseteq NotDead(peers[n])
    /\ peers' = [peers EXCEPT ![n] =
                   [p \in Nodes |->
                       IF p \in late THEN [@[p] EXCEPT !.status = "Suspect"] ELSE @[p]]]
    /\ UNCHANGED <<up, heartbeat, ring, targets, msgs, restarts, highest>>

CheckFailures(n, late) ==
    LET suspects == {p \in late : peers[n][p].status = "Alive"}
        dead     == {p \in late : peers[n][p].status = "Suspect"}
    IN  /\ up[n]
        /\ late \subseteq NotDead(peers[n])
        /\ peers' = [peers EXCEPT ![n] =
                       [p \in Nodes |->
                           CASE p \in suspects -> [@[p] EXCEPT !.status = "Suspect"]
                             [] p \in dead     -> [@[p] EXCEPT !.status = "Dead"]
                             [] OTHER          -> @[p]]]
        /\ ring' = [ring EXCEPT ![n] =
                       [p \in Nodes |-> IF p \in dead THEN Out ELSE @[p]]]
        /\ UNCHANGED <<up, heartbeat, targets, msgs, restarts, highest>>

-----------------------------------------------------------------------------
(***************************************************************************)
(* Processes die, and start again with an empty map and counter.           *)
(***************************************************************************)
Crash(n) ==
    /\ up[n]
    /\ Cardinality({p \in Nodes : ~up[p]}) < MaxDown
    /\ up' = [up EXCEPT ![n] = FALSE]
    /\ targets' = [targets EXCEPT ![n] = {}]
    /\ UNCHANGED <<heartbeat, peers, ring, msgs, restarts, highest>>

Restart(n) ==
    /\ ~up[n]
    /\ restarts < MaxRestarts
    /\ restarts' = restarts + 1
    /\ up' = [up EXCEPT ![n] = TRUE]
    /\ heartbeat' = [heartbeat EXCEPT ![n] = 0]
    /\ peers' = [peers EXCEPT ![n] = SeedView(n)]
    /\ ring' = [ring EXCEPT ![n] = SeedRing(n)]
    /\ UNCHANGED <<targets, msgs, highest>>

Next ==
    \/ \E n \in Nodes :
          \/ StartRound(n) \/ SendRound(n)
          \/ \E late \in SUBSET Nodes : CheckFailures(n, late)
          \/ Crash(n) \/ Restart(n)
    \/ \E m \in msgs : HandleGossip(m)

Spec == Init /\ [][Next]_vars

\* Nobody hears from a node that is down, except by messages already under
\* way: its peers' checks, one a second, eventually find it late.
FindLate(n, p) ==
    ~up[p] /\ \E late \in SUBSET Nodes : p \in late /\ CheckFailures(n, late)

Fairness == \A n, p \in Nodes : WF_vars(FindLate(n, p))

FairSpec == Spec /\ Fairness

-----------------------------------------------------------------------------
(***************************************************************************)
(* Properties.                                                             *)
(***************************************************************************)

\* Type correctness.
TypeOK ==
    /\ up \in [Nodes -> BOOLEAN]
    /\ heartbeat \in [Nodes -> Nat] /\ highest \in [Nodes -> Nat]
    /\ peers \in [Nodes -> Views]
    /\ ring \in [Nodes -> [Nodes -> Addresses \cup {Out}]]
    /\ targets \in [Nodes -> SUBSET Nodes]
    /\ msgs \subseteq [to: Nodes, nodes: Views]
    /\ restarts \in Nat

\* The ring follows the verdicts: a peer held Alive is in the ring, a peer
\* held Dead or not known at all is not, in whatever order gossip, timeouts
\* and stale messages arrive.  (A Suspect is left as it was.)  A node is
\* always in its own ring.
RingFollowsStatus ==
    \A n \in Nodes :
        /\ ring[n][n] # Out /\ peers[n][n] = Unknown
        /\ \A p \in Nodes \ {n} :
              IF p \in Known(peers[n])
              THEN /\ peers[n][p].status = "Alive" => ring[n][p] # Out
                   /\ peers[n][p].status = "Dead" => ring[n][p] = Out
              ELSE ring[n][p] = Out

\* Nobody, and no message under way, has a heartbeat of a node that the node
\* has not reached itself.
HeartbeatsAreReal ==
    \A p \in Nodes :
        /\ heartbeat[p] <= highest[p]
        /\ \A view \in {peers[n] : n \in Nodes} \cup {m.nodes : m \in msgs} :
              p \in Known(view) => view[p].heartbeat <= highest[p]

\* As long as a process runs, its records only move forward, however messages
\* overtake each other; and a Dead peer comes back only with news of it.
RecordsMoveForward ==
    [][\A n, p \in Nodes :
          up[n] /\ up'[n] /\ p \in Known(peers[n]) /\ peers'[n][p] # peers[n][p] =>
              LET old == peers[n][p]
                  new == peers'[n][p]
              IN  /\ p \in Known(peers'[n])
                  /\ \/ new.generation > old.generation
                     \/ /\ new.generation = old.generation
                        /\ \/ new.heartbeat > old.heartbeat
                           \/ /\ new.heartbeat = old.heartbeat
                              /\ \/ old.status = "Alive" /\ new.status = "Suspect"
                                 \/ old.status = "Suspect" /\ new.status = "Dead"]_vars

\* A node that stays down leaves the ring of every node that stays up, for
\* good: stale messages about it run out.
DeadLeaveTheRing ==
    \A n, p \in Nodes :
        (<>[](up[n] /\ ~up[p])) => <>[](ring[n][p] = Out)

\* The members of the ring of each node, as the coordinator sees them.
M == INSTANCE Membership WITH
        view <- [n \in Nodes |-> {p \in Nodes : ring[n][p] # Out}]

\* What the rest of a node relies on (module Membership): its ring starts as
\* its seeds and itself, always contains the node, whatever others believe of
\* it, and no step revises the rings of two nodes.
ImplementsMembership == M!Spec

-----------------------------------------------------------------------------
(***************************************************************************)
(* What a comment of the code says and the code does not do; a run finds   *)
(* it violated.                                                            *)
(***************************************************************************)

\* detector.rs:273: "filled by receiver".  A record a node holds has an
\* address it can connect to.
ReceiverFillsAddress ==
    \A n \in Nodes : \A p \in Known(peers[n]) : peers[n][p].address # "blank"
=============================================================================
