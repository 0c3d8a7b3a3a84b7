----------------------------- MODULE Membership -----------------------------
(***************************************************************************)
(* What the gossip service promises to the rest of a node                  *)
(* (src/src/gossip/detector.rs, through the ring it shares with the        *)
(* coordinator): every node has a view of the members of its own, which    *)
(* starts as its seeds and itself, always contains itself, and is revised  *)
(* without regard to what the other nodes believe.  Nothing is promised    *)
(* about agreement.                                                        *)
(*                                                                         *)
(* Gossip implements this specification, and Replication works with any    *)
(* membership that does.                                                   *)
(***************************************************************************)
CONSTANTS
    Nodes,   \* the nodes of the cluster
    Seeds    \* Seeds[n]: the peers named in n's --seeds

VARIABLE view   \* view[n]: the nodes in n's hash ring

Init == view = [n \in Nodes |-> Seeds[n] \cup {n}]

\* Node n hears of other nodes, gives some up, or starts over.
Revise(n) ==
    \E members \in SUBSET Nodes :
        /\ n \in members
        /\ view' = [view EXCEPT ![n] = members]

Next == \E n \in Nodes : Revise(n)

Spec == Init /\ [][Next]_view
=============================================================================
