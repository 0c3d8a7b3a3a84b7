------------------------------ MODULE MCGossip ------------------------------
(***************************************************************************)
(* Instances of Gossip for TLC.                                            *)
(***************************************************************************)
EXTENDS Gossip, TLC

CONSTANTS n1, n2, n3

\* Each node but the last names the next one; or n2 names n1.
ChainSeeds == (n1 :> {n2}) @@ (n2 :> {n3}) @@ (n3 :> {})
PairSeeds == (n1 :> {}) @@ (n2 :> {n1})

\* Gossip rounds.  n3 knows nobody it could connect to.
TwoOneNone == (n1 :> 2) @@ (n2 :> 1) @@ (n3 :> 0)
OneEach == [n \in Nodes |-> 1]
=============================================================================
