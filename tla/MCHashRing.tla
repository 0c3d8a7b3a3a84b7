----------------------------- MODULE MCHashRing -----------------------------
(***************************************************************************)
(* Instances of HashRing for TLC.                                          *)
(***************************************************************************)
EXTENDS HashRing

CONSTANTS n1, n2, n3

Symmetry == Permutations(Ids)
=============================================================================
