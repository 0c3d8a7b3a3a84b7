-------------------------- MODULE MCStorageEngine --------------------------
(***************************************************************************)
(* Instances of StorageEngine for TLC.                                     *)
(***************************************************************************)
EXTENDS StorageEngine, TLC

CONSTANTS k1, k2

Symmetry == Permutations(Keys)

\* Values that never expire and values that expire at time 0.
MCDeadlines == {Never, 0}
MCNever == {Never}
=============================================================================
