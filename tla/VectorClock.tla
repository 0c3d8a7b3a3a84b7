---------------------------- MODULE VectorClock ----------------------------
(***************************************************************************)
(* Vector clocks (src/src/storage/memtable.rs).  A clock is a map from     *)
(* node ids to counters; a node without an entry counts 0, and entries are *)
(* never 0, so a total function has the same information.                  *)
(***************************************************************************)
EXTENDS Naturals

CONSTANT Nodes

Clocks == [Nodes -> Nat]

EmptyClock == [n \in Nodes |-> 0]

\* VectorClock::increment.
Increment(c, n) == [c EXCEPT ![n] = @ + 1]

\* VectorClock::merge.
Merge(a, b) == [n \in Nodes |-> IF a[n] >= b[n] THEN a[n] ELSE b[n]]

\* No entry of b is above that of a.
Covers(a, b) == \A n \in Nodes : a[n] >= b[n]

\* VectorClock::dominates.
Dominates(a, b) == Covers(a, b) /\ \E n \in Nodes : a[n] > b[n]
=============================================================================
