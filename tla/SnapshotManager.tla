-------------------------- MODULE SnapshotManager --------------------------
(***************************************************************************)
(* The snapshot directory (src/src/storage/snapshot.rs): files named after *)
(* the millisecond at which save started, so that a second save within the *)
(* same millisecond truncates the file of the first.  save writes in       *)
(* place: between File::create and the last write the file exists and      *)
(* fails its checksum.                                                     *)
(***************************************************************************)
EXTENDS MemTable, FiniteSets

CONSTANT MaxSnapshots   \* how many files cleanup keeps (3 in server.rs)

ASSUME MaxSnapshotsAssumption == MaxSnapshots \in Nat \ {0}

VARIABLES
    files,   \* timestamp |-> contents of snapshot_<timestamp>.dat
    saving   \* the timestamp in the name of the file save writes

snapVars == <<files, saving>>

\* A file that fails its checksum has no contents a reader could tell apart.
Partial == [whole |-> FALSE, table |-> EmptyTable]
Whole(d) == [whole |-> TRUE, table |-> d]

SnapTypeOK ==
    /\ DOMAIN files \subseteq Nat
    /\ \A n \in DOMAIN files :
          files[n] \in [whole: BOOLEAN, table: Tables]
    /\ saving \in Nat

SnapInit == files = << >> /\ saving = 0

WithFile(n, contents) ==
    [m \in DOMAIN files \cup {n} |-> IF m = n THEN contents ELSE files[m]]

\* SnapshotManager::save up to File::create ...
SnapCreate ==
    /\ saving' = now
    /\ files' = WithFile(now, Partial)

\* ... and from there to the flush of the last byte.
SnapWrite(d) ==
    /\ files' = WithFile(saving, Whole(d))
    /\ UNCHANGED saving

\* find_latest: the highest timestamp.
IsLatest(n) == n \in DOMAIN files /\ \A m \in DOMAIN files : m <= n
IsOldest(n) == n \in DOMAIN files /\ \A m \in DOMAIN files : n <= m

TooMany == Cardinality(DOMAIN files) > MaxSnapshots

\* Mutant of SnapRemoveOldest: the list is sorted the wrong way round.
SnapRemoveNewest ==
    /\ TooMany
    /\ \E n \in DOMAIN files :
          /\ IsLatest(n)
          /\ files' = [m \in DOMAIN files \ {n} |-> files[m]]
    /\ UNCHANGED saving

\* One iteration of the loop in SnapshotManager::cleanup.
SnapRemoveOldest ==
    /\ TooMany
    /\ \E n \in DOMAIN files :
          /\ IsOldest(n)
          /\ files' = [m \in DOMAIN files \ {n} |-> files[m]]
    /\ UNCHANGED saving

\* load_latest returns Ok: there is no snapshot, or the latest one verifies.
\* It does not fall back to an older file.
Loadable == \A n \in DOMAIN files : IsLatest(n) => files[n].whole

\* What load_latest returns when it does; the empty table without a snapshot.
LoadLatest ==
    IF \E n \in DOMAIN files : IsLatest(n)
    THEN files[CHOOSE n \in DOMAIN files : IsLatest(n)].table
    ELSE EmptyTable
=============================================================================
