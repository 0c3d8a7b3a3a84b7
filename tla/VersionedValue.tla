--------------------------- MODULE VersionedValue ---------------------------
(***************************************************************************)
(* The values the storage engine keeps (src/src/storage/memtable.rs), as   *)
(* far as storage, recovery and expiry can tell them apart:                *)
(*                                                                         *)
(*   - value     the payload.  Each write carries a payload of its own, so *)
(*               that a property can tell which write a key holds;         *)
(*   - len       the payload's length, for the MemTable's size estimate;   *)
(*   - deadline  timestamp_ms + ttl_ms, or Never when ttl_ms <= 0;         *)
(*   - deleted   the tombstone marker.                                     *)
(*                                                                         *)
(* The vector clock, which storage copies and never inspects, is modelled  *)
(* in module VectorClock.                                                  *)
(***************************************************************************)
EXTENDS Integers

CONSTANTS
    Keys,         \* the keys of the store
    Absent,       \* what a lookup that finds nothing returns (None)
    TombstoneTtl  \* the ttl_ms of a tombstone (300_000 in the code)

\* ttl_ms <= 0: the value does not expire.
Never == -1

Version == [value: Nat, len: Nat, deadline: Nat \cup {Never}, deleted: BOOLEAN]

\* None is not a value.
ASSUME AbsentAssumption == Absent \notin Version
ASSUME TombstoneTtlAssumption == TombstoneTtl \in Nat

\* VersionedValue::new.
NewVersion(id, len, deadline) ==
    [value |-> id, len |-> len, deadline |-> deadline, deleted |-> FALSE]

\* VersionedValue::tombstone: an empty payload that expires after a while.
Tombstone(id, now) ==
    [value |-> id, len |-> 0, deadline |-> now + TombstoneTtl, deleted |-> TRUE]

\* VersionedValue::is_expired.
IsExpired(v, now) == v.deadline # Never /\ now > v.deadline

\* What a reader sees of a stored entry, by MemTable::get or in a scan: neither
\* tombstones nor expired values.
Visible(v, now) ==
    IF v = Absent \/ v.deleted \/ IsExpired(v, now) THEN Absent ELSE v
=============================================================================
