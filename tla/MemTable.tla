------------------------------ MODULE MemTable ------------------------------
(***************************************************************************)
(* The in-memory sorted table (src/src/storage/memtable.rs): a map from    *)
(* keys to versions under one RwLock, so that each operation below is one  *)
(* step, and a running estimate of its size that put adjusts by            *)
(* differences and evict_expired recomputes.                               *)
(***************************************************************************)
EXTENDS VersionedValue, FiniteSets, Functions

CONSTANTS
    EntryBytes,   \* what an entry costs beside its payload (key.len() + 128)
    MaxSizeBytes  \* memtable_max_bytes

\* usize, and the sum over a table is over finitely many entries.
ASSUME MemTableAssumption == EntryBytes \in Nat /\ IsFiniteSet(Keys)

VARIABLES
    data,         \* the BTreeMap, total on Keys: Absent where it has no entry
    size_bytes,   \* the size estimate
    now           \* the wall clock (SystemTime::now), external

memVars == <<data, size_bytes>>

Tables == [Keys -> Version \cup {Absent}]

EmptyTable == [k \in Keys |-> Absent]

EntrySize(v) == IF v = Absent THEN 0 ELSE EntryBytes + v.len

\* The sum evict_expired takes over the entries it keeps.
TableSize(d) == SumFunction([k \in Keys |-> EntrySize(d[k])])

MemInit == data = EmptyTable /\ size_bytes = 0

-----------------------------------------------------------------------------
\* Mutant of MemPut: the size of the replaced entry is not taken off.
MemPutAddsOnly(k, v) ==
    /\ data' = [data EXCEPT ![k] = v]
    /\ size_bytes' = size_bytes + EntrySize(v)

\* MemTable::put: unconditional overwrite.
MemPut(k, v) ==
    /\ data' = [data EXCEPT ![k] = v]
    /\ size_bytes' = size_bytes - EntrySize(data[k]) + EntrySize(v)

\* The result of put: the table is full and should be flushed.
ShouldFlush == size_bytes' >= MaxSizeBytes

\* Mutant of MemEvict: entries go at their deadline, not after it.
MemEvictEarly ==
    /\ data' = [k \in Keys |->
                   IF /\ data[k] # Absent
                      /\ data[k].deadline # Never /\ now >= data[k].deadline
                   THEN Absent ELSE data[k]]
    /\ size_bytes' = TableSize(data')

\* Mutant of MemEvict: the size estimate is not brought up to date.
MemEvictKeepsSize ==
    /\ data' = [k \in Keys |->
                   IF data[k] # Absent /\ IsExpired(data[k], now)
                   THEN Absent ELSE data[k]]
    /\ UNCHANGED size_bytes

\* MemTable::evict_expired.
MemEvict ==
    /\ data' = [k \in Keys |->
                   IF data[k] # Absent /\ IsExpired(data[k], now)
                   THEN Absent ELSE data[k]]
    /\ size_bytes' = TableSize(data')
=============================================================================
