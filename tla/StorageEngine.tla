--------------------------- MODULE StorageEngine ---------------------------
(***************************************************************************)
(* The storage engine of one node (src/src/storage/engine.rs): MemTable,   *)
(* write-ahead log and snapshots, used at once by the request handlers,    *)
(* the snapshot task and the TTL reaper, and killed and reopened at any    *)
(* moment.                                                                 *)
(*                                                                         *)
(* put and delete take the log's mutex for the append and the MemTable's   *)
(* lock for the insertion, and hold neither in between.  flush clones the  *)
(* table, saves the clone, deletes old snapshots and truncates the log,    *)
(* taking each lock on its own.  Those are the steps below.                *)
(***************************************************************************)
EXTENDS SnapshotManager, WriteAheadLog

CONSTANTS
    Lens,        \* payload lengths of the puts
    Deadlines,   \* expiry times of the puts, Never among them
    MaxInFlight, \* bound: requests between append and insertion at one time
    MaxWrites,   \* bound: puts and deletes
    MaxTime,     \* bound: the wall clock
    MaxFaults,   \* bound: crashes and failed appends, together
    MayTear      \* whether an append may fail or be cut short by a crash

ASSUME InputsAssumption ==
    Lens \subseteq Nat /\ Deadlines \subseteq Nat \cup {Never}

VARIABLES
    up,        \* the process runs
    inflight,  \* writes that are in the log and not yet in the table
    phase,     \* where the snapshot task is in flush
    clone,     \* the table flush cloned
    notified,  \* flush_notify holds a permit
    writes,    \* number of writes so far; each write's payload is its number
    faults,    \* number of crashes and failed appends so far
    overlap,   \* history: keys written while the running flush was under way
    exposed    \* history: keys that log and snapshots may have lost track of

engineVars == <<up, inflight, phase, clone, notified>>
history    == <<writes, faults, overlap, exposed>>
vars == <<memVars, now, walVars, snapVars, engineVars, history>>

Op == [key: Keys, value: Version]
Phases == {"idle", "create", "write", "cleanup", "truncate"}

KeysOf(ops) == {o.key : o \in ops}

Init ==
    /\ MemInit /\ WalInit /\ SnapInit
    /\ now = 0
    /\ up = TRUE /\ inflight = {} /\ phase = "idle"
    /\ clone = EmptyTable /\ notified = FALSE
    /\ writes = 0 /\ faults = 0 /\ overlap = {} /\ exposed = {}

-----------------------------------------------------------------------------
(***************************************************************************)
(* put and delete.                                                         *)
(***************************************************************************)

\* The first half of put and delete: the append.  The history variables note
\* a write that shares its key with a write still in flight, one that starts
\* while a flush is under way, and the damage of writing onto an open line.
Log(k, v) ==
    /\ up
    /\ writes < MaxWrites
    /\ Cardinality(inflight) < MaxInFlight
    /\ WalAppend(k, v)
    /\ inflight' = inflight \cup {[key |-> k, value |-> v]}
    /\ writes' = writes + 1
    /\ overlap' = overlap \cup (IF phase = "idle" THEN {} ELSE {k})
    /\ exposed' = exposed \cup Fragile
                          \cup (IF Dangling THEN {k} ELSE {})
                          \cup ({k} \cap KeysOf(inflight))
    /\ UNCHANGED <<memVars, now, snapVars, up, phase, clone, notified, faults>>

NewVersions == {NewVersion(writes + 1, len, d) : len \in Lens, d \in Deadlines}
NewTombstone == Tombstone(writes + 1, now)

PutLog(k) == \E v \in NewVersions : Log(k, v)

DeleteLog(k) == Log(k, NewTombstone)

\* The append fails: the handler returns the error and the table stays as it
\* is, while the entry may be in the log or get there later.
LogFails(k) ==
    /\ up /\ MayTear
    /\ writes < MaxWrites
    /\ faults < MaxFaults
    /\ \E v \in NewVersions \cup {NewTombstone} : WalAppendFails(k, v)
    /\ writes' = writes + 1
    /\ faults' = faults + 1
    /\ exposed' = exposed \cup Fragile \cup {k}
    /\ UNCHANGED <<memVars, now, snapVars, engineVars, overlap>>

\* The second half: the insertion.  put wakes the snapshot task when the table
\* is full; delete ignores what MemTable::put returns.
Insert(o) ==
    /\ up
    /\ MemPut(o.key, o.value)
    /\ inflight' = inflight \ {o}
    /\ notified' = (notified \/ (ShouldFlush /\ ~o.value.deleted))
    /\ UNCHANGED <<now, walVars, snapVars, up, phase, clone, history>>

-----------------------------------------------------------------------------
(***************************************************************************)
(* The snapshot task: wake up, by the timer or by flush_notify, and flush. *)
(***************************************************************************)

\* Mutant of FlushClone: a table that is not full is not worth a snapshot.
FlushCloneWhenFull ==
    /\ up /\ phase = "idle"
    /\ clone' = data
    /\ IF size_bytes < MaxSizeBytes
       THEN UNCHANGED <<phase, overlap>>
       ELSE phase' = "create" /\ overlap' = KeysOf(inflight)
    /\ UNCHANGED <<memVars, now, walVars, snapVars, up, inflight,
                   writes, faults, exposed>>

\* flush up to the clone; it returns at once when the table is empty.
FlushClone ==
    /\ up /\ phase = "idle"
    /\ clone' = data
    /\ IF data = EmptyTable
       THEN UNCHANGED <<phase, overlap>>
       ELSE phase' = "create" /\ overlap' = KeysOf(inflight)
    /\ UNCHANGED <<memVars, now, walVars, snapVars, up, inflight,
                   writes, faults, exposed>>

TimerFlush == FlushClone /\ UNCHANGED notified

NotifiedFlush == notified /\ FlushClone /\ notified' = FALSE

FlushCreate ==
    /\ phase = "create"
    /\ SnapCreate
    /\ phase' = "write"
    /\ UNCHANGED <<memVars, now, walVars, up, inflight, clone, notified, history>>

FlushWrite ==
    /\ phase = "write"
    /\ SnapWrite(clone)
    /\ phase' = "cleanup"
    /\ UNCHANGED <<memVars, now, walVars, up, inflight, clone, notified, history>>

FlushCleanup ==
    /\ phase = "cleanup"
    /\ \/ SnapRemoveOldest /\ UNCHANGED phase
       \/ ~TooMany /\ phase' = "truncate" /\ UNCHANGED snapVars
    /\ UNCHANGED <<memVars, now, walVars, up, inflight, clone, notified, history>>

\* When the log goes, only what was written while this flush was under way is
\* missing from the snapshot, and a failed append may surface once more.
FlushTruncate ==
    /\ phase = "truncate"
    /\ WalTruncate
    /\ phase' = "idle"
    /\ clone' = EmptyTable
    /\ exposed' = overlap \cup KeysIn(Pending)
    /\ overlap' = {}
    /\ UNCHANGED <<memVars, now, snapVars, up, inflight, notified,
                   writes, faults>>

\* Mutant of FlushError: the log is truncated although the save failed.
FlushErrorTruncates ==
    /\ phase # "idle"
    /\ WalTruncate
    /\ phase' = "idle"
    /\ clone' = EmptyTable
    /\ overlap' = {}
    /\ UNCHANGED <<memVars, now, snapVars, up, inflight,
                   notified, writes, faults, exposed>>

\* An I/O error in any step: flush returns early and the task carries on.
FlushError ==
    /\ phase # "idle"
    /\ phase' = "idle"
    /\ clone' = EmptyTable
    /\ overlap' = {}
    /\ UNCHANGED <<memVars, now, walVars, snapVars, up, inflight,
                   notified, writes, faults, exposed>>

-----------------------------------------------------------------------------
\* The TTL reaper.
Reap ==
    /\ up
    /\ MemEvict
    /\ UNCHANGED <<now, walVars, snapVars, engineVars, history>>

\* The wall clock, assumed not to step back.
Tick ==
    /\ now < MaxTime
    /\ now' = now + 1
    /\ UNCHANGED <<memVars, walVars, snapVars, engineVars, history>>

-----------------------------------------------------------------------------
(***************************************************************************)
(* The process dies.  The files survive; the handlers and the snapshot     *)
(* task are gone.  data keeps, while the process is down, the table the    *)
(* killed process had: a history no step reads before Open replaces it.    *)
(***************************************************************************)
Die ==
    /\ up
    /\ faults < MaxFaults
    /\ faults' = faults + 1
    /\ up' = FALSE
    /\ inflight' = {}
    /\ phase' = "idle"
    /\ clone' = EmptyTable
    /\ notified' = FALSE
    /\ overlap' = {}
    /\ UNCHANGED <<memVars, now, snapVars>>

Crash ==
    /\ Die
    /\ exposed' = exposed \cup KeysOf(inflight)
    /\ UNCHANGED <<walVars, writes>>

\* The process dies inside the append of one more write.
CrashInAppend(k) ==
    /\ MayTear
    /\ writes < MaxWrites
    /\ Die
    /\ \E v \in NewVersions \cup {NewTombstone} : WalTear(k, v)
    /\ writes' = writes + 1
    /\ exposed' = exposed \cup KeysOf(inflight) \cup Fragile \cup {k}

\* StorageEngine::open.  When the latest snapshot fails its checksum, open
\* returns the error and the server exits: no step then leaves the down state.
Open ==
    /\ ~up
    /\ Loadable
    /\ \E file \in Files : WalOpen(file) /\ data' = Replay(LoadLatest, file)
    /\ size_bytes' = TableSize(data')
    /\ up' = TRUE
    /\ exposed' = {}
    /\ UNCHANGED <<now, snapVars, inflight, phase, clone, notified,
                   writes, faults, overlap>>

-----------------------------------------------------------------------------
Next ==
    \/ \E k \in Keys : PutLog(k) \/ DeleteLog(k) \/ LogFails(k) \/ CrashInAppend(k)
    \/ \E o \in inflight : Insert(o)
    \/ TimerFlush \/ NotifiedFlush
    \/ FlushCreate \/ FlushWrite \/ FlushCleanup \/ FlushTruncate \/ FlushError
    \/ Reap \/ Tick
    \/ Crash \/ Open

Spec == Init /\ [][Next]_vars

(***************************************************************************)
(* Fairness.  The runtime keeps running the handlers and the snapshot      *)
(* task, whose sleep always fires; an I/O step of flush that is tried      *)
(* again and again does not fail every time.                               *)
(***************************************************************************)
Fairness ==
    /\ WF_vars(\E o \in inflight : Insert(o))
    /\ WF_vars(TimerFlush \/ NotifiedFlush)
    /\ SF_vars(FlushCreate) /\ SF_vars(FlushWrite)
    /\ SF_vars(FlushCleanup) /\ SF_vars(FlushTruncate)

FairSpec == Spec /\ Fairness

-----------------------------------------------------------------------------
(***************************************************************************)
(* Properties.                                                             *)
(***************************************************************************)

\* Type correctness of log, snapshots, table and engine.  The size estimate
\* is left to SizeAccurate, which says more.
TypeOK ==
    /\ WalTypeOK /\ SnapTypeOK
    /\ data \in Tables /\ clone \in Tables
    /\ now \in Nat /\ writes \in Nat /\ faults \in Nat
    /\ up \in BOOLEAN /\ notified \in BOOLEAN
    /\ inflight \subseteq Op
    /\ phase \in Phases
    /\ overlap \subseteq Keys /\ exposed \subseteq Keys

\* Keys no write has put at risk.
Safe == Keys \ (exposed \cup KeysOf(inflight))

\* Whatever open may find if the process dies now shows a reader of key k what
\* the table shows.
Recoverable(k) ==
    \A file \in Files :
        Visible(Replay(LoadLatest, file)[k], now) = Visible(data[k], now)

\* Durability, as far as the code provides it: at every moment, what open
\* would rebuild from log and snapshots shows a reader the same value as the
\* table does, for every key that has not raced a flush or another write of
\* the same key, was not written onto a torn line and has no failed append.
SafeKeysRecoverable == Loadable => \A k \in Safe : Recoverable(k)

\* A crash and the reopening that follows change nothing a reader of such a
\* key can see.
RestartKeepsSafeKeys ==
    [][Open => \A k \in Keys \ exposed :
                   Visible(data'[k], now') = Visible(data[k], now)]_vars

\* When flush truncates the log, the clone it took is in the newest snapshot,
\* whole, and the directory is within its limit: no order of creating, writing
\* and cleaning up removes or shadows the only copy.
TruncateIsCovered ==
    phase = "truncate" =>
        /\ Loadable /\ LoadLatest = clone
        /\ Cardinality(DOMAIN files) \in 1..MaxSnapshots

\* Replay order is sequence order: the entry of an accepted write carries a
\* number above that of every entry before it in the log, whatever truncations,
\* failed appends, torn lines and reopenings came before.
SequencesIncrease ==
    [][\A o \in inflight' \ inflight, i \in 1..Len(lines') - 1 :
          Valid(lines', i) =>
              lines'[i].entry.sequence < lines'[Len(lines')].entry.sequence]_vars

\* The estimate put adjusts by differences is the size evict_expired would
\* compute, and the unsigned counter put subtracts the replaced entry from
\* never wraps below zero.
SizeAccurate ==
    /\ size_bytes = TableSize(data)
    /\ \A k \in Keys : EntrySize(data[k]) <= size_bytes

\* What a reader sees of a key changes only by an insertion of that key, by
\* the passing of time or by a restart: never by the reaper or by a flush.
OnlyWritesChangeReads ==
    [][\A k \in Keys :
          Visible(data'[k], now') # Visible(data[k], now) =>
              \/ \E o \in inflight \ inflight' : o.key = k /\ data'[k] = o.value
              \/ now' > now /\ Visible(data'[k], now') = Absent
              \/ ~up /\ up']_vars

\* Every version that stays in the table of a running process reaches the
\* newest snapshot.
EventuallyInSnapshot ==
    \A k \in Keys, n \in 1..MaxWrites :
        (up /\ data[k] # Absent /\ data[k].value = n)
        ~> \/ ~up \/ data[k] = Absent \/ data[k].value # n
           \/ Loadable /\ LoadLatest[k] = data[k]

\* The engine as the code above it sees it: what a reader finds, and the keys
\* that are exposed, would be after the truncation under way, or may be made
\* so by a crash or by the next append.
Shown  == [k \in Keys |-> Visible(data[k], now)]
AtRisk == exposed \cup overlap \cup KeysOf(inflight) \cup Fragile

D == INSTANCE DurableStore WITH
        shown <- Shown, serving <- up, pending <- inflight, atRisk <- AtRisk

\* The engine implements module DurableStore: a key is at risk only through
\* writes of that key, whatever flushes, crashes, failed appends and writes of
\* other keys they interleave with, and a key not at risk survives a restart.
ImplementsDurableStore == D!Spec

-----------------------------------------------------------------------------
(***************************************************************************)
(* What comments and tests of the code say and the code does not do; each  *)
(* is checked by a run that finds it violated.                             *)
(***************************************************************************)

\* engine.rs:97: "Writes to WAL first (durability), then MemTable".  Read as:
\* if the process died now, open would find what completed puts wrote.
WritesAreDurable ==
    up /\ Loadable => \A k \in Keys \ KeysOf(inflight) : Recoverable(k)

\* engine.rs:46: "Create and initialize the storage engine, recovering from
\* WAL/snapshots."  Whenever the process dies, open can recover.
OpenSucceeds == ~up => Loadable
=============================================================================
