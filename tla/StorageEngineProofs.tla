------------------------ MODULE StorageEngineProofs ------------------------
(***************************************************************************)
(* Proofs about StorageEngine, for every set of keys, every number of      *)
(* writers, writes and crashes, and every limit on the snapshots.          *)
(***************************************************************************)
EXTENDS StorageEngine, WriteAheadLogProofs, FiniteSetTheorems, FoldLemmas

-----------------------------------------------------------------------------
(***************************************************************************)
(* Type correctness.                                                       *)
(***************************************************************************)

\* The versions puts and deletes write are versions.
LEMMA NewVersionsType ==
    ASSUME writes \in Nat, now \in Nat
    PROVE  NewVersions \cup {NewTombstone} \subseteq Version
  <1>1. ASSUME NEW len \in Lens, NEW d \in Deadlines
        PROVE  NewVersion(writes + 1, len, d) \in Version
    BY InputsAssumption DEF NewVersion, Version
  <1>2. NewTombstone \in Version
    BY TombstoneTtlAssumption DEF NewTombstone, Tombstone, Version
  <1>3. NewVersions \subseteq Version
    BY <1>1 DEF NewVersions
  <1>. QED  BY <1>2, <1>3

\* What replay and load_latest build is a table.
LEMMA LoadedType ==
    ASSUME TypeOK
    PROVE  LoadLatest \in Tables
  <1>1. EmptyTable \in Tables
    BY DEF EmptyTable, Tables
  <1>. QED  BY <1>1 DEF LoadLatest, TypeOK, SnapTypeOK

LEMMA ReplayedType ==
    ASSUME TypeOK, NEW file \in Files
    PROVE  Replay(LoadLatest, file) \in Tables
  <1>1. file \in Seq(Piece)
    BY FilesShape DEF TypeOK
  <1>2. ASSUME NEW k \in Keys
        PROVE  Replay(LoadLatest, file)[k] \in Version \cup {Absent}
    <2>1. CASE \E i \in DOMAIN file : LastIn(file, k, i)
      <3>. DEFINE i == CHOOSE i \in DOMAIN file : LastIn(file, k, i)
      <3>1. i \in DOMAIN file /\ LastIn(file, k, i)
        BY <2>1
      <3>2. file[i] \in Piece /\ file[i].entry # Garbled
        BY <1>1, <3>1 DEF LastIn, Valid
      <3>3. file[i].entry.value \in Version
        BY <3>2, PieceFields
      <3>. QED  BY <2>1, <3>3 DEF Replay
    <2>2. CASE ~ \E i \in DOMAIN file : LastIn(file, k, i)
      BY <2>2, LoadedType DEF Replay, Tables
    <2>. QED  BY <2>1, <2>2
  <1>. QED  BY <1>2 DEF Replay, Tables

LEMMA TypeInit == Init => TypeOK
  <1>. SUFFICES ASSUME Init PROVE TypeOK
    OBVIOUS
  <1>1. WalTypeOK
    <2>1. << >> \in Seq(Piece) /\ 0 \in 0 .. Len(<< >>)
      OBVIOUS
    <2>. QED  BY <2>1 DEF Init, WalInit, WalTypeOK
  <1>2. SnapTypeOK
    BY DEF Init, SnapInit, SnapTypeOK
  <1>3. data \in Tables /\ clone \in Tables
    BY DEF Init, MemInit, EmptyTable, Tables
  <1>. QED  BY <1>1, <1>2, <1>3 DEF Init, TypeOK, Phases

LEMMA DieType ==
    ASSUME TypeOK, Die
    PROVE  /\ up' \in BOOLEAN /\ notified' \in BOOLEAN
           /\ faults' \in Nat /\ now' \in Nat
           /\ SnapTypeOK' /\ data' \in Tables /\ clone' \in Tables
           /\ inflight' \subseteq Op /\ phase' \in Phases
           /\ overlap' \subseteq Keys
  <1>1. up' \in BOOLEAN /\ notified' \in BOOLEAN
    BY Zenon DEF Die
  <1>2. faults' \in Nat /\ now' \in Nat
    BY DEF Die, TypeOK
  <1>3. SnapTypeOK'
    BY DEF Die, TypeOK, SnapTypeOK, snapVars
  <1>4. data' \in Tables /\ clone' \in Tables
    BY DEF Die, TypeOK, memVars, EmptyTable, Tables
  <1>5. inflight' \subseteq Op /\ phase' \in Phases /\ overlap' \subseteq Keys
    BY DEF Die, Phases
  <1>. QED  BY <1>1, <1>2, <1>3, <1>4, <1>5

LEMMA TypeNext == TypeOK /\ [Next]_vars => TypeOK'
  <1>. SUFFICES ASSUME TypeOK, [Next]_vars PROVE TypeOK'
    OBVIOUS
  <1>. USE DEF TypeOK, history, engineVars, memVars, walVars, snapVars, Phases
  <1>e. EmptyTable \in Tables
    BY DEF EmptyTable, Tables
  <1>1. ASSUME NEW k \in Keys, PutLog(k) \/ DeleteLog(k)
        PROVE  TypeOK'
    <2>1. PICK v \in Version : Log(k, v)
      BY <1>1, NewVersionsType DEF PutLog, DeleteLog
    <2>2. WalTypeOK'
      BY <2>1, AppendType DEF Log
    <2>3. inflight' \subseteq Op /\ exposed' \subseteq Keys /\ overlap' \subseteq Keys
      BY <2>1, FragileType DEF Log, Op
    <2>. QED  BY <2>1, <2>2, <2>3 DEF Log, SnapTypeOK
  <1>2. ASSUME NEW k \in Keys, CrashInAppend(k)
        PROVE  TypeOK'
    <2>1. PICK v \in Version : WalTear(k, v)
      BY <1>2, NewVersionsType DEF CrashInAppend
    <2>2. WalTypeOK'
      BY <2>1, TearType
    <2>3. exposed' \subseteq Keys
      BY <1>2, FragileType DEF CrashInAppend, KeysOf, Op
    <2>4. Die /\ writes' \in Nat
      BY <1>2 DEF CrashInAppend
    <2>. QED  BY <2>2, <2>3, <2>4, DieType
  <1>f. ASSUME NEW k \in Keys, LogFails(k)
        PROVE  TypeOK'
    <2>1. PICK v \in Version : WalAppendFails(k, v)
      BY <1>f, NewVersionsType DEF LogFails
    <2>2. WalTypeOK'
      BY <2>1, AppendFailsType
    <2>3. exposed' \subseteq Keys
      BY <1>f, FragileType DEF LogFails
    <2>. QED  BY <1>f, <2>2, <2>3 DEF LogFails, SnapTypeOK
  <1>3. ASSUME NEW o \in inflight, Insert(o)
        PROVE  TypeOK'
    BY <1>3 DEF Insert, MemPut, Op, Tables, WalTypeOK, SnapTypeOK
  <1>4. ASSUME FlushClone, notified' \in BOOLEAN
        PROVE  TypeOK'
    BY <1>4 DEF FlushClone, KeysOf, Op, WalTypeOK, SnapTypeOK
  <1>5. CASE FlushCreate
    BY <1>5, <1>e DEF FlushCreate, SnapCreate, WithFile, Partial, WalTypeOK, SnapTypeOK
  <1>6. CASE FlushWrite
    BY <1>6 DEF FlushWrite, SnapWrite, WithFile, Whole, WalTypeOK, SnapTypeOK
  <1>7. CASE FlushCleanup
    BY <1>7 DEF FlushCleanup, SnapRemoveOldest, WalTypeOK, SnapTypeOK
  <1>8. CASE FlushTruncate
    <2>1. WalTypeOK'
      BY <1>8, TruncateType DEF FlushTruncate
    <2>2. exposed' \subseteq Keys
      BY <1>8, KeysInType, PendingType DEF FlushTruncate
    <2>. QED  BY <1>8, <1>e, <2>1, <2>2 DEF FlushTruncate, SnapTypeOK
  <1>9. CASE FlushError
    BY <1>9, <1>e DEF FlushError, WalTypeOK, SnapTypeOK
  <1>10. CASE Reap
    BY <1>10 DEF Reap, MemEvict, Tables, WalTypeOK, SnapTypeOK
  <1>11. CASE Tick
    BY <1>11 DEF Tick, WalTypeOK, SnapTypeOK
  <1>12. CASE Crash
    <2>1. WalTypeOK'
      BY <1>12 DEF Crash, WalTypeOK
    <2>2. exposed' \subseteq Keys
      BY <1>12 DEF Crash, KeysOf, Op
    <2>3. Die /\ writes' \in Nat
      BY <1>12 DEF Crash
    <2>. QED  BY <2>1, <2>2, <2>3, DieType
  <1>13. CASE Open
    <2>1. PICK file \in Files : WalOpen(file) /\ data' = Replay(LoadLatest, file)
      BY <1>13 DEF Open
    <2>2. WalTypeOK' /\ data' \in Tables
      BY <2>1, OpenType, ReplayedType
    <2>. QED  BY <1>13, <2>2 DEF Open, SnapTypeOK
  <1>14. CASE UNCHANGED vars
    BY <1>14 DEF vars, WalTypeOK, SnapTypeOK
  <1>. QED
    BY <1>1, <1>2, <1>f, <1>3, <1>4, <1>5, <1>6, <1>7, <1>8, <1>9, <1>10, <1>11,
       <1>12, <1>13, <1>14 DEF Next, TimerFlush, NotifiedFlush

\* Every variable of the engine keeps its type, for any keys and any bounds.
THEOREM TypeCorrect == Spec => []TypeOK
  BY TypeInit, TypeNext, PTL DEF Spec

-----------------------------------------------------------------------------
(***************************************************************************)
(* The inductive invariant behind the recovery theorems.                   *)
(***************************************************************************)
LastFor(k, i) == LastIn(lines, k, i)
HasEntry(k) == \E i \in DOMAIN lines : LastFor(k, i)

\* The last entry of a safe key shows what the table shows.
LogAgrees ==
    \A k \in Safe, i \in DOMAIN lines :
        LastFor(k, i) => Visible(lines[i].entry.value, now) = Visible(data[k], now)

\* A safe key without an entry in the log is as the latest snapshot has it.
SnapshotAgrees ==
    Loadable => \A k \in Safe :
        ~HasEntry(k) => Visible(LoadLatest[k], now) = Visible(data[k], now)

\* The last entry of a key with a single write in flight is that write's.
InFlightLogged ==
    \A o \in inflight : o.key \notin exposed =>
        \E i \in DOMAIN lines : LastFor(o.key, i) /\ lines[i].entry.value = o.value

\* What the running flush has not cloned is among the keys in overlap, and
\* the log still holds it.
CloneAgrees ==
    phase # "idle" =>
        /\ KeysOf(inflight) \subseteq overlap
        /\ \A k \in Keys \ overlap :
              Visible(clone[k], now) = Visible(data[k], now)
        /\ \A k \in overlap \ exposed : HasEntry(k)

\* The file being written is the latest one, and holds the clone once written.
SavingIsLatest ==
    /\ \A n \in DOMAIN files : n <= now
    /\ phase \in {"write", "cleanup", "truncate"} => IsLatest(saving)
    /\ phase \in {"cleanup", "truncate"} => files[saving] = Whole(clone)

\* A dead process has no handlers and no snapshot task.
DownIsQuiet == ~up => inflight = {} /\ phase = "idle"

\* The key of an entry without its newline that ends what is in the file for
\* certain, when other bytes may follow it there.
EdgeKeys ==
    {lines[n].entry.key : n \in {j \in DOMAIN lines :
        /\ j = Len(lines) - pending /\ (pending > 0 \/ stale # << >>)
        /\ lines[j].entry # Garbled /\ ~lines[j].ended
        /\ j > 1 => lines[j - 1].ended}}

\* What a failed append left behind, in the BufWriter or in the file, and what
\* it may still garble is for keys that are exposed.
LeftoversExposed == KeysIn(Pending) \cup KeysIn(stale) \cup EdgeKeys \subseteq exposed

RecoveryInv ==
    /\ TypeOK
    /\ LogAgrees /\ SnapshotAgrees /\ InFlightLogged
    /\ CloneAgrees /\ SavingIsLatest /\ DownIsQuiet /\ LeftoversExposed

-----------------------------------------------------------------------------
(***************************************************************************)
(* Lemmas about the operators the invariant is made of.                    *)
(***************************************************************************)

LEMMA PendingTypePrimed ==
    ASSUME WalTypeOK'
    PROVE  /\ Pending' \in Seq(Piece) /\ Len(Pending') = pending'
           /\ \A i \in 1 .. pending' : Pending'[i] = lines'[Len(lines') - pending' + i]
  <1>1. /\ lines' \in Seq(Piece) /\ Len(lines') \in Nat /\ pending' \in 0 .. Len(lines')
    BY DEF WalTypeOK
  <1>2. PICK m \in 1 .. Len(lines') + 1 : m = Len(lines') - pending' + 1
    BY <1>1
  <1>3. Len(lines') \in 0 .. Len(lines') /\ m <= Len(lines') + 1
        /\ Len(lines') - m + 1 = pending'
        /\ \A i \in 1 .. pending' : m + i - 1 = Len(lines') - pending' + i
    BY <1>1, <1>2
  <1>4. Pending' = SubSeq(lines', m, Len(lines'))
    BY <1>2 DEF Pending
  <1>. QED  BY <1>1, <1>3, <1>4, SubSeqPieces

\* A key has one last entry.
LEMMA LastForUnique ==
    ASSUME WalTypeOK, NEW k \in Keys, NEW i, NEW j,
           LastFor(k, i), LastFor(k, j)
    PROVE  i = j
  BY LastInUnique DEF LastFor, WalTypeOK

\* Two entries that look the same to a reader still do as time passes.
LEMMA VisibleLater ==
    ASSUME NEW a \in Version \cup {Absent}, NEW b \in Version \cup {Absent},
           NEW t \in Nat, NEW u \in Nat, t <= u,
           Visible(a, t) = Visible(b, t)
    PROVE  Visible(a, u) = Visible(b, u)
  <1>1. ASSUME NEW c \in Version \cup {Absent}
        PROVE  /\ Visible(c, t) \in {Absent, c}
               /\ Visible(c, t) = Absent => Visible(c, u) = Absent
    BY AbsentAssumption DEF Visible, IsExpired, Version, Never
  <1>2. CASE Visible(a, t) = Absent
    BY <1>1, <1>2
  <1>3. CASE Visible(a, t) # Absent
    BY <1>1, <1>3
  <1>. QED  BY <1>2, <1>3

\* The table recovery starts from is the one in the latest file.
LEMMA LatestTable ==
    ASSUME SnapTypeOK, NEW n, IsLatest(n)
    PROVE  LoadLatest = files[n].table /\ (Loadable <=> files[n].whole)
  <1>1. ASSUME NEW m, IsLatest(m) PROVE m = n
    BY <1>1 DEF IsLatest, SnapTypeOK
  <1>. QED  BY <1>1 DEF LoadLatest, Loadable, IsLatest

LEMMA LatestTablePrimed ==
    ASSUME SnapTypeOK', NEW n, IsLatest(n)'
    PROVE  LoadLatest' = files'[n].table /\ (Loadable' <=> files'[n].whole)
  <1>1. ASSUME NEW m, IsLatest(m)' PROVE m = n
    BY <1>1 DEF IsLatest, SnapTypeOK
  <1>. QED  BY <1>1 DEF LoadLatest, Loadable, IsLatest

LEMMA SameFiles ==
    ASSUME files' = files
    PROVE  LoadLatest' = LoadLatest /\ (Loadable' <=> Loadable)
  BY DEF LoadLatest, Loadable, IsLatest

LEMMA SameLines ==
    ASSUME lines' = lines
    PROVE  /\ \A k, i : LastFor(k, i)' <=> LastFor(k, i)
           /\ \A k : HasEntry(k)' <=> HasEntry(k)
  BY DEF LastFor, LastIn, HasEntry

\* Whatever a reader may find in the file, it shows a key that is not exposed as
\* the log does.
LEMMA ShowsInFile ==
    ASSUME WalTypeOK, LeftoversExposed, NEW file \in Files,
           NEW k, k \notin exposed, NEW i
    PROVE  /\ Shows(lines, k, i) <=> Shows(file, k, i)
           /\ Shows(lines, k, i) =>
                 /\ lines[i].entry = file[i].entry
                 /\ i \in 1 .. Len(lines) - pending
                 /\ lines[i].ended => file[i].ended
  <1>0. PICK n \in Nat : n = Len(lines) - pending
    BY DEF WalTypeOK
  <1>1. /\ file \in Seq(Piece) /\ n \in 0 .. Len(lines) /\ Len(file) >= n
        /\ \A j \in 1 .. n :
              /\ file[j].entry = lines[j].entry
              /\ j < n \/ lines[j].ended \/ stale = << >> => file[j].ended = lines[j].ended
        /\ \A j \in DOMAIN file : j > n =>
              \/ file[j].entry = Garbled
              \/ file[j].entry.key \in KeysIn(Pending) \cup KeysIn(stale)
        /\ stale = << >> /\ pending = 0 => file = lines
    BY <1>0, FilesShape
  <1>2. /\ lines \in Seq(Piece) /\ Len(lines) \in Nat /\ DOMAIN lines = 1 .. Len(lines)
        /\ pending \in Nat /\ n + pending = Len(lines)
        /\ Len(file) \in Nat /\ DOMAIN file = 1 .. Len(file)
    BY <1>0, <1>1 DEF WalTypeOK
  <1>3. KeysIn(Pending) \cup KeysIn(stale) \subseteq exposed
    BY DEF LeftoversExposed
  <1>4. ASSUME Shows(file, k, i) PROVE i \in 1 .. n
    BY <1>1, <1>2, <1>3, <1>4 DEF Shows, Valid
  <1>5. ASSUME Shows(lines, k, i) PROVE i \in 1 .. n
    <2>. SUFFICES ASSUME i \in n + 1 .. Len(lines) PROVE FALSE
      BY <1>2, <1>5 DEF Shows, Valid
    <2>1. PICK j \in 1 .. pending : i = Len(lines) - pending + j
      <3>1. i - n \in 1 .. pending /\ i = Len(lines) - pending + (i - n)
        BY <1>0, <1>2
      <3>. QED  BY <3>1
    <2>2. Pending[j] = lines[i] /\ j \in DOMAIN Pending
      BY <2>1, PendingType
    <2>3. lines[i].entry # Garbled /\ lines[i].entry.key = k
      BY <1>5 DEF Shows, Valid
    <2>4. k \in KeysIn(Pending)
      BY <2>2, <2>3 DEF KeysIn
    <2>. QED  BY <1>3, <2>4
  <1>6. ASSUME i = n, i > 0, lines[n].entry # Garbled, lines[n].entry.key = k,
               ~lines[n].ended, n > 1 => lines[n - 1].ended
        PROVE  pending = 0 /\ stale = << >>
    <2>1. n \in DOMAIN lines
      BY <1>2, <1>1, <1>6
    <2>2. k \notin EdgeKeys
      BY DEF LeftoversExposed
    <2>3. ~ (pending > 0 \/ stale # << >>)
      BY <1>0, <1>6, <2>1, <2>2 DEF EdgeKeys
    <2>. QED  BY <1>2, <2>3
  <1>7. ASSUME NEW j \in 1 .. n, j < n
        PROVE  file[j].entry = lines[j].entry /\ file[j].ended = lines[j].ended
    BY <1>1, <1>7
  <1>8. i \in 1 .. n => (i > 1 => i - 1 \in 1 .. n /\ i - 1 < n)
    BY <1>1, <1>2
  <1>9. ASSUME Shows(lines, k, i)
        PROVE  Shows(file, k, i) /\ lines[i].entry = file[i].entry
               /\ (lines[i].ended => file[i].ended)
    <2>0. i \in 1 .. n /\ i \in DOMAIN file /\ lines[i].entry = file[i].entry
      BY <1>1, <1>2, <1>5, <1>9
    <2>1. i > 1 => file[i - 1].ended
      BY <1>7, <1>8, <1>9, <2>0 DEF Shows, Valid
    <2>2. lines[i].ended => file[i].ended
      BY <1>1, <2>0
    <2>3. CASE lines[i].ended
      BY <1>9, <2>0, <2>1, <2>2, <2>3 DEF Shows, Valid
    <2>4. CASE ~lines[i].ended
      <3>1. i = n
        BY <1>2, <1>9, <2>0, <2>4 DEF Shows, Valid
      <3>2. pending = 0 /\ stale = << >>
        BY <1>6, <1>9, <2>0, <2>4, <3>1 DEF Shows, Valid
      <3>. QED  BY <1>1, <1>9, <3>2
    <2>. QED  BY <2>3, <2>4
  <1>10. ASSUME Shows(file, k, i)
         PROVE  Shows(lines, k, i)
    <2>0. i \in 1 .. n /\ i \in DOMAIN lines /\ lines[i].entry = file[i].entry
      BY <1>1, <1>2, <1>4, <1>10
    <2>1. i > 1 => lines[i - 1].ended
      BY <1>7, <1>8, <1>10, <2>0 DEF Shows, Valid
    <2>2. i < Len(lines) => lines[i].ended
      <3>1. CASE i < n
        BY <1>1, <1>2, <1>7, <1>10, <2>0, <3>1 DEF Shows, Valid
      <3>2. CASE i = n
        <4>. SUFFICES ASSUME i < Len(lines), ~lines[i].ended PROVE FALSE
          OBVIOUS
        <4>1. lines[n].entry # Garbled /\ lines[n].entry.key = k
          BY <1>10, <2>0, <3>2 DEF Shows, Valid
        <4>2. pending = 0
          BY <1>6, <2>0, <2>1, <3>2, <4>1
        <4>. QED  BY <1>2, <3>2, <4>2
      <3>. QED  BY <2>0, <3>1, <3>2
    <2>. QED  BY <1>10, <2>0, <2>1, <2>2 DEF Shows, Valid
  <1>. QED  BY <1>0, <1>5, <1>9, <1>10

LEMMA FileSame ==
    ASSUME WalTypeOK, LeftoversExposed, NEW file \in Files, NEW k, k \notin exposed
    PROVE  SameFor(lines, file, k)
  <1>1. \A i : Shows(lines, k, i) <=> Shows(file, k, i)
    BY ShowsInFile
  <1>2. \A i : Shows(lines, k, i) => lines[i].entry = file[i].entry
    BY ShowsInFile
  <1>. QED  BY <1>1, <1>2, ShowsSame

LEMMA SameEntries ==
    ASSUME NEW k, SameFor(lines, lines', k)
    PROVE  /\ \A i : LastFor(k, i)' <=> LastFor(k, i)
           /\ \A i : LastFor(k, i) => lines'[i].entry = lines[i].entry
           /\ HasEntry(k)' <=> HasEntry(k)
  <1>1. \A i : LastFor(k, i)' <=> LastFor(k, i)
    BY DEF SameFor, LastFor
  <1>2. \A i : LastFor(k, i) => lines'[i].entry = lines[i].entry
    BY DEF SameFor, LastFor
  <1>3. HasEntry(k)' <=> HasEntry(k)
    BY <1>1 DEF HasEntry, LastFor, LastIn, Valid
  <1>. QED  BY <1>1, <1>2, <1>3

LEMMA LeftoversKept ==
    ASSUME LeftoversExposed, UNCHANGED <<lines, pending, stale>>, exposed \subseteq exposed'
    PROVE  LeftoversExposed'
  <1>1. KeysIn(Pending)' = KeysIn(Pending)
    BY DEF KeysIn, Pending
  <1>2. KeysIn(stale)' = KeysIn(stale)
    BY DEF KeysIn
  <1>3. EdgeKeys' = EdgeKeys
    BY DEF EdgeKeys
  <1>. QED  BY <1>1, <1>2, <1>3 DEF LeftoversExposed

-----------------------------------------------------------------------------
(***************************************************************************)
(* The invariant holds initially and is preserved, action by action.       *)
(***************************************************************************)

LEMMA RecoveryInit == Init => RecoveryInv
  <1>. SUFFICES ASSUME Init PROVE RecoveryInv
    OBVIOUS
  <1>1. TypeOK
    BY TypeInit
  <1>2. lines = << >> /\ files = << >> /\ data = EmptyTable /\ inflight = {}
        /\ phase = "idle"
    BY DEF Init, MemInit, WalInit, SnapInit
  <1>3. LogAgrees /\ InFlightLogged
    BY <1>2 DEF LogAgrees, InFlightLogged
  <1>4. LoadLatest = EmptyTable
    BY <1>2 DEF LoadLatest
  <1>5. SnapshotAgrees
    BY <1>2, <1>4 DEF SnapshotAgrees
  <1>6. CloneAgrees /\ SavingIsLatest /\ DownIsQuiet
    BY <1>2 DEF CloneAgrees, SavingIsLatest, DownIsQuiet
  <1>7. LeftoversExposed
    BY <1>1, <1>2, PendingType DEF Init, WalInit, LeftoversExposed, KeysIn, EdgeKeys, TypeOK
  <1>. QED  BY <1>1, <1>3, <1>5, <1>6, <1>7 DEF RecoveryInv

\* The types the lemmas above need, of entries and tables.
LEMMA EntryTypes ==
    ASSUME TypeOK
    PROVE  /\ \A k \in Keys : data[k] \in Version \cup {Absent}
           /\ \A k \in Keys : clone[k] \in Version \cup {Absent}
           /\ \A k \in Keys : LoadLatest[k] \in Version \cup {Absent}
           /\ \A k, i : LastFor(k, i) => lines[i].entry.value \in Version
  <1>1. \A i \in DOMAIN lines : lines[i] \in Piece
    BY DEF TypeOK, WalTypeOK
  <1>2. \A k, i : LastFor(k, i) => lines[i].entry.value \in Version
    BY <1>1, PieceFields DEF LastFor, LastIn, Valid
  <1>. QED  BY <1>2, LoadedType DEF TypeOK, Tables

\* A step that leaves files, log and what a reader sees alone, and puts keys
\* at risk only, keeps log and snapshots in agreement with the table.
LEMMA AgreementKept ==
    ASSUME LogAgrees, SnapshotAgrees,
           lines' = lines, files' = files, Safe' \subseteq Safe,
           now' = now,
           \A k \in Keys : Visible(data[k], now)' = Visible(data[k], now)
    PROVE  LogAgrees' /\ SnapshotAgrees'
  <1>1. Safe \subseteq Keys
    BY DEF Safe
  <1>2. LogAgrees'
    BY <1>1, SameLines DEF LogAgrees
  <1>3. SnapshotAgrees'
    BY <1>1, SameLines, SameFiles DEF SnapshotAgrees
  <1>. QED  BY <1>2, <1>3

\* put and delete, up to the insertion.
LEMMA RecoveryLog ==
    ASSUME RecoveryInv, TypeOK', NEW k \in Keys, NEW v \in Version, Log(k, v)
    PROVE  RecoveryInv'
  <1>. DEFINE e == NewEntry(k, v)
              new == [key |-> k, value |-> v]
  <1>1. /\ WalTypeOK /\ SnapTypeOK /\ e \in WalEntry /\ e.key = k /\ e.value = v
        /\ Line(e) \in Piece /\ Line(e).entry = e /\ Line(e).ended
    <2>1. WalTypeOK /\ SnapTypeOK /\ e \in WalEntry /\ e.key = k /\ e.value = v
      BY NewEntryType DEF RecoveryInv, TypeOK
    <2>. QED  BY <2>1, MakePiece
  <1>2. lines' = Append(lines, Line(e)) /\ pending' = 0 /\ stale' = stale
    BY DEF Log, WalAppend
  <1>3. /\ inflight' = inflight \cup {new} /\ new.key = k /\ new.value = v
        /\ UNCHANGED <<data, now, files, saving, up, phase, clone>>
    BY DEF Log, memVars, snapVars
  <1>4. /\ exposed \cup Fragile \subseteq exposed'
        /\ Dangling => k \in exposed'
        /\ k \in KeysOf(inflight) => k \in exposed'
        /\ KeysOf(inflight') = KeysOf(inflight) \cup {k}
    BY <1>3 DEF Log, KeysOf
  <1>5. ASSUME NEW h \in Keys, h \notin exposed', h # k \/ Dangling
        PROVE  /\ \A i : LastFor(h, i)' <=> LastFor(h, i)
               /\ \A i : LastFor(h, i) => lines'[i].entry = lines[i].entry
               /\ HasEntry(h)' <=> HasEntry(h)
    <2>1. h \notin Fragile
      BY <1>4, <1>5
    <2>2. SameFor(lines, lines', h)
      BY <1>1, <1>2, <1>5, <2>1, AppendSame
    <2>. QED  BY <2>2, SameEntries
  <1>6. ASSUME ~Dangling
        PROVE  \E i \in DOMAIN lines' : LastFor(k, i)' /\ lines'[i].entry.value = v
    <2>. HIDE DEF e
    <2>1. PICK n : n = Len(lines) + 1
      OBVIOUS
    <2>2. LastIn(lines', k, n) /\ lines'[n].entry = e
      BY <1>1, <1>2, <1>6, <2>1, AppendLast
    <2>3. LastFor(k, n)' /\ n \in DOMAIN lines'
      BY <2>2 DEF LastFor, LastIn, Valid
    <2>. QED  BY <1>1, <2>2, <2>3
  <1>7. ASSUME NEW h \in Safe'
        PROVE  h \in Safe /\ h \in Keys /\ h # k /\ h \notin exposed'
    BY <1>4, <1>7 DEF Safe
  <1>8. LogAgrees'
    BY <1>3, <1>5, <1>7 DEF RecoveryInv, LogAgrees, LastFor, LastIn, Valid
  <1>9. SnapshotAgrees'
    BY <1>3, <1>5, <1>7, SameFiles DEF RecoveryInv, SnapshotAgrees
  <1>10. InFlightLogged'
    <2>. SUFFICES ASSUME NEW o \in inflight', o.key \notin exposed'
                  PROVE  \E i \in DOMAIN lines' :
                             LastFor(o.key, i)' /\ lines'[i].entry.value = o.value
      BY DEF InFlightLogged
    <2>1. CASE o = new
      BY <1>3, <1>4, <1>6, <2>1
    <2>2. CASE o # new
      <3>1. o \in inflight /\ o.key \in KeysOf(inflight) /\ o.key \in Keys
        BY <1>3, <2>2 DEF KeysOf, RecoveryInv, TypeOK, Op
      <3>2. o.key # k /\ o.key \notin exposed
        BY <1>4, <3>1
      <3>3. PICK i \in DOMAIN lines : LastFor(o.key, i) /\ lines[i].entry.value = o.value
        BY <3>1, <3>2 DEF RecoveryInv, InFlightLogged
      <3>4. LastFor(o.key, i)' /\ lines'[i].entry.value = o.value
        BY <1>5, <3>1, <3>2, <3>3
      <3>. QED  BY <3>4 DEF LastFor, LastIn, Valid
    <2>. QED  BY <2>1, <2>2
  <1>11. CloneAgrees'
    <2>. SUFFICES ASSUME phase' # "idle"
                  PROVE  /\ KeysOf(inflight') \subseteq overlap'
                         /\ \A h \in Keys \ overlap' :
                               Visible(clone'[h], now') = Visible(data'[h], now')
                         /\ \A h \in overlap' \ exposed' : HasEntry(h)'
      BY DEF CloneAgrees
    <2>1. overlap' = overlap \cup {k}
      BY <1>3 DEF Log
    <2>2. ASSUME NEW h \in overlap' \ exposed'
          PROVE  HasEntry(h)'
      <3>1. CASE h = k
        BY <1>4, <1>6, <2>2, <3>1 DEF HasEntry
      <3>2. CASE h # k
        BY <1>3, <1>4, <1>5, <2>1, <2>2, <3>2 DEF RecoveryInv, CloneAgrees, TypeOK
      <3>. QED  BY <3>1, <3>2
    <2>. QED  BY <1>3, <1>4, <2>1, <2>2 DEF RecoveryInv, CloneAgrees
  <1>12. SavingIsLatest' /\ DownIsQuiet'
    <2>1. up /\ up'
      BY <1>3 DEF Log
    <2>. QED  BY <1>3, <2>1 DEF RecoveryInv, SavingIsLatest, IsLatest, DownIsQuiet, Whole
  <1>13. LeftoversExposed'
    <2>1. WalTypeOK'
      BY DEF TypeOK
    <2>2. KeysIn(Pending)' = {}
      <3>1. Pending' \in Seq(Piece) /\ Len(Pending') = 0
        BY <1>2, <2>1, PendingTypePrimed
      <3>. QED  BY <3>1 DEF KeysIn
    <2>3. KeysIn(stale)' = KeysIn(stale)
      BY <1>2 DEF KeysIn
    <2>4. EdgeKeys' = {}
      <3>1. Len(lines') = Len(lines) + 1 /\ lines'[Len(lines) + 1] = Line(e)
        BY <1>1, <1>2, AppendPiece DEF WalTypeOK
      <3>2. Len(lines') - pending' = Len(lines')
        BY <1>2, <2>1 DEF WalTypeOK
      <3>3. lines'[Len(lines')].ended
        BY <1>1, <3>1
      <3>. QED  BY <3>2, <3>3 DEF EdgeKeys
    <2>. QED  BY <1>4, <2>2, <2>3, <2>4 DEF LeftoversExposed, RecoveryInv
  <1>. QED  BY <1>8, <1>9, <1>10, <1>11, <1>12, <1>13 DEF RecoveryInv

\* The pieces of a failed or torn append.
LEMMA FailedPieces ==
    ASSUME WalTypeOK, NEW k \in Keys, NEW v \in Version,
           WalAppendFails(k, v) \/ WalTear(k, v)
    PROVE  /\ stale' = stale
           /\ \/ UNCHANGED <<lines, pending>>
              \/ \E x \in Piece :
                    /\ x.entry = Garbled \/ x.entry.key = k
                    /\ lines' = Append(lines, x)
                    /\ pending' = pending + 1 \/ (pending' = 0 /\ x.entry = Garbled)
  <1>1. NewEntry(k, v) \in WalEntry /\ NewEntry(k, v).key = k
    BY NewEntryType
  <1>2. /\ Line(NewEntry(k, v)) \in Piece /\ Line(NewEntry(k, v)).entry.key = k
        /\ Part(NewEntry(k, v)) \in Piece /\ Part(NewEntry(k, v)).entry.key = k
        /\ Part(Garbled) \in Piece /\ Part(Garbled).entry = Garbled
    BY <1>1, MakePiece
  <1>. QED  BY <1>2, Zenon DEF WalAppendFails, WalTear

\* They disturb the keys of their writes and of the line they continue, all of
\* which are exposed.
LEMMA FailedExposes ==
    ASSUME WalTypeOK, WalTypeOK', LeftoversExposed, NEW k \in Keys, NEW v \in Version,
           WalAppendFails(k, v) \/ WalTear(k, v),
           exposed \cup Fragile \cup {k} \subseteq exposed'
    PROVE  /\ LeftoversExposed'
           /\ \A h : h \notin exposed' => SameFor(lines, lines', h)
  <1>1. CASE UNCHANGED <<lines, pending>>
    <2>1. UNCHANGED <<lines, pending, stale>>
      BY <1>1, FailedPieces
    <2>2. LeftoversExposed'
      BY <2>1, LeftoversKept
    <2>3. \A h : SameFor(lines, lines', h)
      BY <1>1 DEF SameFor
    <2>. QED  BY <2>2, <2>3
  <1>2. ASSUME NEW x \in Piece, x.entry = Garbled \/ x.entry.key = k,
               lines' = Append(lines, x), stale' = stale,
               pending' = pending + 1 \/ (pending' = 0 /\ x.entry = Garbled)
        PROVE  /\ LeftoversExposed'
               /\ \A h : h \notin exposed' => SameFor(lines, lines', h)
    <2>1. \A h : h \notin exposed' => SameFor(lines, lines', h)
      BY <1>2, AppendSame
    <2>2. PICK m \in Nat : m = Len(lines)
      BY DEF WalTypeOK
    <2>3. /\ Len(lines') = m + 1 /\ DOMAIN lines = 1 .. m /\ DOMAIN lines' = 1 .. m + 1
          /\ lines'[m + 1] = x /\ \A i \in 1 .. m : lines'[i] = lines[i]
      BY <1>2, <2>2, AppendPiece DEF WalTypeOK
    <2>4. pending \in 0 .. m
      BY <2>2 DEF WalTypeOK
    <2>5. KeysIn(stale)' \subseteq exposed'
      BY <1>2 DEF LeftoversExposed, KeysIn
    <2>6. KeysIn(Pending)' \subseteq exposed'
      <3>. SUFFICES ASSUME NEW i \in DOMAIN Pending', Pending'[i].entry # Garbled
                    PROVE  Pending'[i].entry.key \in exposed'
        BY DEF KeysIn
      <3>0. /\ Pending' \in Seq(Piece) /\ Len(Pending') = pending'
            /\ \A j \in 1 .. pending' : Pending'[j] = lines'[Len(lines') - pending' + j]
        BY PendingTypePrimed
      <3>1. Len(Pending') = pending' /\ i \in 1 .. pending'
            /\ Pending'[i] = lines'[m + 1 - pending' + i]
        <4>1. DOMAIN Pending' = 1 .. Len(Pending')
          BY <3>0
        <4>2. Len(Pending') = pending' /\ i \in 1 .. pending'
          BY <3>0, <4>1
        <4>3. Pending'[i] = lines'[Len(lines') - pending' + i]
          BY <3>0, <4>2
        <4>. QED  BY <2>3, <4>2, <4>3
      <3>2. pending' = pending + 1
        BY <1>2, <3>1
      <3>3. i \in Nat /\ i <= pending + 1 /\ m + 1 - pending' + i = m - pending + i
        BY <2>2, <2>4, <3>1, <3>2
      <3>4. CASE i = pending + 1
        <4>1. m - pending + i = m + 1
          BY <2>2, <2>4, <3>4
        <4>. QED  BY <1>2, <2>3, <3>1, <3>3, <4>1
      <3>5. CASE i # pending + 1
        <4>1. i \in 1 .. pending /\ m - pending + i \in 1 .. m
          BY <2>2, <2>4, <3>1, <3>3, <3>5
        <4>2. Pending[i] = lines[m - pending + i] /\ i \in DOMAIN Pending
          BY <2>2, <4>1, PendingType
        <4>3. Pending'[i] = Pending[i]
          BY <2>3, <3>1, <3>3, <4>1, <4>2
        <4>. QED  BY <4>2, <4>3 DEF LeftoversExposed, KeysIn
      <3>. QED  BY <3>4, <3>5
    <2>7. EdgeKeys' \subseteq exposed'
      <3>. SUFFICES ASSUME NEW n \in DOMAIN lines', n = Len(lines') - pending',
                           lines'[n].entry # Garbled, ~lines'[n].ended,
                           n > 1 => lines'[n - 1].ended
                    PROVE  lines'[n].entry.key \in exposed'
        BY DEF EdgeKeys
      <3>1. CASE pending' = 0
        <4>1. n = m + 1
          BY <2>2, <2>3, <3>1
        <4>. QED  BY <1>2, <2>3, <4>1
      <3>2. CASE pending' # 0
        <4>1. n = m - pending /\ n \in 1 .. m
          BY <1>2, <2>2, <2>3, <2>4, <3>2
        <4>2. lines'[n] = lines[n] /\ (n > 1 => lines'[n - 1] = lines[n - 1])
          BY <2>2, <2>3, <4>1
        <4>3. CASE pending > 0 \/ stale # << >>
          BY <2>2, <2>3, <4>1, <4>2, <4>3 DEF LeftoversExposed, EdgeKeys
        <4>4. CASE pending = 0 /\ stale = << >>
          <5>1. n = Len(lines) /\ lines # << >>
            BY <2>2, <2>3, <4>1, <4>4
          <5>2. Dangling /\ Valid(lines, n)
            BY <2>2, <2>3, <4>1, <4>2, <5>1 DEF Dangling, Valid
          <5>3. lines[n].entry.key \in Fragile
            BY <2>3, <4>1, <5>1, <5>2 DEF Fragile
          <5>. QED  BY <4>2, <5>3
        <4>. QED  BY <2>4, <4>3, <4>4
      <3>. QED  BY <3>1, <3>2
    <2>. QED  BY <2>1, <2>5, <2>6, <2>7 DEF LeftoversExposed
  <1>. QED  BY <1>1, <1>2, FailedPieces

\* An append fails: the key it is for and the key of an open line are exposed.
LEMMA RecoveryFails ==
    ASSUME RecoveryInv, TypeOK', NEW k \in Keys, LogFails(k)
    PROVE  RecoveryInv'
  <1>1. /\ exposed' = exposed \cup Fragile \cup {k}
        /\ UNCHANGED <<data, now, files, saving, up, inflight, phase, clone, overlap>>
    BY DEF LogFails, memVars, snapVars, engineVars
  <1>2. TypeOK /\ WalTypeOK /\ writes \in Nat /\ now \in Nat /\ LeftoversExposed
    BY DEF RecoveryInv, TypeOK
  <1>3. PICK v \in Version : WalAppendFails(k, v)
    BY <1>2, NewVersionsType DEF LogFails
  <1>4. WalTypeOK' /\ LeftoversExposed'
        /\ \A h : h \notin exposed' => SameFor(lines, lines', h)
    BY <1>1, <1>2, <1>3, FailedExposes DEF TypeOK
  <1>6. ASSUME NEW h \in Keys, h \notin exposed'
        PROVE  /\ \A i : LastFor(h, i)' <=> LastFor(h, i)
               /\ \A i : LastFor(h, i) => lines'[i].entry = lines[i].entry
               /\ HasEntry(h)' <=> HasEntry(h)
    BY <1>4, <1>6, SameEntries
  <1>7. ASSUME NEW h \in Safe'
        PROVE  h \in Safe /\ h \in Keys /\ h \notin exposed'
    BY <1>1, <1>7 DEF Safe
  <1>8. LogAgrees'
    BY <1>1, <1>6, <1>7 DEF RecoveryInv, LogAgrees, LastFor, LastIn, Valid
  <1>9. SnapshotAgrees'
    BY <1>1, <1>6, <1>7, SameFiles DEF RecoveryInv, SnapshotAgrees
  <1>10. InFlightLogged'
    <2>. SUFFICES ASSUME NEW o \in inflight, o.key \notin exposed'
                  PROVE  \E i \in DOMAIN lines' :
                             LastFor(o.key, i)' /\ lines'[i].entry.value = o.value
      BY <1>1 DEF InFlightLogged
    <2>1. o.key \in Keys /\ o.key \notin exposed
      BY <1>1, <1>2 DEF TypeOK, Op
    <2>2. PICK i \in DOMAIN lines : LastFor(o.key, i) /\ lines[i].entry.value = o.value
      BY <2>1 DEF RecoveryInv, InFlightLogged
    <2>3. LastFor(o.key, i)' /\ lines'[i].entry.value = o.value
      BY <1>6, <2>1, <2>2
    <2>. QED  BY <2>3 DEF LastFor, LastIn, Valid
  <1>11. CloneAgrees'
    <2>1. overlap \subseteq Keys
      BY <1>2 DEF TypeOK
    <2>. QED  BY <1>1, <1>6, <2>1 DEF RecoveryInv, CloneAgrees
  <1>12. SavingIsLatest' /\ DownIsQuiet'
    <2>1. up /\ up'
      BY <1>1 DEF LogFails
    <2>. QED  BY <1>1, <2>1 DEF RecoveryInv, SavingIsLatest, IsLatest, DownIsQuiet, Whole
  <1>. QED  BY <1>4, <1>8, <1>9, <1>10, <1>11, <1>12 DEF RecoveryInv

\* The insertion of a logged write.
LEMMA RecoveryInsert ==
    ASSUME RecoveryInv, TypeOK', NEW o \in inflight, Insert(o)
    PROVE  RecoveryInv'
  <1>1. /\ o.key \in Keys /\ data \in Tables
        /\ data' = [data EXCEPT ![o.key] = o.value]
        /\ inflight' = inflight \ {o}
        /\ UNCHANGED <<lines, now, files, saving, up, phase, clone, overlap, exposed>>
    BY DEF Insert, MemPut, walVars, snapVars, history, RecoveryInv, TypeOK, Op
  <1>2. data'[o.key] = o.value /\ \A k \in Keys : k # o.key => data'[k] = data[k]
    BY <1>1 DEF Tables
  <1>3. ASSUME NEW k \in Safe', k # o.key
        PROVE  k \in Safe /\ k \in Keys
    BY <1>1, <1>3 DEF Safe, KeysOf
  <1>4. ASSUME o.key \in Safe'
        PROVE  \E i \in DOMAIN lines : LastFor(o.key, i) /\ lines[i].entry.value = o.value
    BY <1>1, <1>4 DEF Safe, RecoveryInv, InFlightLogged
  <1>5. LogAgrees'
    <2>. SUFFICES ASSUME NEW k \in Safe', NEW i \in DOMAIN lines, LastFor(k, i)
                  PROVE  Visible(lines[i].entry.value, now) = Visible(data'[k], now)
      BY <1>1, SameLines DEF LogAgrees
    <2>1. CASE k = o.key
      BY <1>1, <1>2, <1>4, <2>1, LastForUnique DEF RecoveryInv, TypeOK
    <2>2. CASE k # o.key
      BY <1>2, <1>3, <2>2 DEF RecoveryInv, LogAgrees
    <2>. QED  BY <2>1, <2>2
  <1>6. SnapshotAgrees'
    <2>. SUFFICES ASSUME Loadable, NEW k \in Safe', ~HasEntry(k)
                  PROVE  Visible(LoadLatest[k], now) = Visible(data'[k], now)
      BY <1>1, SameLines, SameFiles DEF SnapshotAgrees
    <2>1. k # o.key
      BY <1>4 DEF HasEntry
    <2>. QED  BY <1>2, <1>3, <2>1 DEF RecoveryInv, SnapshotAgrees
  <1>7. InFlightLogged'
    BY <1>1, SameLines DEF RecoveryInv, InFlightLogged
  <1>8. CloneAgrees'
    <2>1. phase # "idle" => o.key \in overlap
      BY DEF RecoveryInv, CloneAgrees, KeysOf
    <2>2. KeysOf(inflight') \subseteq KeysOf(inflight)
      BY <1>1 DEF KeysOf
    <2>. QED  BY <1>1, <1>2, <2>1, <2>2, SameLines DEF RecoveryInv, CloneAgrees
  <1>9. SavingIsLatest' /\ DownIsQuiet'
    <2>1. up /\ up'
      BY <1>1 DEF Insert
    <2>. QED  BY <1>1, <2>1 DEF RecoveryInv, SavingIsLatest, IsLatest, DownIsQuiet, Whole
  <1>l. LeftoversExposed'
    BY LeftoversKept DEF walVars, Insert, history, RecoveryInv
  <1>. QED  BY <1>5, <1>6, <1>7, <1>8, <1>9, <1>l DEF RecoveryInv

\* flush: the clone, and the early return on an empty table.
LEMMA RecoveryClone ==
    ASSUME RecoveryInv, TypeOK', FlushClone
    PROVE  RecoveryInv'
  <1>1. /\ up /\ phase = "idle" /\ clone' = data
        /\ UNCHANGED <<lines, data, now, files, saving, up, inflight, exposed>>
    BY DEF FlushClone, memVars, walVars, snapVars
  <1>2. LogAgrees' /\ SnapshotAgrees'
    BY <1>1, AgreementKept DEF RecoveryInv, Safe
  <1>3. InFlightLogged'
    BY <1>1, SameLines DEF RecoveryInv, InFlightLogged
  <1>4. CloneAgrees'
    <2>. SUFFICES ASSUME phase' # "idle" PROVE CloneAgrees'
      BY DEF CloneAgrees
    <2>1. overlap' = KeysOf(inflight)
      BY <1>1 DEF FlushClone
    <2>2. ASSUME NEW k \in overlap' \ exposed' PROVE HasEntry(k)'
      BY <1>1, <2>1, <2>2, SameLines DEF KeysOf, HasEntry, RecoveryInv, InFlightLogged
    <2>. QED  BY <1>1, <2>1, <2>2 DEF CloneAgrees
  <1>5. SavingIsLatest' /\ DownIsQuiet'
    <2>1. phase' \in {"idle", "create"}
      BY <1>1 DEF FlushClone
    <2>. QED  BY <1>1, <2>1 DEF RecoveryInv, SavingIsLatest, DownIsQuiet
  <1>l. LeftoversExposed'
    BY LeftoversKept DEF walVars, FlushClone, RecoveryInv
  <1>. QED  BY <1>2, <1>3, <1>4, <1>5, <1>l DEF RecoveryInv

\* A phase of flush that leaves log, table and clone alone.
LEMMA FlushPhase ==
    ASSUME RecoveryInv, phase # "idle", phase' # "idle",
           UNCHANGED <<lines, data, now, up, inflight, clone, overlap, exposed>>
    PROVE  LogAgrees' /\ InFlightLogged' /\ CloneAgrees' /\ DownIsQuiet'
  <1>1. LogAgrees'
    BY SameLines DEF RecoveryInv, LogAgrees, Safe
  <1>2. InFlightLogged' /\ CloneAgrees'
    BY SameLines DEF RecoveryInv, InFlightLogged, CloneAgrees
  <1>3. DownIsQuiet'
    BY DEF RecoveryInv, DownIsQuiet
  <1>. QED  BY <1>1, <1>2, <1>3

\* save creates its file: from here on the latest snapshot does not load.
LEMMA RecoveryCreate ==
    ASSUME RecoveryInv, TypeOK', FlushCreate
    PROVE  RecoveryInv'
  <1>1. /\ phase = "create" /\ phase' = "write" /\ saving' = now
        /\ files' = WithFile(now, Partial)
        /\ UNCHANGED <<lines, data, now, up, inflight, clone, overlap, exposed>>
    BY DEF FlushCreate, SnapCreate, memVars, walVars, history
  <1>2. LogAgrees' /\ InFlightLogged' /\ CloneAgrees' /\ DownIsQuiet'
    BY <1>1, FlushPhase
  <1>3. now \in Nat /\ DOMAIN files' = DOMAIN files \cup {now}
        /\ files'[now] = Partial /\ \A n \in DOMAIN files : n <= now
    BY <1>1 DEF WithFile, RecoveryInv, TypeOK, SavingIsLatest
  <1>4. SavingIsLatest'
    BY <1>1, <1>3 DEF SavingIsLatest, IsLatest
  <1>5. ~Loadable'
    <2>1. IsLatest(saving)'
      BY <1>1, <1>4 DEF SavingIsLatest
    <2>2. PICK n : n = now
      OBVIOUS
    <2>3. n \in DOMAIN files' /\ IsLatest(n)'
      BY <1>1, <2>1, <2>2 DEF IsLatest
    <2>4. ~ files'[n].whole
      BY <1>3, <2>2 DEF Partial
    <2>. QED  BY <2>3, <2>4, Zenon DEF Loadable
  <1>6. SnapshotAgrees'
    BY <1>5 DEF SnapshotAgrees
  <1>l. LeftoversExposed'
    BY LeftoversKept DEF walVars, FlushCreate, history, RecoveryInv
  <1>. QED  BY <1>2, <1>4, <1>6, <1>l DEF RecoveryInv

\* save finishes: the latest snapshot is the clone.
LEMMA RecoveryWrite ==
    ASSUME RecoveryInv, TypeOK', FlushWrite
    PROVE  RecoveryInv'
  <1>1. /\ phase = "write" /\ phase' = "cleanup" /\ saving' = saving
        /\ files' = WithFile(saving, Whole(clone))
        /\ UNCHANGED <<lines, data, now, up, inflight, clone, overlap, exposed>>
    BY DEF FlushWrite, SnapWrite, memVars, walVars, history
  <1>2. LogAgrees' /\ InFlightLogged' /\ CloneAgrees' /\ DownIsQuiet'
    BY <1>1, FlushPhase
  <1>3. saving \in DOMAIN files /\ \A n \in DOMAIN files : n <= now /\ n <= saving
    BY <1>1 DEF RecoveryInv, SavingIsLatest, IsLatest
  <1>4. DOMAIN files' = DOMAIN files /\ files'[saving] = Whole(clone)
    BY <1>1, <1>3 DEF WithFile
  <1>5. SavingIsLatest'
    BY <1>1, <1>3, <1>4 DEF SavingIsLatest, IsLatest, Whole
  <1>6. LoadLatest' = clone
    <2>1. IsLatest(saving)'
      BY <1>1, <1>5 DEF SavingIsLatest
    <2>2. PICK n : n = saving
      OBVIOUS
    <2>3. IsLatest(n)'
      BY <1>1, <2>1, <2>2 DEF IsLatest
    <2>4. LoadLatest' = files'[n].table
      BY <2>3, LatestTablePrimed DEF TypeOK
    <2>. QED  BY <1>4, <2>2, <2>4 DEF Whole
  <1>7. SnapshotAgrees'
    <2>. SUFFICES ASSUME NEW k \in Safe', ~HasEntry(k)'
                  PROVE  Visible(clone[k], now) = Visible(data[k], now)
      BY <1>1, <1>6 DEF SnapshotAgrees
    <2>1. k \in Keys /\ k \notin exposed
      BY <1>1 DEF Safe
    <2>2. k \notin overlap
      BY <1>1, <2>1, SameLines DEF RecoveryInv, CloneAgrees
    <2>. QED  BY <1>1, <2>1, <2>2 DEF RecoveryInv, CloneAgrees
  <1>l. LeftoversExposed'
    BY LeftoversKept DEF walVars, FlushWrite, history, RecoveryInv
  <1>. QED  BY <1>2, <1>5, <1>7, <1>l DEF RecoveryInv

\* cleanup never removes the latest snapshot.
LEMMA RecoveryCleanup ==
    ASSUME RecoveryInv, TypeOK', FlushCleanup
    PROVE  RecoveryInv'
  <1>1. /\ phase = "cleanup" /\ phase' \in {"cleanup", "truncate"}
        /\ saving' = saving
        /\ UNCHANGED <<lines, data, now, up, inflight, clone, overlap, exposed>>
    BY DEF FlushCleanup, SnapRemoveOldest, memVars, walVars, snapVars, history
  <1>2. LogAgrees' /\ InFlightLogged' /\ CloneAgrees' /\ DownIsQuiet'
    BY <1>1, FlushPhase
  <1>3. IsLatest(saving) /\ files[saving] = Whole(clone)
        /\ \A n \in DOMAIN files : n <= now
    BY <1>1 DEF RecoveryInv, SavingIsLatest
  <1>4. /\ saving \in DOMAIN files' /\ DOMAIN files' \subseteq DOMAIN files
        /\ files'[saving] = files[saving]
    <2>1. CASE SnapRemoveOldest
      <3>1. PICK n \in DOMAIN files :
               IsOldest(n) /\ files' = [m \in DOMAIN files \ {n} |-> files[m]]
        BY <2>1 DEF SnapRemoveOldest
      <3>2. n # saving
        <4>. SUFFICES ASSUME n = saving PROVE FALSE
          OBVIOUS
        <4>1. DOMAIN files = {n}
          <5>1. DOMAIN files \subseteq Nat
            BY DEF RecoveryInv, TypeOK, SnapTypeOK
          <5>2. \A m \in DOMAIN files : m <= n /\ n <= m
            BY <1>3, <3>1 DEF IsLatest, IsOldest
          <5>. QED  BY <5>1, <5>2
        <4>2. Cardinality({n}) = 1
          BY FS_Singleton
        <4>. QED  BY <2>1, <4>1, <4>2, MaxSnapshotsAssumption DEF SnapRemoveOldest, TooMany
      <3>. QED  BY <1>3, <3>1, <3>2 DEF IsLatest
    <2>2. CASE UNCHANGED snapVars
      BY <1>3, <2>2 DEF snapVars, IsLatest
    <2>. QED  BY <2>1, <2>2 DEF FlushCleanup
  <1>5. SavingIsLatest'
    BY <1>1, <1>3, <1>4 DEF SavingIsLatest, IsLatest, Whole
  <1>6. LoadLatest' = LoadLatest /\ Loadable
    <2>1. PICK n : n = saving
      OBVIOUS
    <2>2. IsLatest(n) /\ IsLatest(n)'
      BY <1>1, <1>3, <1>4, <2>1 DEF IsLatest
    <2>3. LoadLatest = files[n].table /\ Loadable
      BY <1>3, <2>1, <2>2, LatestTable DEF RecoveryInv, TypeOK, Whole
    <2>4. LoadLatest' = files'[n].table
      BY <2>2, LatestTablePrimed DEF TypeOK
    <2>. QED  BY <1>4, <2>1, <2>3, <2>4
  <1>7. SnapshotAgrees'
    BY <1>1, <1>6, SameLines DEF RecoveryInv, SnapshotAgrees, Safe
  <1>l. LeftoversExposed'
    BY LeftoversKept DEF walVars, FlushCleanup, history, RecoveryInv
  <1>. QED  BY <1>2, <1>5, <1>7, <1>l DEF RecoveryInv

\* The log goes: what it held is in the snapshot, or exposed.
LEMMA RecoveryTruncate ==
    ASSUME RecoveryInv, TypeOK', FlushTruncate
    PROVE  RecoveryInv'
  <1>1. /\ phase = "truncate" /\ phase' = "idle" /\ lines' = << >>
        /\ exposed' = overlap \cup KeysIn(Pending)
        /\ pending' = 0 /\ stale' = Pending
        /\ UNCHANGED <<data, now, files, saving, up, inflight>>
    BY DEF FlushTruncate, WalTruncate, memVars, snapVars
  <1>2. KeysOf(inflight) \subseteq exposed'
    BY <1>1 DEF RecoveryInv, CloneAgrees
  <1>3. LogAgrees'
    BY <1>1 DEF LogAgrees, LastFor, LastIn, Valid
  <1>4. LoadLatest = clone
    BY <1>1, LatestTable DEF RecoveryInv, SavingIsLatest, TypeOK, Whole
  <1>5. SnapshotAgrees'
    <2>. SUFFICES ASSUME NEW k \in Keys \ overlap
                  PROVE  Visible(LoadLatest[k], now) = Visible(data[k], now)
      BY <1>1, SameFiles DEF SnapshotAgrees, Safe
    <2>. QED  BY <1>1, <1>4 DEF RecoveryInv, CloneAgrees
  <1>6. InFlightLogged'
    BY <1>1, <1>2 DEF InFlightLogged, KeysOf
  <1>7. CloneAgrees' /\ SavingIsLatest' /\ DownIsQuiet'
    BY <1>1 DEF CloneAgrees, SavingIsLatest, DownIsQuiet, RecoveryInv
  <1>8. LeftoversExposed'
    <2>1. KeysIn(Pending)' = {}
      <3>1. Pending' \in Seq(Piece) /\ Len(Pending') = 0
        BY <1>1, PendingTypePrimed DEF TypeOK
      <3>. QED  BY <3>1 DEF KeysIn
    <2>2. KeysIn(stale)' = KeysIn(Pending)
      BY <1>1 DEF KeysIn
    <2>3. EdgeKeys' = {}
      BY <1>1 DEF EdgeKeys
    <2>. QED  BY <1>1, <2>1, <2>2, <2>3 DEF LeftoversExposed
  <1>. QED  BY <1>3, <1>5, <1>6, <1>7, <1>8 DEF RecoveryInv

LEMMA RecoveryError ==
    ASSUME RecoveryInv, TypeOK', FlushError
    PROVE  RecoveryInv'
  <1>1. /\ phase' = "idle"
        /\ UNCHANGED <<lines, data, now, files, saving, up, inflight, exposed>>
    BY DEF FlushError, memVars, walVars, snapVars
  <1>2. LogAgrees' /\ SnapshotAgrees'
    BY <1>1, AgreementKept DEF RecoveryInv, Safe
  <1>3. InFlightLogged'
    BY <1>1, SameLines DEF RecoveryInv, InFlightLogged
  <1>4. CloneAgrees' /\ SavingIsLatest' /\ DownIsQuiet'
    BY <1>1 DEF CloneAgrees, SavingIsLatest, DownIsQuiet, RecoveryInv
  <1>l. LeftoversExposed'
    BY LeftoversKept DEF walVars, FlushError, RecoveryInv
  <1>. QED  BY <1>2, <1>3, <1>4, <1>l DEF RecoveryInv

\* The reaper changes nothing a reader sees.
LEMMA ReapInvisible ==
    ASSUME TypeOK, MemEvict, now' = now, NEW k \in Keys
    PROVE  Visible(data[k], now)' = Visible(data[k], now)
  <1>1. data'[k] = IF data[k] # Absent /\ IsExpired(data[k], now)
                   THEN Absent ELSE data[k]
    BY DEF MemEvict
  <1>. QED  BY <1>1 DEF Visible

LEMMA RecoveryReap ==
    ASSUME RecoveryInv, TypeOK', Reap
    PROVE  RecoveryInv'
  <1>1. UNCHANGED <<lines, now, files, saving, up, inflight, phase, clone,
                    overlap, exposed>>
    BY DEF Reap, walVars, snapVars, engineVars, history
  <1>2. \A k \in Keys : Visible(data[k], now)' = Visible(data[k], now)
    BY <1>1, ReapInvisible DEF Reap, RecoveryInv
  <1>3. LogAgrees' /\ SnapshotAgrees'
    BY <1>1, <1>2, AgreementKept DEF RecoveryInv, Safe
  <1>4. InFlightLogged'
    BY <1>1, SameLines DEF RecoveryInv, InFlightLogged
  <1>5. CloneAgrees'
    BY <1>1, <1>2, SameLines DEF RecoveryInv, CloneAgrees
  <1>6. SavingIsLatest' /\ DownIsQuiet'
    BY <1>1 DEF RecoveryInv, SavingIsLatest, IsLatest, DownIsQuiet, Whole
  <1>l. LeftoversExposed'
    BY LeftoversKept DEF walVars, Reap, history, RecoveryInv
  <1>. QED  BY <1>3, <1>4, <1>5, <1>6, <1>l DEF RecoveryInv

\* Time makes values expire on both sides of every agreement at once.
LEMMA RecoveryTick ==
    ASSUME RecoveryInv, TypeOK', Tick
    PROVE  RecoveryInv'
  <1>1. /\ now \in Nat /\ now' \in Nat /\ now <= now'
        /\ UNCHANGED <<lines, data, files, saving, up, inflight, phase, clone,
                       overlap, exposed>>
    BY DEF Tick, memVars, walVars, snapVars, engineVars, history, RecoveryInv, TypeOK
  <1>2. ASSUME NEW a \in Version \cup {Absent}, NEW b \in Version \cup {Absent},
               Visible(a, now) = Visible(b, now)
        PROVE  Visible(a, now') = Visible(b, now')
    BY <1>1, <1>2, VisibleLater
  <1>3. Safe' = Safe /\ Safe \subseteq Keys
    BY <1>1 DEF Safe
  <1>t. TypeOK
    BY DEF RecoveryInv
  <1>4. LogAgrees'
    <2>. SUFFICES ASSUME NEW k \in Safe, NEW i \in DOMAIN lines, LastFor(k, i)
                  PROVE  Visible(lines[i].entry.value, now') = Visible(data[k], now')
      BY <1>1, <1>3, SameLines DEF LogAgrees
    <2>1. Visible(lines[i].entry.value, now) = Visible(data[k], now)
      BY DEF RecoveryInv, LogAgrees
    <2>. QED  BY <1>2, <1>3, <1>t, <2>1, EntryTypes
  <1>5. SnapshotAgrees'
    <2>. SUFFICES ASSUME Loadable, NEW k \in Safe, ~HasEntry(k)
                  PROVE  Visible(LoadLatest[k], now') = Visible(data[k], now')
      BY <1>1, <1>3, SameLines, SameFiles DEF SnapshotAgrees
    <2>1. Visible(LoadLatest[k], now) = Visible(data[k], now)
      BY DEF RecoveryInv, SnapshotAgrees
    <2>. QED  BY <1>2, <1>3, <1>t, <2>1, EntryTypes
  <1>6. InFlightLogged'
    BY <1>1, SameLines DEF RecoveryInv, InFlightLogged
  <1>7. CloneAgrees'
    <2>. SUFFICES ASSUME phase # "idle" PROVE CloneAgrees'
      BY <1>1 DEF CloneAgrees
    <2>1. ASSUME NEW k \in Keys \ overlap
          PROVE  Visible(clone[k], now') = Visible(data[k], now')
      <3>1. Visible(clone[k], now) = Visible(data[k], now)
        BY DEF RecoveryInv, CloneAgrees
      <3>. QED  BY <1>2, <1>t, <3>1, EntryTypes
    <2>. QED  BY <1>1, <2>1, SameLines DEF RecoveryInv, CloneAgrees
  <1>8. SavingIsLatest' /\ DownIsQuiet'
    BY <1>1 DEF RecoveryInv, SavingIsLatest, IsLatest, DownIsQuiet, Whole,
                TypeOK, SnapTypeOK
  <1>l. LeftoversExposed'
    BY LeftoversKept DEF walVars, Tick, history, RecoveryInv
  <1>. QED  BY <1>4, <1>5, <1>6, <1>7, <1>8, <1>l DEF RecoveryInv

\* The process dies: its handlers are gone and their keys exposed.
LEMMA RecoveryDie ==
    ASSUME RecoveryInv, Die
    PROVE  CloneAgrees' /\ SavingIsLatest' /\ DownIsQuiet' /\ InFlightLogged'
  <1>1. /\ inflight' = {} /\ phase' = "idle" /\ UNCHANGED <<now, files, saving>>
    BY DEF Die, snapVars
  <1>. QED  BY <1>1 DEF CloneAgrees, SavingIsLatest, DownIsQuiet, InFlightLogged,
                        RecoveryInv

LEMMA RecoveryCrash ==
    ASSUME RecoveryInv, TypeOK', Crash
    PROVE  RecoveryInv'
  <1>1. /\ Die /\ inflight' = {} /\ exposed' = exposed \cup KeysOf(inflight)
        /\ UNCHANGED <<lines, data, now, files>>
    BY DEF Crash, Die, walVars, memVars, snapVars
  <1>2. LogAgrees' /\ SnapshotAgrees'
    BY <1>1, AgreementKept DEF RecoveryInv, Safe
  <1>3. LeftoversExposed'
    BY <1>1, LeftoversKept DEF walVars, Crash, RecoveryInv
  <1>. QED  BY <1>1, <1>2, <1>3, RecoveryDie DEF RecoveryInv

\* A torn append disturbs the key it was for and the key of an open line.
LEMMA RecoveryTear ==
    ASSUME RecoveryInv, TypeOK', NEW k \in Keys, CrashInAppend(k)
    PROVE  RecoveryInv'
  <1>1. /\ Die /\ inflight' = {}
        /\ exposed' = exposed \cup KeysOf(inflight) \cup Fragile \cup {k}
        /\ UNCHANGED <<data, now, files>>
    BY DEF CrashInAppend, Die, memVars, snapVars
  <1>2. TypeOK /\ WalTypeOK /\ writes \in Nat /\ now \in Nat
    BY DEF RecoveryInv, TypeOK
  <1>3. PICK v \in Version : WalTear(k, v)
    BY <1>2, NewVersionsType DEF CrashInAppend
  <1>4. LeftoversExposed' /\ \A h : h \notin exposed' => SameFor(lines, lines', h)
    BY <1>1, <1>2, <1>3, FailedExposes DEF TypeOK, RecoveryInv
  <1>5. ASSUME NEW h \in Safe'
        PROVE  /\ h \in Safe /\ h \in Keys
               /\ \A i : LastFor(h, i)' <=> LastFor(h, i)
               /\ \A i : LastFor(h, i) => lines'[i].entry = lines[i].entry
               /\ HasEntry(h)' <=> HasEntry(h)
    <2>1. h \in Safe /\ h \in Keys /\ h \notin exposed'
      BY <1>1, <1>5 DEF Safe
    <2>. QED  BY <1>4, <2>1, SameEntries
  <1>6. LogAgrees'
    BY <1>1, <1>5 DEF RecoveryInv, LogAgrees, LastFor, LastIn, Valid
  <1>7. SnapshotAgrees'
    BY <1>1, <1>5, SameFiles DEF RecoveryInv, SnapshotAgrees
  <1>. QED  BY <1>1, <1>4, <1>6, <1>7, RecoveryDie DEF RecoveryInv

\* What recovery builds, key by key.
LEMMA ReplayedKey ==
    ASSUME NEW file \in Seq(Piece), NEW d, NEW k \in Keys
    PROVE  /\ \A i : LastIn(file, k, i) => Replay(d, file)[k] = file[i].entry.value
           /\ ~(\E i \in DOMAIN file : LastIn(file, k, i)) => Replay(d, file)[k] = d[k]
  <1>1. ASSUME NEW i, LastIn(file, k, i)
        PROVE  Replay(d, file)[k] = file[i].entry.value
    <2>. DEFINE c == CHOOSE j \in DOMAIN file : LastIn(file, k, j)
    <2>1. i \in DOMAIN file
      BY <1>1 DEF LastIn, Valid
    <2>2. LastIn(file, k, c)
      BY <1>1, <2>1
    <2>3. c = i
      <3>. HIDE DEF c
      <3>. QED  BY <1>1, <2>2, LastInUnique
    <2>. QED  BY <1>1, <2>1, <2>3 DEF Replay
  <1>2. ASSUME ~ \E i \in DOMAIN file : LastIn(file, k, i)
        PROVE  Replay(d, file)[k] = d[k]
    BY <1>2 DEF Replay
  <1>. QED  BY <1>1, <1>2

LEMMA RecoveryOpen ==
    ASSUME RecoveryInv, TypeOK', Open
    PROVE  RecoveryInv'
  <1>1. /\ up' /\ ~up
        /\ UNCHANGED <<now, files, saving, inflight, phase, clone>>
    BY DEF Open, snapVars
  <1>2. TypeOK /\ inflight = {} /\ phase = "idle"
    BY <1>1 DEF RecoveryInv, DownIsQuiet
  <1>f. PICK file \in Files : WalOpen(file) /\ data' = Replay(LoadLatest, file)
    BY DEF Open
  <1>p. file \in Seq(Piece) /\ lines' = file /\ pending' = 0 /\ stale' = << >>
    BY <1>2, <1>f, FilesShape DEF WalOpen, TypeOK
  <1>3. Safe' \subseteq Keys
    BY DEF Safe
  <1>4. LogAgrees'
    BY <1>1, <1>3, <1>f, <1>p, ReplayedKey DEF LogAgrees, LastFor
  <1>5. SnapshotAgrees'
    BY <1>1, <1>3, <1>f, <1>p, ReplayedKey, SameFiles DEF SnapshotAgrees, HasEntry, LastFor
  <1>6. InFlightLogged' /\ CloneAgrees' /\ SavingIsLatest' /\ DownIsQuiet'
    BY <1>1, <1>2 DEF InFlightLogged, CloneAgrees, SavingIsLatest, DownIsQuiet,
                      RecoveryInv
  <1>7. LeftoversExposed'
    <2>1. KeysIn(Pending)' = {}
      <3>1. Pending' \in Seq(Piece) /\ Len(Pending') = 0
        BY <1>p, PendingTypePrimed DEF TypeOK
      <3>. QED  BY <3>1 DEF KeysIn
    <2>2. KeysIn(stale)' = {} /\ EdgeKeys' = {}
      BY <1>p DEF KeysIn, EdgeKeys
    <2>. QED  BY <2>1, <2>2 DEF LeftoversExposed
  <1>. QED  BY <1>4, <1>5, <1>6, <1>7 DEF RecoveryInv

LEMMA RecoveryStutter ==
    ASSUME RecoveryInv, TypeOK', UNCHANGED vars
    PROVE  RecoveryInv'
  <1>1. UNCHANGED <<lines, data, now, files, saving, up, inflight, phase, clone,
                    overlap, exposed>>
    BY DEF vars, walVars, memVars, snapVars, engineVars, history
  <1>2. LogAgrees' /\ SnapshotAgrees'
    BY <1>1, AgreementKept DEF RecoveryInv, Safe
  <1>3. InFlightLogged' /\ CloneAgrees'
    BY <1>1, SameLines DEF RecoveryInv, InFlightLogged, CloneAgrees
  <1>4. SavingIsLatest' /\ DownIsQuiet'
    BY <1>1 DEF RecoveryInv, SavingIsLatest, IsLatest, DownIsQuiet, Whole
  <1>l. LeftoversExposed'
    BY LeftoversKept DEF walVars, vars, history, RecoveryInv
  <1>. QED  BY <1>2, <1>3, <1>4, <1>l DEF RecoveryInv

LEMMA RecoveryNext == RecoveryInv /\ [Next]_vars => RecoveryInv'
  <1>. SUFFICES ASSUME RecoveryInv, [Next]_vars PROVE RecoveryInv'
    OBVIOUS
  <1>1. TypeOK /\ TypeOK'
    BY TypeNext DEF RecoveryInv
  <1>2. ASSUME NEW k \in Keys, PutLog(k) \/ DeleteLog(k)
        PROVE  RecoveryInv'
    <2>1. PICK v \in Version : Log(k, v)
      BY <1>1, <1>2, NewVersionsType DEF PutLog, DeleteLog, TypeOK
    <2>. QED  BY <1>1, <2>1, RecoveryLog
  <1>3. ASSUME NEW k \in Keys, CrashInAppend(k)
        PROVE  RecoveryInv'
    BY <1>1, <1>3, RecoveryTear
  <1>f. ASSUME NEW k \in Keys, LogFails(k)
        PROVE  RecoveryInv'
    BY <1>1, <1>f, RecoveryFails
  <1>4. ASSUME NEW o \in inflight, Insert(o)
        PROVE  RecoveryInv'
    BY <1>1, <1>4, RecoveryInsert
  <1>. QED
    BY <1>1, <1>2, <1>3, <1>f, <1>4, RecoveryClone, RecoveryCreate, RecoveryWrite,
       RecoveryCleanup, RecoveryTruncate, RecoveryError, RecoveryReap,
       RecoveryTick, RecoveryCrash, RecoveryOpen, RecoveryStutter
       DEF Next, TimerFlush, NotifiedFlush

\* Table, log, newest snapshot, clone and writes in flight agree key by key, as
\* RecoveryInv says, in every reachable state: SafeKeysRecoverable alone is not
\* inductive, because it is silent about a flush that is half done.
THEOREM RecoveryInvariant == Spec => []RecoveryInv
  BY RecoveryInit, RecoveryNext, PTL DEF Spec

-----------------------------------------------------------------------------
(***************************************************************************)
(* What follows from the invariant.                                        *)
(***************************************************************************)
LEMMA RecoveryImpliesSafe == RecoveryInv => SafeKeysRecoverable
  <1>. SUFFICES ASSUME RecoveryInv, Loadable, NEW k \in Safe, NEW file \in Files
                PROVE  Visible(Replay(LoadLatest, file)[k], now) = Visible(data[k], now)
    BY DEF SafeKeysRecoverable, Recoverable
  <1>1. TypeOK /\ k \in Keys /\ file \in Seq(Piece)
    BY FilesShape DEF RecoveryInv, Safe, TypeOK
  <1>s. SameFor(lines, file, k)
    BY <1>1, FileSame DEF RecoveryInv, TypeOK, Safe
  <1>2. CASE HasEntry(k)
    <2>1. PICK i \in DOMAIN lines : LastFor(k, i)
      BY <1>2 DEF HasEntry
    <2>2. LastIn(file, k, i) /\ file[i].entry = lines[i].entry
      BY <1>s, <2>1 DEF SameFor, LastFor
    <2>. QED  BY <1>1, <2>1, <2>2, ReplayedKey DEF RecoveryInv, LogAgrees
  <1>3. CASE ~HasEntry(k)
    <2>1. ~ \E i \in DOMAIN file : LastIn(file, k, i)
      BY <1>s, <1>3 DEF SameFor, HasEntry, LastFor, LastIn, Valid
    <2>. QED  BY <1>1, <1>3, <2>1, ReplayedKey DEF RecoveryInv, SnapshotAgrees
  <1>. QED  BY <1>2, <1>3

\* Whatever the keys, the number of writers and the number of crashes: for a
\* key no race or torn line has exposed, log and newest snapshot together hold
\* what the table shows.
THEOREM SafeKeysAreRecoverable == Spec => []SafeKeysRecoverable
  BY RecoveryInvariant, RecoveryImpliesSafe, PTL

LEMMA OpenKeeps ==
    ASSUME RecoveryInv, Open, NEW k \in Keys \ exposed
    PROVE  Visible(data'[k], now') = Visible(data[k], now)
  <1>1. now' = now /\ Loadable /\ ~up
    BY DEF Open
  <1>f. PICK file \in Files : data' = Replay(LoadLatest, file)
    BY DEF Open
  <1>2. k \in Safe
    BY <1>1 DEF RecoveryInv, DownIsQuiet, Safe, KeysOf
  <1>. QED  BY <1>1, <1>2, <1>f, RecoveryImpliesSafe DEF SafeKeysRecoverable, Recoverable

\* Reopening the engine after a crash changes nothing that a reader of such a
\* key can see.
THEOREM RestartKeeps == Spec => RestartKeepsSafeKeys
  <1>1. RecoveryInv /\ [Next]_vars =>
            [Open => \A k \in Keys \ exposed :
                        Visible(data'[k], now') = Visible(data[k], now)]_vars
    BY OpenKeeps
  <1>. QED  BY <1>1, RecoveryInvariant, PTL DEF Spec, RestartKeepsSafeKeys

-----------------------------------------------------------------------------
(***************************************************************************)
(* Truncation: the directory is within its limit and its newest file holds *)
(* the clone.                                                              *)
(***************************************************************************)
DirectoryBounded ==
    /\ IsFiniteSet(DOMAIN files)
    /\ phase = "truncate" => ~TooMany

LEMMA DirectoryInit == Init => DirectoryBounded
  <1>. SUFFICES ASSUME Init PROVE DirectoryBounded
    OBVIOUS
  <1>1. DOMAIN files = {} /\ phase = "idle"
    BY DEF Init, SnapInit
  <1>. QED  BY <1>1, FS_EmptySet DEF DirectoryBounded

LEMMA DirectoryNext ==
    RecoveryInv /\ DirectoryBounded /\ [Next]_vars => DirectoryBounded'
  <1>. SUFFICES ASSUME RecoveryInv, DirectoryBounded, [Next]_vars
                PROVE  DirectoryBounded'
    OBVIOUS
  <1>. USE DEF DirectoryBounded, memVars, walVars, snapVars, engineVars, history
  <1>1. CASE UNCHANGED <<files, phase>>
    BY <1>1 DEF TooMany
  <1>2. CASE FlushCreate
    <2>1. DOMAIN files' = DOMAIN files \cup {now} /\ phase' = "write"
      BY <1>2 DEF FlushCreate, SnapCreate, WithFile
    <2>. QED  BY <2>1, FS_AddElement
  <1>3. CASE FlushWrite
    <2>1. DOMAIN files' = DOMAIN files \cup {saving} /\ phase' = "cleanup"
      BY <1>3 DEF FlushWrite, SnapWrite, WithFile
    <2>. QED  BY <2>1, FS_AddElement
  <1>4. CASE FlushCleanup
    <2>1. CASE SnapRemoveOldest /\ UNCHANGED phase
      <3>1. PICK n : DOMAIN files' = DOMAIN files \ {n}
        BY <2>1 DEF SnapRemoveOldest
      <3>2. phase' = "cleanup"
        BY <1>4, <2>1 DEF FlushCleanup
      <3>. QED  BY <3>1, <3>2, FS_RemoveElement
    <2>2. CASE ~TooMany /\ phase' = "truncate" /\ UNCHANGED snapVars
      BY <2>2 DEF TooMany
    <2>. QED  BY <1>4, <2>1, <2>2 DEF FlushCleanup
  <1>5. CASE files' = files /\ phase' # "truncate"
    BY <1>5
  <1>6. ASSUME NEW k \in Keys, PutLog(k) \/ DeleteLog(k) \/ LogFails(k)
        PROVE  UNCHANGED <<files, phase>>
    BY <1>6 DEF PutLog, DeleteLog, Log, LogFails
  <1>7. ASSUME NEW k \in Keys, CrashInAppend(k)
        PROVE  files' = files /\ phase' # "truncate"
    BY <1>7 DEF CrashInAppend, Die
  <1>8. ASSUME \/ \E o \in inflight : Insert(o)
               \/ Reap \/ Tick \/ Open \/ UNCHANGED vars
        PROVE  UNCHANGED <<files, phase>>
    BY <1>8 DEF Insert, Reap, Tick, Open, vars
  <1>9. ASSUME TimerFlush \/ NotifiedFlush \/ FlushTruncate \/ FlushError \/ Crash
        PROVE  files' = files /\ phase' # "truncate"
    BY <1>9 DEF TimerFlush, NotifiedFlush, FlushClone, FlushTruncate, FlushError,
                Crash, Die
  <1>. QED
    BY <1>1, <1>2, <1>3, <1>4, <1>5, <1>6, <1>7, <1>8, <1>9 DEF Next

LEMMA TruncateCovered == RecoveryInv /\ DirectoryBounded => TruncateIsCovered
  <1>. SUFFICES ASSUME RecoveryInv, DirectoryBounded, phase = "truncate"
                PROVE  /\ Loadable /\ LoadLatest = clone
                       /\ Cardinality(DOMAIN files) \in 1 .. MaxSnapshots
    BY DEF TruncateIsCovered
  <1>1. IsLatest(saving) /\ files[saving] = Whole(clone)
    BY DEF RecoveryInv, SavingIsLatest
  <1>2. Loadable /\ LoadLatest = clone
    BY <1>1, LatestTable DEF RecoveryInv, TypeOK, Whole
  <1>3. Cardinality(DOMAIN files) \in Nat /\ Cardinality(DOMAIN files) # 0
    BY <1>1, FS_CardinalityType, FS_EmptySet DEF DirectoryBounded, IsLatest
  <1>. QED  BY <1>2, <1>3, MaxSnapshotsAssumption DEF DirectoryBounded, TooMany

\* When flush truncates the log the newest snapshot is whole and is its clone,
\* and cleanup has left between one file and the limit.
THEOREM TruncateAlwaysCovered == Spec => []TruncateIsCovered
  <1>1. Spec => []DirectoryBounded
    BY RecoveryInvariant, DirectoryInit, DirectoryNext, PTL DEF Spec
  <1>. QED  BY <1>1, RecoveryInvariant, TruncateCovered, PTL

-----------------------------------------------------------------------------
(***************************************************************************)
(* Sequence numbers.                                                       *)
(***************************************************************************)

\* The counter of a running log is not below the number of any entry a replay
\* would return: SequencesIncrease says nothing of it, and rests on it.
SequenceInv ==
    up => \A i \in DOMAIN lines : Valid(lines, i) => lines[i].entry.sequence <= sequence

\* One more piece, numbered no higher than the counter.
LEMMA SequenceAppend ==
    ASSUME TypeOK, SequenceInv, up, NEW x \in Piece, lines' = Append(lines, x),
           sequence' = sequence + 1, x.entry = Garbled \/ x.entry.sequence = sequence + 1
    PROVE  /\ SequenceInv'
           /\ \A i \in 1 .. Len(lines') - 1 :
                 Valid(lines', i) => lines'[i].entry.sequence < sequence + 1
  <1>1. PICK n \in Nat : n = Len(lines)
    BY DEF TypeOK, WalTypeOK
  <1>2. /\ WalTypeOK /\ Len(lines') = n + 1 /\ DOMAIN lines = 1 .. n
        /\ DOMAIN lines' = 1 .. n + 1 /\ lines'[n + 1] = x /\ sequence \in Nat
    BY <1>1, AppendPiece DEF TypeOK, WalTypeOK
  <1>3. ASSUME NEW i \in 1 .. n, Valid(lines', i)
        PROVE  lines'[i].entry.sequence < sequence + 1
               /\ lines'[i].entry.sequence <= sequence + 1
    <2>1. Valid(lines, i) /\ lines'[i] = lines[i]
      BY <1>1, <1>2, <1>3, AppendValid
    <2>2. lines[i] \in Piece /\ lines[i].entry # Garbled
      BY <1>2, <2>1 DEF WalTypeOK, Valid
    <2>3. lines[i].entry.sequence \in Nat /\ lines[i].entry.sequence <= sequence
      BY <1>2, <2>1, <2>2, PieceFields DEF SequenceInv
    <2>. QED  BY <1>2, <2>1, <2>3
  <1>4. ASSUME Valid(lines', n + 1)
        PROVE  lines'[n + 1].entry.sequence <= sequence + 1
    BY <1>2, <1>4 DEF Valid
  <1>5. SequenceInv'
    <2>. SUFFICES ASSUME NEW i \in 1 .. n + 1, Valid(lines', i)
                  PROVE  lines'[i].entry.sequence <= sequence + 1
      BY <1>2 DEF SequenceInv
    <2>1. i \in 1 .. n \/ i = n + 1
      BY <1>1
    <2>. QED  BY <1>3, <1>4, <2>1
  <1>6. Len(lines') - 1 = n
    BY <1>1, <1>2
  <1>. QED  BY <1>3, <1>5, <1>6

\* An accepted write is numbered above every entry before it.
LEMMA SequenceLog ==
    ASSUME TypeOK, SequenceInv, NEW k \in Keys, NEW v \in Version, Log(k, v)
    PROVE  /\ SequenceInv'
           /\ \A i \in 1 .. Len(lines') - 1 : Valid(lines', i) =>
                 lines'[i].entry.sequence < lines'[Len(lines')].entry.sequence
  <1>1. PICK e \in WalEntry : e = NewEntry(k, v) /\ e.sequence = sequence + 1
    BY NewEntryType DEF TypeOK
  <1>2. PICK x \in Piece : x = Line(e) /\ x.entry = e
    BY MakePiece
  <1>3. up /\ lines' = Append(lines, x) /\ sequence' = sequence + 1
    BY <1>1, <1>2 DEF Log, WalAppend
  <1>4. lines'[Len(lines')] = x
    BY <1>3, AppendPiece DEF TypeOK, WalTypeOK
  <1>. QED  BY <1>1, <1>2, <1>3, <1>4, SequenceAppend

LEMMA SequenceNext ==
    TypeOK /\ SequenceInv /\ [Next]_vars => SequenceInv'
  <1>. SUFFICES ASSUME TypeOK, SequenceInv, [Next]_vars
                PROVE  SequenceInv'
    OBVIOUS
  <1>. USE DEF memVars, walVars, snapVars, engineVars, history
  <1>1. ASSUME NEW k \in Keys, PutLog(k) \/ DeleteLog(k)
        PROVE  SequenceInv'
    <2>1. PICK v \in Version : Log(k, v)
      BY <1>1, NewVersionsType DEF PutLog, DeleteLog, TypeOK
    <2>. QED  BY <2>1, SequenceLog
  <1>2. ASSUME NEW k \in Keys, LogFails(k)
        PROVE  SequenceInv'
    <2>1. PICK v \in Version : WalAppendFails(k, v)
      BY <1>2, NewVersionsType DEF LogFails, TypeOK
    <2>2. up /\ up' /\ sequence' = sequence + 1 /\ sequence \in Nat
      BY <1>2, <2>1 DEF LogFails, WalAppendFails, TypeOK, WalTypeOK
    <2>3. CASE lines' = lines
      <3>1. \A i \in DOMAIN lines : Valid(lines, i) =>
                lines[i].entry.sequence \in Nat
        <4>1. \A i \in DOMAIN lines : lines[i] \in Piece
          BY DEF TypeOK, WalTypeOK
        <4>. QED  BY <4>1, PieceFields DEF Valid
      <3>2. \A i \in DOMAIN lines : Valid(lines, i) =>
                lines[i].entry.sequence <= sequence + 1
        BY <2>2, <3>1 DEF SequenceInv
      <3>. QED  BY <2>2, <2>3, <3>2 DEF SequenceInv
    <2>4. CASE \E x \in Piece :
                 /\ lines' = Append(lines, x)
                 /\ x.entry = Garbled \/ x.entry.sequence = sequence + 1
      BY <2>2, <2>4, SequenceAppend
    <2>5. PICK e \in WalEntry : e = NewEntry(k, v) /\ e.sequence = sequence + 1
      BY NewEntryType DEF TypeOK
    <2>6. /\ Line(e) \in Piece /\ Line(e).entry = e
          /\ Part(e) \in Piece /\ Part(e).entry = e
          /\ Part(Garbled) \in Piece /\ Part(Garbled).entry = Garbled
      BY MakePiece
    <2>7. lines' \in {lines, Append(lines, Line(e)), Append(lines, Part(e)),
                      Append(lines, Part(Garbled))}
      BY <2>1, <2>5 DEF WalAppendFails
    <2>. QED  BY <2>3, <2>4, <2>5, <2>6, <2>7
  <1>3. CASE FlushTruncate
    <2>1. lines' = << >>
      BY <1>3 DEF FlushTruncate, WalTruncate
    <2>. QED  BY <2>1 DEF SequenceInv
  <1>4. CASE Open
    <2>1. PICK file \in Files : WalOpen(file)
      BY <1>4 DEF Open
    <2>2. lines' = file /\ \A i \in DOMAIN file : Valid(file, i) =>
              file[i].entry.sequence <= sequence'
      BY <2>1 DEF WalOpen, FoundSequences
    <2>. QED  BY <2>2 DEF SequenceInv
  <1>5. ASSUME \/ Crash
               \/ \E k \in Keys : CrashInAppend(k)
        PROVE  SequenceInv'
    <2>1. ~up'
      BY <1>5 DEF Crash, CrashInAppend, Die
    <2>. QED  BY <2>1 DEF SequenceInv
  <1>6. ASSUME UNCHANGED walVars, up' => up
        PROVE  SequenceInv'
    BY <1>6 DEF SequenceInv
  <1>7. ASSUME \/ \E o \in inflight : Insert(o)
               \/ TimerFlush \/ NotifiedFlush \/ Reap \/ Tick
               \/ UNCHANGED vars
        PROVE  UNCHANGED walVars /\ (up' => up)
    BY <1>7 DEF Insert, TimerFlush, NotifiedFlush, FlushClone, Reap, Tick, vars
  <1>8. ASSUME FlushCreate \/ FlushWrite \/ FlushCleanup \/ FlushError
        PROVE  UNCHANGED walVars /\ (up' => up)
    BY <1>8 DEF FlushCreate, FlushWrite, FlushCleanup, FlushError
  <1>. QED
    BY <1>1, <1>2, <1>3, <1>4, <1>5, <1>6, <1>7, <1>8 DEF Next

LEMMA SequenceStep ==
    ASSUME TypeOK, SequenceInv, [Next]_vars, NEW o \in inflight' \ inflight
    PROVE  \A i \in 1 .. Len(lines') - 1 : Valid(lines', i) =>
               lines'[i].entry.sequence < lines'[Len(lines')].entry.sequence
  <1>. USE DEF memVars, walVars, snapVars, engineVars, history
  <1>1. ASSUME NEW k \in Keys, PutLog(k) \/ DeleteLog(k)
        PROVE  \A i \in 1 .. Len(lines') - 1 : Valid(lines', i) =>
                   lines'[i].entry.sequence < lines'[Len(lines')].entry.sequence
    <2>1. PICK v \in Version : Log(k, v)
      BY <1>1, NewVersionsType DEF PutLog, DeleteLog, TypeOK
    <2>. QED  BY <2>1, SequenceLog
  <1>2. ASSUME \/ \E k \in Keys : LogFails(k) \/ CrashInAppend(k)
               \/ \E p \in inflight : Insert(p)
               \/ Reap \/ Tick \/ Crash \/ Open \/ UNCHANGED vars
        PROVE  inflight' \subseteq inflight
    BY <1>2 DEF LogFails, CrashInAppend, Insert, Reap, Tick, Crash, Die, Open, vars
  <1>3. ASSUME \/ TimerFlush \/ NotifiedFlush \/ FlushCreate \/ FlushWrite
               \/ FlushCleanup \/ FlushTruncate \/ FlushError
        PROVE  inflight' \subseteq inflight
    BY <1>3 DEF TimerFlush, NotifiedFlush, FlushClone, FlushCreate, FlushWrite,
                FlushCleanup, FlushTruncate, FlushError
  <1>. QED  BY <1>1, <1>2, <1>3 DEF Next

\* For any number of failed and torn appends, truncations and reopenings: the
\* entry of an accepted write is numbered above every entry that precedes it in
\* the log.  What refused writes leave behind may repeat a number.
THEOREM SequencesAlwaysIncrease == Spec => SequencesIncrease
  <1>1. Init => SequenceInv
    BY DEF Init, WalInit, SequenceInv
  <1>2. TypeOK /\ SequenceInv /\ [Next]_vars =>
            [\A o \in inflight' \ inflight, i \in 1 .. Len(lines') - 1 :
               Valid(lines', i) =>
                   lines'[i].entry.sequence < lines'[Len(lines')].entry.sequence]_vars
    BY SequenceStep
  <1>. QED  BY <1>1, <1>2, TypeCorrect, SequenceNext, PTL DEF Spec, SequencesIncrease

-----------------------------------------------------------------------------
(***************************************************************************)
(* The size estimate.  The lemmas on sums are in module FoldLemmas.        *)
(***************************************************************************)

\* The summands of TableSize.
SizesOf(d) == [k \in Keys |-> EntrySize(d[k])]

LEMMA SizesType ==
    ASSUME NEW d \in Tables
    PROVE  SizesOf(d) \in [Keys -> Nat]
  <1>1. ASSUME NEW k \in Keys PROVE EntrySize(d[k]) \in Nat
    BY MemTableAssumption DEF Tables, EntrySize, Version
  <1>. QED  BY <1>1 DEF SizesOf

\* The sum over a table is a size, not below the size of any entry.
LEMMA TableSizeBounds ==
    ASSUME NEW d \in Tables
    PROVE  /\ TableSize(d) \in Nat
           /\ \A k \in Keys : EntrySize(d[k]) <= TableSize(d)
  <1>1. /\ SumFunction(SizesOf(d)) \in Nat
        /\ \A k \in Keys : SizesOf(d)[k] <= SumFunction(SizesOf(d))
    BY SizesType, SumBounds, MemTableAssumption
  <1>2. SumFunction(SizesOf(d)) = TableSize(d)
    BY DEF SizesOf, TableSize
  <1>. QED  BY <1>1, <1>2 DEF SizesOf

\* The difference MemTable::put adds is the difference of the two sums.
LEMMA PutSize ==
    ASSUME NEW d \in Tables, NEW k \in Keys, NEW v \in Version
    PROVE  TableSize([d EXCEPT ![k] = v]) =
              TableSize(d) - EntrySize(d[k]) + EntrySize(v)
  <1>. DEFINE e == [d EXCEPT ![k] = v]
              f == SizesOf(d)
              g == SizesOf(e)
  <1>1. e \in Tables
    BY DEF Tables
  <1>2. f \in [Keys -> Int] /\ g \in [Keys -> Int]
    <2>1. f \in [Keys -> Nat] /\ g \in [Keys -> Nat]
      <3>. HIDE DEF e
      <3>. QED  BY <1>1, SizesType
    <2>. HIDE DEF f, g
    <2>. QED  BY <2>1
  <1>3. /\ f[k] = EntrySize(d[k]) /\ g[k] = EntrySize(v)
        /\ \A j \in Keys \ {k} : g[j] = f[j]
    BY DEF SizesOf, Tables
  <1>4. TableSize(d) = SumFunction(f) /\ TableSize(e) = SumFunction(g)
    BY DEF SizesOf, TableSize
  <1>5. SumFunction(g) = SumFunction(f) - f[k] + g[k]
    <2>. HIDE DEF f, g
    <2>. QED  BY <1>2, <1>3, SumUpdate, MemTableAssumption
  <1>. QED  BY <1>3, <1>4, <1>5

SizeInv == size_bytes = TableSize(data)

LEMMA SizeInit == Init => SizeInv
  <1>. SUFFICES ASSUME Init PROVE SizeInv
    OBVIOUS
  <1>1. size_bytes = 0 /\ data = EmptyTable /\ data \in Tables
    BY DEF Init, MemInit, EmptyTable, Tables
  <1>2. \A k \in Keys : SizesOf(data)[k] = 0
    BY <1>1 DEF SizesOf, EntrySize, EmptyTable
  <1>3. SumFunction(SizesOf(data)) = 0
    BY <1>1, <1>2, SizesType, SumBounds, MemTableAssumption
  <1>. QED  BY <1>1, <1>3 DEF SizesOf, TableSize, SizeInv

LEMMA SizeNext ==
    TypeOK /\ SizeInv /\ [Next]_vars => SizeInv'
  <1>. SUFFICES ASSUME TypeOK, SizeInv, [Next]_vars
                PROVE  size_bytes' = TableSize(data')
    BY DEF SizeInv
  <1>. USE DEF memVars, walVars, snapVars, engineVars, history
  <1>1. ASSUME NEW o \in inflight, Insert(o)
        PROVE  size_bytes' = TableSize(data')
    <2>1. o.key \in Keys /\ o.value \in Version /\ data \in Tables
      BY DEF TypeOK, Op
    <2>2. /\ data' = [data EXCEPT ![o.key] = o.value]
          /\ size_bytes' = size_bytes - EntrySize(data[o.key]) + EntrySize(o.value)
      BY <1>1 DEF Insert, MemPut
    <2>. QED  BY <2>1, <2>2, PutSize DEF SizeInv
  <1>2. CASE Reap
    BY <1>2 DEF Reap, MemEvict
  <1>3. CASE Open
    BY <1>3 DEF Open
  <1>4. ASSUME UNCHANGED memVars
        PROVE  size_bytes' = TableSize(data')
    <2>1. size_bytes' = size_bytes /\ data' = data
      BY <1>4
    <2>. QED  BY <2>1 DEF SizeInv
  <1>5. ASSUME \E k \in Keys : PutLog(k) \/ DeleteLog(k) \/ LogFails(k) \/ CrashInAppend(k)
        PROVE  UNCHANGED memVars
    BY <1>5 DEF PutLog, DeleteLog, Log, LogFails, CrashInAppend, Die
  <1>6. ASSUME \/ TimerFlush \/ NotifiedFlush \/ FlushCreate \/ FlushWrite
               \/ FlushCleanup \/ FlushTruncate \/ FlushError
               \/ Tick \/ Crash \/ UNCHANGED vars
        PROVE  UNCHANGED memVars
    BY <1>6 DEF TimerFlush, NotifiedFlush, FlushClone, FlushCreate, FlushWrite,
                FlushCleanup, FlushTruncate, FlushError, Tick, Crash, Die, vars
  <1>. QED  BY <1>1, <1>2, <1>3, <1>4, <1>5, <1>6 DEF Next

\* The running size estimate is the size of the table whatever puts, deletes,
\* evictions and reopenings did to it, and no subtraction takes it below zero.
THEOREM SizeAlwaysAccurate == Spec => []SizeAccurate
  <1>1. TypeOK /\ SizeInv => SizeAccurate
    BY TableSizeBounds DEF SizeInv, SizeAccurate, TypeOK
  <1>. QED  BY <1>1, SizeInit, SizeNext, TypeCorrect, PTL DEF Spec

-----------------------------------------------------------------------------
(***************************************************************************)
(* Reads.                                                                  *)
(***************************************************************************)
ReadStep(k) ==
    Visible(data'[k], now') # Visible(data[k], now) =>
        \/ \E o \in inflight \ inflight' : o.key = k /\ data'[k] = o.value
        \/ now' > now /\ Visible(data'[k], now') = Absent
        \/ ~up /\ up'

LEMMA ReadSteps ==
    ASSUME TypeOK, [Next]_vars, NEW k \in Keys
    PROVE  ReadStep(k)
  <1>. USE DEF memVars, walVars, snapVars, engineVars, history
  <1>1. CASE UNCHANGED <<data, now>>
    BY <1>1 DEF ReadStep
  <1>2. ASSUME NEW o \in inflight, Insert(o)
        PROVE  ReadStep(k)
    <2>1. /\ data' = [data EXCEPT ![o.key] = o.value] /\ now' = now
          /\ inflight' = inflight \ {o}
      BY <1>2 DEF Insert, MemPut
    <2>2. CASE o.key = k
      BY <2>1, <2>2 DEF ReadStep, TypeOK, Tables
    <2>3. CASE o.key # k
      BY <2>1, <2>3 DEF ReadStep, TypeOK, Tables
    <2>. QED  BY <2>2, <2>3
  <1>3. CASE Reap
    BY <1>3, ReapInvisible DEF Reap, ReadStep
  <1>4. CASE Tick
    <2>1. data' = data /\ now' = now + 1 /\ now \in Nat
      BY <1>4 DEF Tick, TypeOK
    <2>2. Visible(data[k], now + 1) \in {Absent, Visible(data[k], now)}
      BY <2>1, EntryTypes DEF Visible, IsExpired, Version, Never
    <2>. QED  BY <2>1, <2>2 DEF ReadStep
  <1>5. CASE Open
    BY <1>5 DEF Open, ReadStep
  <1>6. ASSUME NEW h \in Keys,
               PutLog(h) \/ DeleteLog(h) \/ LogFails(h) \/ CrashInAppend(h)
        PROVE  UNCHANGED <<data, now>>
    BY <1>6 DEF PutLog, DeleteLog, Log, LogFails, CrashInAppend, Die
  <1>7. ASSUME TimerFlush \/ NotifiedFlush \/ FlushCreate \/ FlushWrite
               \/ FlushCleanup \/ FlushTruncate \/ FlushError
        PROVE  UNCHANGED <<data, now>>
    BY <1>7 DEF TimerFlush, NotifiedFlush, FlushClone, FlushCreate, FlushWrite,
                FlushCleanup, FlushTruncate, FlushError
  <1>8. ASSUME Crash \/ UNCHANGED vars
        PROVE  UNCHANGED <<data, now>>
    BY <1>8 DEF Crash, Die, vars
  <1>. QED
    BY <1>1, <1>2, <1>3, <1>4, <1>5, <1>6, <1>7, <1>8 DEF Next

\* Neither the reaper nor a flush, whatever they interleave with, changes what
\* a reader sees.
THEOREM ReadsChangeByWrites == Spec => OnlyWritesChangeReads
  <1>1. TypeOK /\ [Next]_vars => [\A k \in Keys : ReadStep(k)]_vars
    BY ReadSteps
  <1>2. TypeOK /\ [Next]_vars =>
            [\A k \in Keys :
               Visible(data'[k], now') # Visible(data[k], now) =>
                   \/ \E o \in inflight \ inflight' : o.key = k /\ data'[k] = o.value
                   \/ now' > now /\ Visible(data'[k], now') = Absent
                   \/ ~up /\ up']_vars
    BY <1>1 DEF ReadStep
  <1>. QED  BY <1>2, TypeCorrect, PTL DEF Spec, OnlyWritesChangeReads

-----------------------------------------------------------------------------
(***************************************************************************)
(* StorageEngine implements DurableStore.                                  *)
(***************************************************************************)

\* put and delete, up to the insertion: the write is accepted.
LEMMA StoreLog ==
    ASSUME TypeOK, NEW k \in Keys, NEW v \in Version, Log(k, v)
    PROVE  D!Accept
  <1>. DEFINE new == [key |-> k, value |-> v]
  <1>1. /\ up /\ inflight' = inflight \cup {new} /\ new.key = k
        /\ UNCHANGED <<data, now, up>>
    BY DEF Log, memVars
  <1>2. KeysOf(inflight') = KeysOf(inflight) \cup {k}
    BY <1>1 DEF KeysOf
  <1>3. Fragile' = {}
    <2>1. PICK x \in Piece : lines' = Append(lines, x) /\ x.ended
      BY NewEntryType, MakePiece DEF Log, WalAppend, TypeOK
    <2>2. lines'[Len(lines')].ended
      BY <2>1, AppendPiece DEF TypeOK, WalTypeOK
    <2>. QED  BY <2>2 DEF Fragile, Dangling
  <1>4. AtRisk' = AtRisk \cup {k}
    BY <1>2, <1>3 DEF AtRisk, Log
  <1>5. Shown' = Shown
    BY <1>1 DEF Shown
  <1>. QED  BY <1>1, <1>4, <1>5 DEF D!Accept

\* A failed append: the write is refused.
LEMMA StoreFails ==
    ASSUME TypeOK, NEW k \in Keys, LogFails(k)
    PROVE  D!Refuse(k)
  <1>1. /\ up /\ UNCHANGED <<data, now, up, inflight, overlap>>
        /\ exposed' = exposed \cup Fragile \cup {k}
    BY DEF LogFails, memVars, engineVars
  <1>2. PICK v \in Version : WalAppendFails(k, v)
    BY NewVersionsType DEF LogFails, TypeOK
  <1>3. Fragile' \subseteq Fragile \cup {k}
    <2>. SUFFICES ASSUME lines' # lines PROVE Fragile' \subseteq {k}
      BY DEF Fragile, Dangling
    <2>1. PICK x \in Piece : (x.entry = Garbled \/ x.entry.key = k)
                             /\ lines' = Append(lines, x)
      BY <1>2, FailedPieces DEF TypeOK
    <2>2. lines'[Len(lines')] = x
      BY <2>1, AppendPiece DEF TypeOK, WalTypeOK
    <2>. QED  BY <2>1, <2>2 DEF Fragile, Valid
  <1>4. AtRisk' = AtRisk \cup {k}
    BY <1>1, <1>3 DEF AtRisk
  <1>5. Shown' = Shown
    BY <1>1 DEF Shown
  <1>. QED  BY <1>1, <1>4, <1>5 DEF D!Refuse

\* The insertion: the write takes effect.
LEMMA StoreInsert ==
    ASSUME TypeOK, NEW o \in inflight, Insert(o)
    PROVE  D!Apply(o)
  <1>1. /\ up /\ up' = up /\ o.key \in Keys /\ data \in Tables
        /\ data' = [data EXCEPT ![o.key] = o.value] /\ now' = now
        /\ inflight' = inflight \ {o}
        /\ UNCHANGED <<lines, overlap, exposed>>
    BY DEF Insert, MemPut, walVars, history, TypeOK, Op
  <1>2. data'[o.key] = o.value /\ \A k \in Keys : k # o.key => data'[k] = data[k]
    BY <1>1 DEF Tables
  <1>3. Shown' = [Shown EXCEPT ![o.key] = Shown'[o.key]]
    <2>1. ASSUME NEW k \in Keys, k # o.key
          PROVE  Shown'[k] = Shown[k]
      BY <1>1, <1>2, <2>1 DEF Shown
    <2>2. DOMAIN Shown' = Keys /\ DOMAIN Shown = Keys
          /\ Shown' = [k \in Keys |-> Shown'[k]]
      BY DEF Shown
    <2>. QED  BY <1>1, <2>1, <2>2
  <1>4. Shown'[o.key] \in {Absent} \cup (IF o.value.deleted THEN {} ELSE {o.value})
    BY <1>1, <1>2 DEF Shown, Visible
  <1>5. Fragile' = Fragile
    BY <1>1 DEF Fragile, Dangling
  <1>6. KeysOf(inflight') \subseteq KeysOf(inflight)
        /\ KeysOf(inflight) \ {o.key} \subseteq KeysOf(inflight')
    BY <1>1 DEF KeysOf
  <1>7. AtRisk \ {o.key} \subseteq AtRisk' /\ AtRisk' \subseteq AtRisk
    BY <1>1, <1>5, <1>6 DEF AtRisk
  <1>. QED  BY <1>1, <1>3, <1>4, <1>7 DEF D!Apply

\* The steps of flush settle keys or change nothing.
LEMMA StoreFlush ==
    ASSUME RecoveryInv,
           \/ TimerFlush \/ NotifiedFlush \/ FlushCreate \/ FlushWrite
           \/ FlushCleanup \/ FlushTruncate \/ FlushError
    PROVE  D!Settle
  <1>1. UNCHANGED <<data, now, up, inflight>>
    BY DEF TimerFlush, NotifiedFlush, FlushClone, FlushCreate, FlushWrite,
           FlushCleanup, FlushTruncate, FlushError, memVars
  <1>2. Fragile' \subseteq Fragile /\ exposed' \cup overlap' \subseteq AtRisk
    <2>1. CASE FlushTruncate
      <3>1. Fragile' = {}
        BY <2>1 DEF FlushTruncate, WalTruncate, Fragile
      <3>. QED  BY <2>1, <3>1 DEF FlushTruncate, AtRisk, RecoveryInv, LeftoversExposed
    <2>2. CASE UNCHANGED walVars /\ exposed' = exposed
               /\ overlap' \in {overlap, {}, KeysOf(inflight)}
      BY <2>2 DEF walVars, Fragile, Dangling, AtRisk
    <2>3. CASE \/ TimerFlush \/ NotifiedFlush \/ FlushCreate \/ FlushWrite
               \/ FlushCleanup \/ FlushError
      <3>1. UNCHANGED walVars /\ exposed' = exposed
            /\ overlap' \in {overlap, {}, KeysOf(inflight)}
        BY <2>3 DEF TimerFlush, NotifiedFlush, FlushClone, FlushCreate, FlushWrite,
                    FlushCleanup, FlushError, history
      <3>. QED  BY <2>2, <3>1
    <2>. QED  BY <2>1, <2>3
  <1>3. AtRisk' \subseteq AtRisk /\ KeysOf(inflight) \subseteq AtRisk'
    BY <1>1, <1>2 DEF AtRisk
  <1>4. Shown' = Shown
    BY <1>1 DEF Shown
  <1>. QED  BY <1>1, <1>3, <1>4 DEF D!Settle, D!Written, KeysOf

\* Time passes, and the reaper removes what nobody sees.
LEMMA StoreExpire ==
    ASSUME TypeOK, Reap \/ Tick
    PROVE  D!Expire
  <1>1. UNCHANGED <<up, inflight, AtRisk>>
    BY DEF Reap, Tick, walVars, engineVars, history, AtRisk, Fragile, Dangling
  <1>2. ASSUME NEW k \in Keys
        PROVE  Shown'[k] \in {Shown[k], Absent}
    <2>1. CASE Reap
      <3>1. Visible(data'[k], now') = Visible(data[k], now)
        BY <2>1, ReapInvisible DEF Reap
      <3>. QED  BY <3>1 DEF Shown
    <2>2. CASE Tick
      <3>1. data' = data /\ now' = now + 1 /\ now \in Nat
        BY <2>2 DEF Tick, memVars, TypeOK
      <3>2. Visible(data[k], now + 1) \in {Absent, Visible(data[k], now)}
        BY <3>1, EntryTypes DEF Visible, IsExpired, Version, Never
      <3>. QED  BY <3>1, <3>2 DEF Shown
    <2>. QED  BY <2>1, <2>2
  <1>3. DOMAIN Shown' = Keys
    BY DEF Shown
  <1>. QED  BY <1>1, <1>2, <1>3 DEF D!Expire

\* The process dies.
LEMMA StoreStop ==
    ASSUME RecoveryInv, Die, NEW K \in SUBSET Keys,
           K = {} \/ \E k \in Keys : K = {k},
           KeysOf(inflight) \subseteq exposed',
           exposed' \cup Fragile' \subseteq AtRisk \cup K
    PROVE  D!Stop
  <1>1. /\ up /\ ~up' /\ inflight' = {} /\ overlap' = {}
        /\ UNCHANGED <<data, now>>
    BY DEF Die, memVars
  <1>2. KeysOf(inflight') = {}
    BY <1>1 DEF KeysOf
  <1>3. AtRisk' \subseteq AtRisk \cup K /\ KeysOf(inflight) \subseteq AtRisk'
    BY <1>1, <1>2 DEF AtRisk
  <1>4. Shown' = Shown
    BY <1>1 DEF Shown
  <1>. QED  BY <1>1, <1>3, <1>4 DEF D!Stop, D!Written, KeysOf

LEMMA StoreCrash ==
    ASSUME RecoveryInv, Crash
    PROVE  D!Stop
  <1>1. /\ Die /\ exposed' = exposed \cup KeysOf(inflight)
        /\ UNCHANGED lines
    BY DEF Crash, walVars
  <1>2. Fragile' = Fragile
    BY <1>1 DEF Fragile, Dangling
  <1>3. exposed' \cup Fragile' \subseteq AtRisk \cup {}
    BY <1>1, <1>2 DEF AtRisk
  <1>4. KeysOf(inflight) \subseteq exposed' /\ {} \in SUBSET Keys
    BY <1>1
  <1>. QED  BY <1>1, <1>3, <1>4, StoreStop

LEMMA StoreTear ==
    ASSUME RecoveryInv, NEW k \in Keys, CrashInAppend(k)
    PROVE  D!Stop
  <1>1. /\ Die
        /\ exposed' = exposed \cup KeysOf(inflight) \cup Fragile \cup {k}
    BY DEF CrashInAppend
  <1>2. PICK v \in Version : WalTear(k, v)
    BY NewVersionsType DEF CrashInAppend, RecoveryInv, TypeOK
  <1>3. Fragile' = {}
    <2>1. PICK x \in Piece : lines' = Append(lines, x) /\ x.ended
      BY <1>2, NewEntryType, MakePiece DEF WalTear, RecoveryInv, TypeOK
    <2>2. lines'[Len(lines')].ended
      BY <2>1, AppendPiece DEF RecoveryInv, TypeOK, WalTypeOK
    <2>. QED  BY <2>2 DEF Fragile, Dangling
  <1>4. exposed' \cup Fragile' \subseteq AtRisk \cup {k}
    BY <1>1, <1>3 DEF AtRisk
  <1>5. KeysOf(inflight) \subseteq exposed' /\ {k} \in SUBSET Keys
    BY <1>1
  <1>. QED  BY <1>1, <1>4, <1>5, StoreStop

\* It comes back.
LEMMA StoreOpen ==
    ASSUME RecoveryInv, Open
    PROVE  D!Start
  <1>1. /\ ~up /\ up' /\ inflight' = inflight /\ overlap' = overlap
        /\ exposed' = {} /\ now' = now
    BY DEF Open
  <1>2. Fragile' \subseteq Fragile \cup exposed
    <2>. SUFFICES ASSUME NEW k \in Fragile', k \notin exposed PROVE k \in Fragile
      OBVIOUS
    <2>1. PICK file \in Files : lines' = file
      BY DEF Open, WalOpen
    <2>2. WalTypeOK /\ LeftoversExposed
      BY DEF RecoveryInv, TypeOK
    <2>3. PICK i : i = Len(file) /\ Shows(file, k, i) /\ ~file[i].ended
      BY <2>1 DEF Fragile, Dangling, Shows
    <2>4. /\ Shows(lines, k, i) /\ ~lines[i].ended
          /\ i \in 1 .. Len(lines) - pending
      BY <2>2, <2>3, ShowsInFile
    <2>5. Len(file) >= Len(lines) - pending /\ file \in Seq(Piece)
      BY <2>2, FilesShape
    <2>6. /\ i = Len(lines) - pending /\ i \in DOMAIN lines /\ pending \in Nat
          /\ Len(lines) \in Nat
      BY <2>2, <2>3, <2>4, <2>5 DEF WalTypeOK, Shows, Valid
    <2>7. pending = 0
      <3>1. k \notin EdgeKeys
        BY <2>2 DEF LeftoversExposed
      <3>2. ~(pending > 0)
        BY <2>4, <2>6, <3>1 DEF EdgeKeys, Shows, Valid
      <3>. QED  BY <2>6, <3>2
    <2>8. i = Len(lines) /\ lines # << >>
      BY <2>6, <2>7
    <2>. QED  BY <2>4, <2>6, <2>8 DEF Fragile, Dangling, Shows
  <1>3. AtRisk' \subseteq AtRisk
    BY <1>1, <1>2 DEF AtRisk
  <1>4. ASSUME NEW k \in Keys \ AtRisk
        PROVE  Shown'[k] = Shown[k]
    <2>1. k \in Keys \ exposed
      BY <1>4 DEF AtRisk
    <2>. QED  BY <2>1, OpenKeeps DEF Shown
  <1>. QED  BY <1>1, <1>3, <1>4 DEF D!Start

LEMMA StoreStep ==
    ASSUME RecoveryInv, [Next]_vars
    PROVE  [D!Next]_<<Shown, up, inflight, AtRisk>>
  <1>t. TypeOK
    BY DEF RecoveryInv
  <1>1. ASSUME NEW k \in Keys, PutLog(k) \/ DeleteLog(k)
        PROVE  D!Accept
    <2>1. PICK v \in Version : Log(k, v)
      BY <1>1, <1>t, NewVersionsType DEF PutLog, DeleteLog, TypeOK
    <2>. QED  BY <1>t, <2>1, StoreLog
  <1>2. ASSUME NEW k \in Keys, LogFails(k)
        PROVE  D!Refuse(k)
    BY <1>2, <1>t, StoreFails
  <1>3. ASSUME NEW k \in Keys, CrashInAppend(k)
        PROVE  D!Stop
    BY <1>3, StoreTear
  <1>4. ASSUME NEW o \in inflight, Insert(o)
        PROVE  D!Apply(o)
    BY <1>4, <1>t, StoreInsert
  <1>5. CASE UNCHANGED vars
    BY <1>5 DEF vars, memVars, walVars, engineVars, history, Shown, AtRisk, Fragile, Dangling
  <1>. QED
    BY <1>1, <1>2, <1>3, <1>4, <1>5, <1>t, StoreFlush, StoreExpire, StoreCrash,
       StoreOpen DEF Next, D!Next

\* For any keys, writers, crashes and failed appends the engine is the store
\* that module DurableStore describes: a key is at risk only through writes of
\* that key, and every other key survives a restart.
THEOREM EngineImplementsDurableStore == Spec => ImplementsDurableStore
  <1>1. Init => D!Init
    <2>. SUFFICES ASSUME Init PROVE D!Init
      OBVIOUS
    <2>1. Shown = [k \in Keys |-> Absent]
      BY DEF Init, MemInit, EmptyTable, Shown, Visible
    <2>2. AtRisk = {}
      BY DEF Init, WalInit, AtRisk, KeysOf, Fragile
    <2>. QED  BY <2>1, <2>2 DEF Init, D!Init
  <1>2. RecoveryInv /\ [Next]_vars => [D!Next]_<<Shown, up, inflight, AtRisk>>
    BY StoreStep
  <1>. QED  BY <1>1, <1>2, RecoveryInvariant, PTL
            DEF Spec, ImplementsDurableStore, D!Spec
=============================================================================
