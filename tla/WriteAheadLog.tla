--------------------------- MODULE WriteAheadLog ---------------------------
(***************************************************************************)
(* The write-ahead log (src/src/storage/wal.rs): a file of lines, one JSON *)
(* entry each, the BufWriter in front of it and the sequence counter of    *)
(* the open log.                                                           *)
(*                                                                         *)
(* The log is kept as one sequence, the file and then what the BufWriter   *)
(* holds, of pieces: an entry, or bytes that are none (Garbled), with or   *)
(* without the newline that ends it.  Pieces that share a line do not      *)
(* parse: replay and recover_sequence skip that line.                      *)
(*                                                                         *)
(* What a failed append could not write stays in the BufWriter and goes    *)
(* out with the next one that succeeds.  How much of it is in the file     *)
(* before that matters only when the process dies and the file is read:    *)
(* Files is every content the reader may find, and WalOpen chooses one.    *)
(***************************************************************************)
EXTENDS VersionedValue, Sequences

CONSTANT Garbled    \* bytes that do not parse or fail their checksum

WalEntry == [sequence: Nat, key: Keys, value: Version]
Piece == [entry: WalEntry \cup {Garbled}, ended: BOOLEAN]

ASSUME GarbledAssumption == Garbled \notin WalEntry

VARIABLES
    lines,    \* the pieces written since the log was opened or truncated, and
              \* what was in the file when it was opened
    pending,  \* how many of the last of them the BufWriter may still hold
    sequence, \* WriteAheadLog::sequence
    stale     \* pieces in the file where lines will be written: they begin
              \* anywhere in it, and lines overwrites them

walVars == <<lines, pending, sequence, stale>>

WalTypeOK ==
    /\ lines \in Seq(Piece) /\ stale \in Seq(Piece)
    /\ pending \in 0..Len(lines)
    /\ sequence \in Nat

WalInit == lines = << >> /\ pending = 0 /\ sequence = 0 /\ stale = << >>

-----------------------------------------------------------------------------
\* WalEntry::new.
NewEntry(k, v) == [sequence |-> sequence + 1, key |-> k, value |-> v]

\* A piece with its newline, and one without.
Line(entry) == [entry |-> entry, ended |-> TRUE]
Part(entry) == [entry |-> entry, ended |-> FALSE]

\* WriteAheadLog::append, run to completion under the log's mutex: the entry,
\* its newline, and a flush of all the BufWriter holds.
WalAppend(k, v) ==
    /\ lines' = Append(lines, Line(NewEntry(k, v)))
    /\ pending' = 0
    /\ sequence' = sequence + 1
    /\ UNCHANGED stale

\* append returns an I/O error.  The BufWriter
\*   - was full and could not be flushed: it takes none of the entry;
\*   - keeps the entry, and its newline unless the entry just filled it up;
\*   - was flushed, and a part of an entry too large for it was written.
WalAppendFails(k, v) ==
    /\ sequence' = sequence + 1
    /\ UNCHANGED stale
    /\ \/ UNCHANGED <<lines, pending>>
       \/ /\ lines' = Append(lines, Line(NewEntry(k, v)))
          /\ pending' = pending + 1
       \/ /\ pending > 0
          /\ lines' = Append(lines, Part(NewEntry(k, v)))
          /\ pending' = pending + 1
       \/ /\ lines' = Append(lines, Part(Garbled))
          /\ pending' = 0

\* append cut short by the death of the process.
WalTear(k, v) ==
    /\ lines' = Append(lines, Line(NewEntry(k, v)))
    /\ pending' = pending + 1
    /\ UNCHANGED <<sequence, stale>>

\* The pieces the BufWriter may hold.
Pending == SubSeq(lines, Len(lines) - pending + 1, Len(lines))

\* Mutant of WalTruncate: the file is emptied and the BufWriter kept.
WalTruncateKeepsWriter ==
    /\ lines' = << >> /\ sequence' = 0 /\ stale' = Pending
    /\ UNCHANGED pending

\* WriteAheadLog::truncate.  The old BufWriter is dropped after the file has
\* been emptied, and dropping it writes what it holds: at offset 0 when its
\* handle appends, and behind a hole, where the handle stood, when an earlier
\* truncate opened it.  The new handle writes from offset 0.
WalTruncate ==
    /\ lines' = << >> /\ pending' = 0 /\ sequence' = 0
    /\ stale' = Pending

-----------------------------------------------------------------------------
\* The piece is a line of its own and parses and verifies: replay returns it.
Valid(s, i) ==
    /\ i \in DOMAIN s /\ s[i].entry # Garbled
    /\ i > 1 => s[i - 1].ended
    /\ i < Len(s) => s[i].ended

\* The keys of the entries among the pieces s.
KeysIn(s) == {s[i].entry.key : i \in {j \in DOMAIN s : s[j].entry # Garbled}}

\* The next piece would continue the last one's line.
Dangling == lines # << >> /\ ~lines[Len(lines)].ended

\* The keys whose entry the next write would garble.
Fragile == {lines[i].entry.key :
               i \in {j \in DOMAIN lines : j = Len(lines) /\ Dangling /\ Valid(lines, j)}}

\* The first bytes of the pieces s, at least those of the first n.
Beginnings(s, n) ==
    UNION {{SubSeq(s, 1, m) : m \in n..Len(s)},
           {Append(SubSeq(s, 1, m - 1), Part(s[m].entry)) : m \in n + 1 .. Len(s)},
           {Append(SubSeq(s, 1, m - 1), Part(Garbled)) : m \in n + 1 .. Len(s)}}

\* The last bytes of the pieces s.
Endings(s) ==
    {SubSeq(s, m, Len(s)) : m \in 1..Len(s) + 1} \cup
    {<<[entry |-> Garbled, ended |-> s[m].ended]>> \o SubSeq(s, m + 1, Len(s)) :
        m \in 1..Len(s)}

\* The pieces s and a newline.
Closed(s) ==
    [i \in DOMAIN s |-> IF i = Len(s) THEN [s[i] EXCEPT !.ended = TRUE] ELSE s[i]]

\* What the process leaves of lines in the file: all but the last bytes of what
\* the BufWriter may hold.  A stale newline may come right after it.
Heads ==
    LET written == Beginnings(lines, Len(lines) - pending)
    IN  IF stale = << >> THEN written
        ELSE written \cup {Closed(s) : s \in written}

\* The drop in truncate may have failed part of the way, and lines covers some,
\* all or none of what it wrote, depending on the lengths and the hole.
Tails == UNION {Beginnings(s, 0) : s \in Endings(stale)}

\* The contents in which a reader may find the file.
Files == {head \o tail : head \in Heads, tail \in Tails}

\* Mutant of LastIn: the first entry of a key decides.
FirstIn(s, k, i) ==
    /\ Valid(s, i) /\ s[i].entry.key = k
    /\ \A j \in DOMAIN s : j < i /\ Valid(s, j) => s[j].entry.key # k

\* Replay is a put of each valid entry in file order: for each key the last
\* entry decides.
LastIn(s, k, i) ==
    /\ Valid(s, i) /\ s[i].entry.key = k
    /\ \A j \in DOMAIN s : j > i /\ Valid(s, j) => s[j].entry.key # k

\* Mutant of Replay: the log only fills in what the snapshot lacks.
ReplayUnder(d, file) ==
    [k \in Keys |->
        IF d[k] = Absent /\ \E i \in DOMAIN file : LastIn(file, k, i)
        THEN file[CHOOSE i \in DOMAIN file : LastIn(file, k, i)].entry.value
        ELSE d[k]]

\* WriteAheadLog::replay on top of the table d (StorageEngine::open).
Replay(d, file) ==
    [k \in Keys |->
        IF \E i \in DOMAIN file : LastIn(file, k, i)
        THEN file[CHOOSE i \in DOMAIN file : LastIn(file, k, i)].entry.value
        ELSE d[k]]

\* Mutant of WalOpen: the counter is not recovered.
WalOpenFromZero(file) ==
    /\ sequence' = 0
    /\ lines' = file /\ pending' = 0 /\ stale' = << >>

\* recover_sequence: 0 and the numbers of the lines that parse, the highest of
\* which it returns.
FoundSequences(file) ==
    {0} \cup {file[i].entry.sequence : i \in {j \in DOMAIN file : Valid(file, j)}}

\* WriteAheadLog::open: the file stays as it is and is appended to, the
\* counter is recovered, and the BufWriter is new.
WalOpen(file) ==
    /\ sequence' \in FoundSequences(file)
    /\ \A n \in FoundSequences(file) : n <= sequence'
    /\ lines' = file /\ pending' = 0 /\ stale' = << >>
=============================================================================
