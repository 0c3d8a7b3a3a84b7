------------------------ MODULE WriteAheadLogProofs ------------------------
(***************************************************************************)
(* Lemmas about WriteAheadLog: the types of its operations, what a reader  *)
(* may find in the file, and which keys an append or a death can disturb.  *)
(***************************************************************************)
EXTENDS WriteAheadLog, TLAPS, SequenceTheorems

-----------------------------------------------------------------------------
(***************************************************************************)
(* Types.                                                                  *)
(***************************************************************************)

\* A log with one more piece.
LEMMA AppendPiece ==
    ASSUME NEW s \in Seq(Piece), NEW x \in Piece
    PROVE  /\ Append(s, x) \in Seq(Piece)
           /\ Len(s) \in Nat /\ Len(Append(s, x)) = Len(s) + 1
           /\ DOMAIN s = 1 .. Len(s) /\ DOMAIN Append(s, x) = 1 .. Len(s) + 1
           /\ \A i \in 1 .. Len(s) : Append(s, x)[i] = s[i]
           /\ Append(s, x)[Len(s) + 1] = x
  <1>1. Append(s, x) \in Seq(Piece)
    OBVIOUS
  <1>2. Len(s) \in Nat /\ Len(Append(s, x)) = Len(s) + 1 /\ DOMAIN s = 1 .. Len(s)
    OBVIOUS
  <1>3. DOMAIN Append(s, x) = 1 .. Len(s) + 1
    BY <1>1, <1>2
  <1>4. \A i \in 1 .. Len(s) : Append(s, x)[i] = s[i]
    OBVIOUS
  <1>5. Append(s, x)[Len(s) + 1] = x
    OBVIOUS
  <1>. QED  BY <1>1, <1>2, <1>3, <1>4, <1>5

LEMMA NewEntryType ==
    ASSUME WalTypeOK, NEW k \in Keys, NEW v \in Version
    PROVE  /\ NewEntry(k, v) \in WalEntry /\ NewEntry(k, v) # Garbled
           /\ NewEntry(k, v).sequence = sequence + 1
           /\ NewEntry(k, v).key = k /\ NewEntry(k, v).value = v
  BY GarbledAssumption DEF NewEntry, WalEntry, WalTypeOK

\* Every piece holds an entry or nothing that parses.
LEMMA PieceFields ==
    ASSUME NEW x \in Piece
    PROVE  /\ x.entry \in WalEntry \cup {Garbled} /\ x.ended \in BOOLEAN
           /\ x.entry # Garbled => x.entry.key \in Keys
                                  /\ x.entry.sequence \in Nat
                                  /\ x.entry.value \in Version
  <1>1. x.entry \in WalEntry \cup {Garbled} /\ x.ended \in BOOLEAN
    BY Zenon DEF Piece
  <1>. QED  BY <1>1 DEF WalEntry

LEMMA MakePiece ==
    ASSUME NEW e \in WalEntry \cup {Garbled}
    PROVE  /\ Line(e) \in Piece /\ Line(e).entry = e /\ Line(e).ended
           /\ Part(e) \in Piece /\ Part(e).entry = e /\ ~Part(e).ended
  <1>1. Line(e) \in Piece /\ Part(e) \in Piece
    BY Zenon DEF Piece, Line, Part
  <1>2. Line(e).entry = e /\ Part(e).entry = e
    BY DEF Line, Part
  <1>3. Line(e).ended /\ ~Part(e).ended
    BY Zenon DEF Line, Part
  <1>. QED  BY <1>1, <1>2, <1>3

\* Some of the pieces of a log.
LEMMA SubSeqPieces ==
    ASSUME NEW s \in Seq(Piece), NEW m \in 1 .. Len(s) + 1, NEW n \in 0 .. Len(s),
           m <= n + 1
    PROVE  /\ SubSeq(s, m, n) \in Seq(Piece) /\ Len(SubSeq(s, m, n)) = n - m + 1
           /\ \A i \in 1 .. n - m + 1 : SubSeq(s, m, n)[i] = s[m + i - 1]
  <1>1. Len(s) \in Nat /\ \A i \in m .. n : s[i] \in Piece
    OBVIOUS
  <1>2. m \in Int /\ n \in Int
    BY <1>1
  <1>3. /\ SubSeq(s, m, n) \in Seq(Piece)
        /\ Len(SubSeq(s, m, n)) = IF m <= n THEN n - m + 1 ELSE 0
        /\ \A i \in 1 .. n - m + 1 : SubSeq(s, m, n)[i] = s[m + i - 1]
    BY <1>1, <1>2, SubSeqProperties
  <1>. QED  BY <1>1, <1>3

LEMMA PendingType ==
    ASSUME WalTypeOK
    PROVE  /\ Pending \in Seq(Piece) /\ Len(Pending) = pending
           /\ \A i \in 1 .. pending : Pending[i] = lines[Len(lines) - pending + i]
  <1>1. lines \in Seq(Piece) /\ Len(lines) \in Nat /\ pending \in 0 .. Len(lines)
    BY DEF WalTypeOK
  <1>2. PICK m \in 1 .. Len(lines) + 1 : m = Len(lines) - pending + 1
    BY <1>1
  <1>3. Len(lines) \in 0 .. Len(lines) /\ m <= Len(lines) + 1
        /\ Len(lines) - m + 1 = pending
        /\ \A i \in 1 .. pending : m + i - 1 = Len(lines) - pending + i
    BY <1>1, <1>2
  <1>4. Pending = SubSeq(lines, m, Len(lines))
    BY <1>2 DEF Pending
  <1>. QED  BY <1>1, <1>3, <1>4, SubSeqPieces

\* The operations of the log keep its types.
LEMMA AppendType ==
    ASSUME WalTypeOK, NEW k \in Keys, NEW v \in Version, WalAppend(k, v)
    PROVE  WalTypeOK'
  <1>1. PICK x \in Piece : lines' = Append(lines, x)
    BY NewEntryType, MakePiece DEF WalAppend
  <1>2. lines' \in Seq(Piece) /\ Len(lines') \in Nat
    BY <1>1, AppendPiece DEF WalTypeOK
  <1>3. pending' \in 0 .. Len(lines') /\ sequence' \in Nat /\ stale' \in Seq(Piece)
    BY <1>2 DEF WalAppend, WalTypeOK
  <1>. QED  BY <1>2, <1>3 DEF WalTypeOK

LEMMA AppendFailsType ==
    ASSUME WalTypeOK, NEW k \in Keys, NEW v \in Version, WalAppendFails(k, v)
    PROVE  WalTypeOK'
  <1>1. CASE UNCHANGED <<lines, pending>>
    BY <1>1 DEF WalAppendFails, WalTypeOK
  <1>2. CASE \E x \in Piece : lines' = Append(lines, x)
    <2>1. PICK x \in Piece : lines' = Append(lines, x)
      BY <1>2
    <2>2. /\ lines' \in Seq(Piece) /\ Len(lines) \in Nat
          /\ Len(lines') = Len(lines) + 1
      BY <2>1, AppendPiece DEF WalTypeOK
    <2>3. pending' \in {pending, pending + 1, 0}
      BY DEF WalAppendFails
    <2>. QED  BY <2>2, <2>3 DEF WalAppendFails, WalTypeOK
  <1>. QED  BY <1>1, <1>2, NewEntryType, MakePiece DEF WalAppendFails

LEMMA TearType ==
    ASSUME WalTypeOK, NEW k \in Keys, NEW v \in Version, WalTear(k, v)
    PROVE  WalTypeOK'
  <1>1. PICK x \in Piece : lines' = Append(lines, x)
    BY NewEntryType, MakePiece DEF WalTear
  <1>2. lines' \in Seq(Piece) /\ Len(lines) \in Nat /\ Len(lines') = Len(lines) + 1
    BY <1>1, AppendPiece DEF WalTypeOK
  <1>3. pending' \in 0 .. Len(lines') /\ sequence' \in Nat /\ stale' \in Seq(Piece)
    BY <1>2 DEF WalTear, WalTypeOK
  <1>. QED  BY <1>2, <1>3 DEF WalTypeOK

LEMMA TruncateType ==
    ASSUME WalTypeOK, WalTruncate
    PROVE  WalTypeOK'
  <1>1. << >> \in Seq(Piece) /\ 0 \in 0 .. Len(<< >>)
    OBVIOUS
  <1>. QED  BY <1>1, PendingType DEF WalTruncate, WalTypeOK

LEMMA KeysInType ==
    ASSUME NEW s \in Seq(Piece)
    PROVE  KeysIn(s) \subseteq Keys
  <1>1. \A i \in DOMAIN s : s[i] \in Piece
    OBVIOUS
  <1>. QED  BY <1>1, PieceFields DEF KeysIn

LEMMA FragileType ==
    ASSUME WalTypeOK
    PROVE  Fragile \subseteq Keys
  <1>1. \A i \in DOMAIN lines : lines[i] \in Piece
    BY DEF WalTypeOK
  <1>. QED  BY <1>1, PieceFields DEF Fragile, Valid

-----------------------------------------------------------------------------
(***************************************************************************)
(* What a reader may find.                                                 *)
(***************************************************************************)

LEMMA BeginningsShape ==
    ASSUME NEW s \in Seq(Piece), NEW n \in 0 .. Len(s), NEW b \in Beginnings(s, n)
    PROVE  /\ b \in Seq(Piece) /\ Len(b) \in n .. Len(s)
           /\ \A i \in 1 .. n : b[i] = s[i]
           /\ \A i \in 1 .. Len(b) : b[i].entry \in {Garbled, s[i].entry}
  <1>0. Len(s) \in Nat
    OBVIOUS
  <1>1. CASE \E m \in n .. Len(s) : b = SubSeq(s, 1, m)
    <2>1. PICK m \in n .. Len(s) : b = SubSeq(s, 1, m)
      BY <1>1
    <2>2. 1 \in 1 .. Len(s) + 1 /\ m \in 0 .. Len(s) /\ 1 <= m + 1
      BY <1>0, <2>1
    <2>3. b \in Seq(Piece) /\ Len(b) = m - 1 + 1 /\ \A i \in 1 .. m - 1 + 1 : b[i] = s[1 + i - 1]
      BY <2>1, <2>2, SubSeqPieces
    <2>4. Len(b) = m /\ \A i \in 1 .. m : b[i] = s[i]
      BY <1>0, <2>2, <2>3
    <2>. QED  BY <1>0, <2>1, <2>3, <2>4
  <1>2. CASE \E m \in n + 1 .. Len(s), x \in Piece :
                x.entry \in {Garbled, s[m].entry} /\ b = Append(SubSeq(s, 1, m - 1), x)
    <2>1. PICK m \in n + 1 .. Len(s), x \in Piece :
                x.entry \in {Garbled, s[m].entry} /\ b = Append(SubSeq(s, 1, m - 1), x)
      BY <1>2
    <2>2. 1 \in 1 .. Len(s) + 1 /\ m - 1 \in 0 .. Len(s) /\ 1 <= m - 1 + 1
      BY <1>0, <2>1
    <2>3. PICK t : t = SubSeq(s, 1, m - 1)
      OBVIOUS
    <2>4. t \in Seq(Piece) /\ Len(t) = m - 1 - 1 + 1 /\ \A i \in 1 .. m - 1 - 1 + 1 : t[i] = s[1 + i - 1]
      BY <2>2, <2>3, SubSeqPieces
    <2>5. Len(t) = m - 1 /\ \A i \in 1 .. m - 1 : t[i] = s[i]
      BY <1>0, <2>2, <2>4
    <2>7. /\ b \in Seq(Piece) /\ Len(b) = m /\ b[m] = x
          /\ \A i \in 1 .. m - 1 : b[i] = s[i]
      BY <1>0, <2>1, <2>3, <2>4, <2>5, AppendPiece
    <2>8. \A i \in 1 .. n : i \in 1 .. m - 1
      BY <1>0, <2>1
    <2>9. \A i \in 1 .. m : i = m \/ i \in 1 .. m - 1
      BY <1>0, <2>1
    <2>10. \A i \in 1 .. m : b[i].entry \in {Garbled, s[i].entry}
      BY <2>1, <2>7, <2>9
    <2>11. m \in n .. Len(s)
      BY <1>0, <2>1
    <2>. QED  BY <2>7, <2>8, <2>10, <2>11
  <1>3. ASSUME NEW m \in n + 1 .. Len(s)
        PROVE  /\ Part(s[m].entry) \in Piece /\ Part(s[m].entry).entry = s[m].entry
               /\ Part(Garbled) \in Piece /\ Part(Garbled).entry = Garbled
    <2>1. s[m] \in Piece
      BY <1>0
    <2>2. s[m].entry \in WalEntry \cup {Garbled}
      BY <2>1, PieceFields
    <2>. QED  BY <2>2, MakePiece
  <1>4. \/ \E m \in n .. Len(s) : b = SubSeq(s, 1, m)
        \/ \E m \in n + 1 .. Len(s) :
              b \in {Append(SubSeq(s, 1, m - 1), Part(s[m].entry)),
                     Append(SubSeq(s, 1, m - 1), Part(Garbled))}
    BY DEF Beginnings
  <1>. QED  BY <1>1, <1>2, <1>3, <1>4

LEMMA EndingsShape ==
    ASSUME NEW s \in Seq(Piece), NEW b \in Endings(s)
    PROVE  /\ b \in Seq(Piece) /\ KeysIn(b) \subseteq KeysIn(s)
           /\ s = << >> => b = << >>
  <1>0. Len(s) \in Nat /\ DOMAIN s = 1 .. Len(s) /\ (s = << >> => Len(s) = 0)
    OBVIOUS
  <1>t. ASSUME NEW m \in 1 .. Len(s) + 1
        PROVE  /\ SubSeq(s, m, Len(s)) \in Seq(Piece)
               /\ Len(SubSeq(s, m, Len(s))) = Len(s) - m + 1
               /\ \A i \in 1 .. Len(s) - m + 1 : SubSeq(s, m, Len(s))[i] = s[m + i - 1]
    <2>1. Len(s) \in 0 .. Len(s) /\ m <= Len(s) + 1
      BY <1>0
    <2>. QED  BY <2>1, SubSeqPieces
  <1>1. CASE \E m \in 1 .. Len(s) + 1 : b = SubSeq(s, m, Len(s))
    <2>1. PICK m \in 1 .. Len(s) + 1 : b = SubSeq(s, m, Len(s))
      BY <1>1
    <2>2. /\ b \in Seq(Piece) /\ DOMAIN b = 1 .. Len(s) - m + 1
          /\ \A i \in 1 .. Len(s) - m + 1 : b[i] = s[m + i - 1]
      BY <1>t, <2>1
    <2>3. \A i \in DOMAIN b : \E j \in DOMAIN s : b[i] = s[j]
      BY <1>0, <2>1, <2>2
    <2>4. s = << >> => b = << >>
      BY <1>0, <2>1, <2>2
    <2>. QED  BY <2>2, <2>3, <2>4 DEF KeysIn
  <1>2. CASE \E m \in 1 .. Len(s) :
                b = <<[entry |-> Garbled, ended |-> s[m].ended]>> \o SubSeq(s, m + 1, Len(s))
    <2>1. PICK m \in 1 .. Len(s) :
                b = <<[entry |-> Garbled, ended |-> s[m].ended]>> \o SubSeq(s, m + 1, Len(s))
      BY <1>2
    <2>2. PICK x \in Piece : x.entry = Garbled /\ b = <<x>> \o SubSeq(s, m + 1, Len(s))
      <3>1. s[m] \in Piece
        BY <1>0, <2>1
      <3>2. Garbled \in WalEntry \cup {Garbled} /\ s[m].ended \in BOOLEAN
        BY <3>1, PieceFields
      <3>3. [entry |-> Garbled, ended |-> s[m].ended] \in Piece
            /\ [entry |-> Garbled, ended |-> s[m].ended].entry = Garbled
        BY <3>2, Zenon DEF Piece
      <3>. QED  BY <2>1, <3>3, Zenon
    <2>3. PICK t \in Seq(Piece) : /\ t = SubSeq(s, m + 1, Len(s)) /\ Len(t) = Len(s) - m
                                  /\ \A i \in 1 .. Len(s) - m : t[i] = s[m + i]
      <3>1. PICK p \in 1 .. Len(s) + 1 : p = m + 1
        BY <1>0, <2>1
      <3>2. /\ SubSeq(s, p, Len(s)) \in Seq(Piece)
            /\ Len(SubSeq(s, p, Len(s))) = Len(s) - p + 1
            /\ \A i \in 1 .. Len(s) - p + 1 : SubSeq(s, p, Len(s))[i] = s[p + i - 1]
        BY <1>t, <3>1
      <3>3. Len(s) - p + 1 = Len(s) - m
            /\ \A i \in 1 .. Len(s) - m : i \in Nat /\ p + i - 1 = m + i
        BY <1>0, <2>1, <3>1
      <3>4. \A i \in 1 .. Len(s) - m : SubSeq(s, p, Len(s))[i] = s[m + i]
        BY <3>2, <3>3
      <3>5. Len(SubSeq(s, p, Len(s))) = Len(s) - m
        BY <3>2, <3>3
      <3>6. SubSeq(s, p, Len(s)) = SubSeq(s, m + 1, Len(s))
        BY <3>1
      <3>. QED  BY <3>2, <3>4, <3>5, <3>6, Zenon
    <2>4. b = <<x>> \o t /\ <<x>> \in Seq(Piece) /\ Len(<<x>>) = 1 /\ <<x>>[1] = x
      BY <2>2, <2>3
    <2>5. /\ b \in Seq(Piece) /\ Len(b) = 1 + Len(t)
          /\ \A i \in 1 .. 1 + Len(t) : b[i] = IF i <= 1 THEN <<x>>[i] ELSE t[i - 1]
      BY <2>4, ConcatProperties
    <2>6. ASSUME NEW i \in DOMAIN b
          PROVE  b[i].entry = Garbled \/ \E j \in DOMAIN s : b[i] = s[j]
      <3>0. Len(t) \in Nat /\ i \in 1 .. 1 + Len(t)
        BY <2>3, <2>5
      <3>1. CASE i = 1
        <4>1. b[1] = <<x>>[1]
          BY <2>5, <3>0, <3>1
        <4>. QED  BY <2>2, <2>4, <3>1, <4>1
      <3>2. CASE i # 1
        <4>1. PICK j \in 1 .. Len(t) : j = i - 1 /\ ~(i <= 1)
          BY <3>0, <3>2
        <4>2. b[i] = t[j]
          BY <2>5, <3>0, <4>1
        <4>3. j \in 1 .. Len(s) - m /\ m + j \in DOMAIN s
          <5>1. m \in 1 .. Len(s) /\ Len(t) = Len(s) - m
            BY <2>1, <2>3
          <5>. QED  BY <1>0, <3>0, <4>1, <5>1
        <4>. QED  BY <2>3, <4>2, <4>3
      <3>. QED  BY <3>1, <3>2
    <2>7. s # << >>
      BY <1>0, <2>1
    <2>. QED  BY <2>5, <2>6, <2>7 DEF KeysIn
  <1>. QED  BY <1>1, <1>2 DEF Endings

LEMMA TailsShape ==
    ASSUME WalTypeOK, NEW t \in Tails
    PROVE  /\ t \in Seq(Piece) /\ KeysIn(t) \subseteq KeysIn(stale)
           /\ stale = << >> => t = << >>
  <1>1. PICK s \in Endings(stale) : t \in Beginnings(s, 0)
    BY DEF Tails
  <1>2. s \in Seq(Piece) /\ KeysIn(s) \subseteq KeysIn(stale) /\ (stale = << >> => s = << >>)
    BY <1>1, EndingsShape DEF WalTypeOK
  <1>3. Len(s) \in Nat /\ 0 \in 0 .. Len(s) /\ DOMAIN s = 1 .. Len(s)
        /\ (s = << >> => Len(s) = 0)
    BY <1>2
  <1>4. /\ t \in Seq(Piece) /\ Len(t) \in 0 .. Len(s)
        /\ \A i \in 1 .. Len(t) : t[i].entry \in {Garbled, s[i].entry}
    BY <1>1, <1>2, <1>3, BeginningsShape
  <1>5. DOMAIN t = 1 .. Len(t) /\ \A i \in DOMAIN t : i \in DOMAIN s
    BY <1>3, <1>4
  <1>6. KeysIn(t) \subseteq KeysIn(s)
    BY <1>4, <1>5 DEF KeysIn
  <1>7. s = << >> => t = << >>
    BY <1>3, <1>4
  <1>. QED  BY <1>2, <1>4, <1>6, <1>7

\* Of what is in the file for certain, only the newline at its end may differ.
LEMMA HeadsShape ==
    ASSUME WalTypeOK, NEW h \in Heads, NEW n, n = Len(lines) - pending
    PROVE  /\ h \in Seq(Piece) /\ Len(h) \in n .. Len(lines)
           /\ \A i \in 1 .. n :
                 /\ h[i].entry = lines[i].entry
                 /\ i < n \/ lines[i].ended \/ stale = << >> => h[i].ended = lines[i].ended
           /\ \A i \in 1 .. Len(h) : h[i].entry \in {Garbled, lines[i].entry}
           /\ stale = << >> /\ pending = 0 => h = lines
  <1>0. lines \in Seq(Piece) /\ Len(lines) \in Nat /\ n \in 0 .. Len(lines)
    BY DEF WalTypeOK
  <1>b. ASSUME NEW b \in Beginnings(lines, n)
        PROVE  /\ b \in Seq(Piece) /\ Len(b) \in n .. Len(lines)
               /\ \A i \in 1 .. n : b[i] = lines[i]
               /\ \A i \in 1 .. Len(b) : b[i].entry \in {Garbled, lines[i].entry}
    BY <1>0, BeginningsShape
  <1>1. CASE h \in Beginnings(lines, n)
    <2>1. pending = 0 => h = lines
      <3>. SUFFICES ASSUME pending = 0 PROVE h = lines
        OBVIOUS
      <3>1. n = Len(lines)
        BY <1>0
      <3>2. Len(h) = Len(lines) /\ \A i \in 1 .. Len(h) : h[i] = lines[i]
        BY <1>0, <1>1, <1>b, <3>1
      <3>. QED  BY <1>0, <1>1, <1>b, <3>2, SeqEqual
    <2>. QED  BY <1>1, <1>b, <2>1
  <1>2. CASE stale # << >> /\ \E b \in Beginnings(lines, n) : h = Closed(b)
    <2>1. PICK b \in Beginnings(lines, n) : h = Closed(b)
      BY <1>2
    <2>2. b \in Seq(Piece) /\ Len(b) \in Nat /\ DOMAIN b = 1 .. Len(b)
      BY <1>b
    <2>3. ASSUME NEW i \in 1 .. Len(b)
          PROVE  /\ h[i] \in Piece /\ h[i].entry = b[i].entry
                 /\ i < Len(b) \/ b[i].ended => h[i].ended = b[i].ended
      <3>1. b[i] \in Piece
        BY <2>2
      <3>2. h[i] = IF i = Len(b) THEN [b[i] EXCEPT !.ended = TRUE] ELSE b[i]
        BY <2>1, <2>2 DEF Closed
      <3>3. CASE i = Len(b)
        <4>1. h[i] = Line(b[i].entry)
          BY <3>1, <3>2, <3>3, Zenon DEF Piece, Line
        <4>2. b[i].entry \in WalEntry \cup {Garbled}
              /\ b[i].ended \in BOOLEAN
          BY <3>1, PieceFields
        <4>3. h[i] \in Piece /\ h[i].entry = b[i].entry /\ h[i].ended
          BY <4>1, <4>2, MakePiece
        <4>4. ~(i < Len(b))
          BY <2>2, <3>3
        <4>. QED  BY <4>2, <4>3, <4>4
      <3>4. CASE i # Len(b)
        BY <3>1, <3>2, <3>4
      <3>. QED  BY <3>3, <3>4
    <2>4. h = [i \in 1 .. Len(b) |-> h[i]]
      BY <2>1, <2>2 DEF Closed
    <2>5. h \in Seq(Piece) /\ Len(h) = Len(b)
      BY <2>2, <2>3, <2>4
    <2>6. Len(b) \in n .. Len(lines) /\ \A i \in 1 .. n : b[i] = lines[i] /\ (i < n => i < Len(b))
      BY <1>0, <1>b, <2>2
    <2>7. \A i \in 1 .. n : i \in 1 .. Len(b)
      BY <1>0, <2>2, <2>6
    <2>8. \A i \in 1 .. Len(b) : b[i].entry \in {Garbled, lines[i].entry}
      BY <1>b
    <2>9. \A i \in 1 .. n : /\ h[i].entry = lines[i].entry
                            /\ i < n \/ lines[i].ended => h[i].ended = lines[i].ended
      BY <2>3, <2>6, <2>7
    <2>. QED  BY <1>2, <2>3, <2>5, <2>6, <2>8, <2>9
  <1>. QED  BY <1>1, <1>2 DEF Heads

\* What a reader may find: the file as it is for certain, but for a newline that
\* old bytes may add at its end, and behind it only what some failed append left.
LEMMA FilesShape ==
    ASSUME WalTypeOK, NEW file \in Files, NEW n, n = Len(lines) - pending
    PROVE  /\ file \in Seq(Piece) /\ n \in 0 .. Len(lines) /\ Len(file) >= n
           /\ \A i \in 1 .. n :
                 /\ file[i].entry = lines[i].entry
                 /\ i < n \/ lines[i].ended \/ stale = << >>
                       => file[i].ended = lines[i].ended
           /\ \A i \in DOMAIN file : i > n =>
                 \/ file[i].entry = Garbled
                 \/ file[i].entry.key \in KeysIn(Pending) \cup KeysIn(stale)
           /\ stale = << >> /\ pending = 0 => file = lines
  <1>0. lines \in Seq(Piece) /\ Len(lines) \in Nat /\ pending \in Nat
        /\ n \in 0 .. Len(lines) /\ n + pending = Len(lines)
    BY DEF WalTypeOK
  <1>1. PICK h \in Heads, t \in Tails : file = h \o t
    BY DEF Files
  <1>2. /\ h \in Seq(Piece) /\ Len(h) \in n .. Len(lines)
        /\ \A i \in 1 .. n :
              /\ h[i].entry = lines[i].entry
              /\ i < n \/ lines[i].ended \/ stale = << >> => h[i].ended = lines[i].ended
        /\ \A i \in 1 .. Len(h) : h[i].entry \in {Garbled, lines[i].entry}
        /\ stale = << >> /\ pending = 0 => h = lines
    BY <1>1, HeadsShape
  <1>3. /\ t \in Seq(Piece) /\ KeysIn(t) \subseteq KeysIn(stale)
        /\ stale = << >> => t = << >>
    BY <1>1, TailsShape
  <1>4. Len(h) \in Nat /\ Len(t) \in Nat /\ DOMAIN t = 1 .. Len(t)
    BY <1>2, <1>3
  <1>5. /\ file \in Seq(Piece) /\ Len(file) = Len(h) + Len(t)
        /\ \A i \in 1 .. Len(h) + Len(t) :
              file[i] = IF i <= Len(h) THEN h[i] ELSE t[i - Len(h)]
    BY <1>1, <1>2, <1>3, ConcatProperties
  <1>6. \A i \in 1 .. n : i \in 1 .. Len(h) + Len(t) /\ i <= Len(h)
    BY <1>0, <1>2, <1>4
  <1>7. \A i \in 1 .. n : file[i] = h[i]
    BY <1>5, <1>6
  <1>8. ASSUME NEW i \in DOMAIN file, i > n, file[i].entry # Garbled
        PROVE  file[i].entry.key \in KeysIn(Pending) \cup KeysIn(stale)
    <2>0. i \in 1 .. Len(h) + Len(t)
      BY <1>5
    <2>1. CASE i <= Len(h)
      <3>1. file[i] = h[i] /\ i \in 1 .. Len(h)
        BY <1>4, <1>5, <2>0, <2>1
      <3>2. file[i].entry = lines[i].entry
        BY <1>2, <1>8, <3>1
      <3>3. PICK j \in 1 .. pending : i = Len(lines) - pending + j
        <4>1. i \in Nat /\ i <= Len(lines)
          BY <1>0, <1>2, <1>4, <2>0, <2>1
        <4>2. i - n \in 1 .. pending /\ i = Len(lines) - pending + (i - n)
          BY <1>0, <1>8, <4>1
        <4>. QED  BY <4>2
      <3>4. Pending[j] = lines[i] /\ j \in DOMAIN Pending
        BY <3>3, PendingType
      <3>. QED  BY <1>8, <3>2, <3>4 DEF KeysIn
    <2>2. CASE ~ (i <= Len(h))
      <3>1. PICK j \in DOMAIN t : file[i] = t[j]
        <4>1. file[i] = t[i - Len(h)] /\ i - Len(h) \in 1 .. Len(t)
          BY <1>4, <1>5, <2>0, <2>2
        <4>. QED  BY <1>4, <4>1
      <3>. QED  BY <1>3, <1>8, <3>1 DEF KeysIn
    <2>. QED  BY <2>1, <2>2
  <1>9. Len(file) >= n
    BY <1>0, <1>2, <1>4, <1>5
  <1>10. ASSUME stale = << >>, pending = 0 PROVE file = lines
    <2>1. file = lines \o << >>
      BY <1>1, <1>2, <1>3, <1>10
    <2>. QED  BY <1>0, <2>1
  <1>. QED  BY <1>0, <1>2, <1>5, <1>7, <1>8, <1>9, <1>10

LEMMA OpenType ==
    ASSUME WalTypeOK, NEW file \in Files, WalOpen(file)
    PROVE  WalTypeOK'
  <1>1. file \in Seq(Piece)
    BY FilesShape
  <1>2. \A i \in DOMAIN file : Valid(file, i) => file[i].entry.sequence \in Nat
    <2>1. \A i \in DOMAIN file : file[i] \in Piece
      BY <1>1
    <2>. QED  BY <2>1, PieceFields DEF Valid
  <1>3. sequence' \in Nat
    BY <1>2 DEF WalOpen, FoundSequences
  <1>4. lines' \in Seq(Piece) /\ Len(lines') \in Nat /\ stale' \in Seq(Piece)
    BY <1>1 DEF WalOpen
  <1>. QED  BY <1>3, <1>4 DEF WalOpen, WalTypeOK

-----------------------------------------------------------------------------
(***************************************************************************)
(* What replay makes of the log.                                           *)
(***************************************************************************)

\* A key has one last entry.
LEMMA LastInUnique ==
    ASSUME NEW s \in Seq(Piece), NEW k, NEW i, NEW j, LastIn(s, k, i), LastIn(s, k, j)
    PROVE  i = j
  <1>1. i \in DOMAIN s /\ j \in DOMAIN s /\ i \in Nat /\ j \in Nat
    BY DEF LastIn, Valid
  <1>2. ~ (i < j) /\ ~ (j < i)
    BY <1>1 DEF LastIn
  <1>. QED  BY <1>1, <1>2

\* The piece is an entry of key k that replay returns.
Shows(s, k, i) == Valid(s, i) /\ s[i].entry.key = k

\* Two logs that a replay of key k cannot tell apart.
SameFor(s, t, k) ==
    \A i : /\ LastIn(s, k, i) <=> LastIn(t, k, i)
           /\ LastIn(s, k, i) => s[i].entry = t[i].entry

LEMMA ShowsSame ==
    ASSUME NEW s, NEW t, NEW k, \A i : Shows(s, k, i) <=> Shows(t, k, i),
           \A i : Shows(s, k, i) => s[i].entry = t[i].entry
    PROVE  SameFor(s, t, k)
  <1>1. \A i : LastIn(s, k, i) <=> /\ Shows(s, k, i)
                                   /\ \A j : j > i => ~Shows(s, k, j)
    BY DEF LastIn, Shows, Valid
  <1>2. \A i : LastIn(t, k, i) <=> /\ Shows(t, k, i)
                                   /\ \A j : j > i => ~Shows(t, k, j)
    BY DEF LastIn, Shows, Valid
  <1>. QED  BY <1>1, <1>2 DEF SameFor

\* A piece at the end of the log disturbs only its own key, and that of an entry
\* whose line it continues.
LEMMA AppendSame ==
    ASSUME WalTypeOK, NEW x \in Piece, NEW k, k \notin Fragile,
           x.entry = Garbled \/ x.entry.key # k \/ Dangling
    PROVE  SameFor(lines, Append(lines, x), k)
  <1>1. PICK n \in Nat : n = Len(lines)
    BY DEF WalTypeOK
  <1>2. PICK t \in Seq(Piece) : t = Append(lines, x)
    BY AppendPiece DEF WalTypeOK
  <1>3. /\ DOMAIN lines = 1 .. n /\ DOMAIN t = 1 .. n + 1 /\ Len(t) = n + 1
        /\ t[n + 1] = x /\ \A i \in 1 .. n : t[i] = lines[i]
    BY <1>1, <1>2, AppendPiece DEF WalTypeOK
  <1>d. Dangling <=> n > 0 /\ ~lines[n].ended
    BY <1>1 DEF Dangling, WalTypeOK
  <1>4. ~Shows(t, k, n + 1)
    BY <1>1, <1>3, <1>d DEF Shows, Valid
  <1>5. ASSUME NEW i \in 1 .. n, Shows(lines, k, i)
        PROVE  Shows(t, k, i)
    <2>1. i < n \/ lines[i].ended
      <3>1. ~(i = n /\ Dangling)
        BY <1>1, <1>3, <1>5 DEF Fragile, Shows
      <3>. QED  BY <1>1, <1>d, <3>1
    <2>. QED  BY <1>1, <1>3, <1>5, <2>1 DEF Shows, Valid
  <1>6. ASSUME NEW i \in 1 .. n, Shows(t, k, i)
        PROVE  Shows(lines, k, i)
    BY <1>1, <1>3, <1>6 DEF Shows, Valid
  <1>7. \A i : Shows(lines, k, i) => i \in 1 .. n
    BY <1>3 DEF Shows, Valid
  <1>8. \A i : Shows(t, k, i) => i \in 1 .. n \/ i = n + 1
    BY <1>1, <1>3 DEF Shows, Valid
  <1>9. \A i : Shows(lines, k, i) <=> Shows(t, k, i)
    BY <1>4, <1>5, <1>6, <1>7, <1>8
  <1>. QED  BY <1>2, <1>3, <1>7, <1>9, ShowsSame

\* An entry appended to a log that ends a line is the last one of its key.
LEMMA AppendLast ==
    ASSUME WalTypeOK, NEW e \in WalEntry, ~Dangling
    PROVE  LET t == Append(lines, Line(e))
           IN  /\ LastIn(t, e.key, Len(lines) + 1)
               /\ t[Len(lines) + 1].entry = e
  <1>1. PICK n \in Nat : n = Len(lines)
    BY DEF WalTypeOK
  <1>0. e # Garbled /\ Line(e) \in Piece /\ Line(e).entry = e /\ Line(e).ended
    BY GarbledAssumption, MakePiece
  <1>2. PICK t \in Seq(Piece) : t = Append(lines, Line(e))
    BY <1>0, AppendPiece DEF WalTypeOK
  <1>3. /\ DOMAIN lines = 1 .. n /\ DOMAIN t = 1 .. n + 1 /\ Len(t) = n + 1
        /\ t[n + 1] = Line(e) /\ \A i \in 1 .. n : t[i] = lines[i]
    BY <1>0, <1>1, <1>2, AppendPiece DEF WalTypeOK
  <1>d. n > 0 => lines[n].ended
    BY <1>1 DEF Dangling, WalTypeOK
  <1>4. Valid(t, n + 1)
    BY <1>0, <1>1, <1>3, <1>d DEF Valid
  <1>5. LastIn(t, e.key, n + 1)
    BY <1>0, <1>1, <1>3, <1>4 DEF LastIn
  <1>. QED  BY <1>0, <1>1, <1>2, <1>3, <1>5

\* A piece that continues a line keeps an earlier piece from being returned, and
\* brings none back.
LEMMA AppendValid ==
    ASSUME WalTypeOK, NEW x \in Piece, NEW i \in 1 .. Len(lines),
           Valid(Append(lines, x), i)
    PROVE  Valid(lines, i) /\ Append(lines, x)[i] = lines[i]
  <1>1. PICK n \in Nat : n = Len(lines)
    BY DEF WalTypeOK
  <1>2. PICK t \in Seq(Piece) : t = Append(lines, x)
    BY AppendPiece DEF WalTypeOK
  <1>3. /\ DOMAIN lines = 1 .. n /\ DOMAIN t = 1 .. n + 1 /\ Len(t) = n + 1
        /\ \A j \in 1 .. n : t[j] = lines[j]
    BY <1>1, <1>2, AppendPiece DEF WalTypeOK
  <1>4. Valid(t, i) /\ i \in 1 .. n
    BY <1>1, <1>2
  <1>5. Valid(lines, i)
    BY <1>1, <1>3, <1>4 DEF Valid
  <1>. QED  BY <1>2, <1>3, <1>4, <1>5
=============================================================================
