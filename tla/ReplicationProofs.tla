------------------------- MODULE ReplicationProofs -------------------------
(***************************************************************************)
(* Proofs about Replication: what an acknowledged write and a read that    *)
(* heard from its quorum can count on, what vector clocks say of descent,  *)
(* and what resolve_conflicts makes of the answers, for any set of nodes,  *)
(* replicas, quorums and requests.                                         *)
(***************************************************************************)
EXTENDS Replication, FoldLemmas, FiniteSetTheorems, TLAPS

-----------------------------------------------------------------------------
(***************************************************************************)
(* Clocks and versions.                                                    *)
(***************************************************************************)

\* increment and merge make clocks, and neither loses what its argument counts.
LEMMA ClockOperations ==
    /\ EmptyClock \in Clocks
    /\ \A a \in Clocks, n \in Nodes : Increment(a, n) \in Clocks /\ Covers(Increment(a, n), a)
    /\ \A a, b \in Clocks : Merge(a, b) \in Clocks /\ Covers(Merge(a, b), b)
  BY DEF EmptyClock, Clocks, Increment, Merge, Covers

LEMMA CoversTransitive ==
    ASSUME NEW a \in Clocks, NEW b \in Clocks, NEW c \in Clocks,
           Covers(a, b), Covers(b, c)
    PROVE  Covers(a, c)
  <1>1. ASSUME NEW n \in Nodes PROVE a[n] >= c[n]
    <2>1. a[n] \in Nat /\ b[n] \in Nat /\ c[n] \in Nat
      BY DEF Clocks
    <2>2. a[n] >= b[n] /\ b[n] >= c[n]
      BY DEF Covers
    <2>. QED  BY <2>1, <2>2
  <1>. QED  BY <1>1 DEF Covers

\* Every clock covers itself.
LEMMA CoversReflexive == \A a \in Clocks : Covers(a, a)
  BY DEF Clocks, Covers

LEMMA LineageType ==
    ASSUME NEW v \in Version \cup {Absent}
    PROVE  ClockOf(v) \in Clocks /\ Lineage(v) \in SUBSET Name
  BY ClockOperations, ReplicationAssumption DEF ClockOf, Lineage, Version, Name

LEMMA VersionTypes ==
    ASSUME NEW o \in Ops, NEW n \in Nodes, NEW old \in Version \cup {Absent},
           NEW t \in Timestamps
    PROVE  /\ \A ttl \in Ttls : PutVersion(o, n, old, t, ttl) \in Version
           /\ TombstoneVersion(o, n, old, t) \in Version
  <1>1. t \in Nat /\ Ttls \subseteq BOOLEAN
    BY ReplicationAssumption
  <1>2. ClockOf(old) \in Clocks /\ Lineage(old) \in SUBSET Name
    BY LineageType
  <1>3. Merge(Increment(EmptyClock, n), ClockOf(old)) \in Clocks
    BY <1>2, ClockOperations
  <1>4. Increment(ClockOf(old), n) \in Clocks
    BY <1>2, ClockOperations
  <1>. QED  BY <1>1, <1>2, <1>3, <1>4 DEF PutVersion, TombstoneVersion, Version, Name

LEMMA WireType ==
    ASSUME NEW v \in Version \cup {Absent}
    PROVE  OverTheWire(v) \in Version \cup {Absent}
  BY DEF OverTheWire, Version

\* What StorageEngine::put or delete stores on a replica.
LEMMA WriteEffect ==
    ASSUME TypeOK, NEW o \in Ops, NEW n \in Nodes, Write(o, n)
    PROVE  /\ replica' \in [Nodes -> Version \cup {Absent}]
           /\ applied' = [applied EXCEPT ![o] = @ \cup {n}]
           /\ \A m \in Nodes :
                \/ replica'[m] = replica[m]
                \/ replica'[m] = version[o]
                \/ \E t \in Timestamps : replica'[m] = TombstoneVersion(o, n, answers[o][n], t)
  <1>1. answers[o][n] \in Version \cup {Absent} /\ version[o] \in Version \cup {Absent}
    BY DEF TypeOK
  <1>2. CASE kind[o] = "put"
    BY <1>1, <1>2 DEF Write, TypeOK
  <1>3. CASE kind[o] # "put"
    <2>1. PICK t \in Timestamps :
             replica' = [replica EXCEPT ![n] = TombstoneVersion(o, n, answers[o][n], t)]
      BY <1>3 DEF Write
    <2>2. TombstoneVersion(o, n, answers[o][n], t) \in Version
      BY <1>1, VersionTypes
    <2>. QED  BY <2>1, <2>2 DEF Write, TypeOK
  <1>. QED  BY <1>2, <1>3

-----------------------------------------------------------------------------
(***************************************************************************)
(* resolve_conflicts, round by round.                                      *)
(***************************************************************************)
Answers == Version \cup {Absent}

LEMMA PickType ==
    ASSUME NEW best \in Answers, NEW v \in Answers, NEW expired
    PROVE  Pick(best, v, expired) \in Answers
  BY DEF Pick

PickStep(expired) ==
    [best \in Answers |-> [v \in Answers |-> Pick(best, v, expired)]]

\* The function whose value at the domain the fold returns.
PickAlong(seq, expired) ==
    CHOOSE iter : iter = [s \in SUBSET DOMAIN seq |->
                            IF s = {} THEN Absent
                            ELSE LET x == Max(s)
                                 IN  Pick(iter[s \ {x}], seq[x], expired)]

LEMMA PickChosen ==
    ASSUME NEW seq, NEW expired
    PROVE  Resolve(seq, expired) = PickAlong(seq, expired)[DOMAIN seq]
  BY DEF Resolve, FoldLeft, MapThenFoldSet, PickAlong

\* rounds[i] is what the loop holds after the first i answers.
PickRounds(rounds, seq, expired) ==
    /\ rounds[0] = Absent
    /\ \A i \in 1..Len(seq) : rounds[i] = Pick(rounds[i - 1], seq[i], expired)

LEMMA ResolveIsRounds ==
    ASSUME NEW seq \in Seq(Answers), NEW expired
    PROVE  \E rounds \in [0..Len(seq) -> Answers] :
              PickRounds(rounds, seq, expired) /\ Resolve(seq, expired) = rounds[Len(seq)]
  <1>. DEFINE B(it) == [s \in SUBSET DOMAIN seq |->
                           IF s = {} THEN Absent
                           ELSE LET x == Max(s) IN Pick(it[s \ {x}], seq[x], expired)]
              op == PickStep(expired)
              chosen == PickAlong(seq, expired)
  <1>1. op \in [Answers -> [Answers -> Answers]] /\ Absent \in Answers
    BY PickType DEF PickStep, Answers
  <1>2. \A t, v \in Answers : op[t][v] = Pick(t, v, expired)
    BY DEF PickStep
  <1>. HIDE DEF op
  <1>3. PICK iter \in [SUBSET DOMAIN seq -> Answers] :
           FoldsLeft(iter, seq, Answers, Absent, op)
    BY <1>1, FoldLeftRounds
  <1>4. PICK rounds \in [0..Len(seq) -> Answers] :
           /\ Rounds(rounds, seq, Absent, op)
           /\ EndsWith(rounds, seq, Answers, Absent, op)
    BY <1>1, FoldLeftRounds
  <1>5. ASSUME NEW s \in SUBSET DOMAIN seq, s # {}, NEW t \in Answers
        PROVE  op[t][seq[Max(s)]] = Pick(t, seq[Max(s)], expired)
    <2>1. Max(s) \in DOMAIN seq
      BY <1>5, MaxOf
    <2>2. seq[Max(s)] \in Answers
      BY <2>1
    <2>. QED  BY <1>2, <2>2
  <1>6. ASSUME NEW s \in SUBSET DOMAIN seq
        PROVE  iter[s] = IF s = {} THEN Absent
                         ELSE Pick(iter[s \ {Max(s)}], seq[Max(s)], expired)
    BY <1>3, <1>5 DEF FoldsLeft
  <1>7. iter = B(iter)
    BY <1>6
  <1>8. chosen = B(chosen)
    BY <1>7 DEF PickAlong
  <1>. HIDE DEF chosen
  <1>9. ASSUME NEW s \in SUBSET DOMAIN seq
        PROVE  chosen[s] = IF s = {} THEN Absent
                           ELSE Pick(chosen[s \ {Max(s)}], seq[Max(s)], expired)
    BY <1>8
  <1>10. FoldsLeft(chosen, seq, Answers, Absent, op)
    BY <1>5, <1>9 DEF FoldsLeft
  <1>11. Resolve(seq, expired) = rounds[Len(seq)]
    BY <1>4, <1>10, PickChosen DEF chosen, EndsWith
  <1>12. ASSUME NEW i \in 1..Len(seq)
         PROVE  rounds[i] = Pick(rounds[i - 1], seq[i], expired)
    <2>1. rounds[i - 1] \in Answers /\ seq[i] \in Answers
      OBVIOUS
    <2>2. rounds[i] = op[rounds[i - 1]][seq[i]]
      BY <1>4 DEF Rounds
    <2>. QED  BY <1>2, <2>1, <2>2
  <1>13. rounds[0] = Absent
    BY <1>4 DEF Rounds
  <1>. QED  BY <1>11, <1>12, <1>13 DEF PickRounds

\* Of two clocks at most one dominates the other.
LEMMA DominatesOneWay ==
    ASSUME NEW a \in Clocks, NEW b \in Clocks, Dominates(a, b)
    PROVE  ~Dominates(b, a)
  <1>1. PICK n \in Nodes : a[n] > b[n]
    BY DEF Dominates
  <1>2. a[n] \in Nat /\ b[n] \in Nat
    BY DEF Clocks
  <1>3. ~(b[n] >= a[n])
    BY <1>1, <1>2
  <1>. QED  BY <1>3 DEF Dominates, Covers

\* v is live and dominates every other live answer.
Dominant(v, seq, expired) ==
    /\ Live(v, expired)
    /\ \A j \in 1..Len(seq) :
          Live(seq[j], expired) /\ seq[j] # v => Dominates(v.name.clock, seq[j].name.clock)

\* What the loop holds after i rounds: nothing or a live answer it has met,
\* nothing only if it has met none, and the dominant answer once it has met it.
LoopInv(best, i, v, seq, expired) ==
    /\ best = Absent \/ \E j \in 1..i : Live(seq[j], expired) /\ best = seq[j]
    /\ (\E j \in 1..i : Live(seq[j], expired)) => best # Absent
    /\ Dominant(v, seq, expired) /\ (\E j \in 1..i : seq[j] = v) => best = v

LEMMA LoopStep ==
    ASSUME NEW seq \in Seq(Answers), NEW expired, NEW v \in Answers,
           NEW i \in 1..Len(seq), NEW best \in Answers,
           LoopInv(best, i - 1, v, seq, expired)
    PROVE  LoopInv(Pick(best, seq[i], expired), i, v, seq, expired)
  <1>. DEFINE u == seq[i]
              next == Pick(best, u, expired)
  <1>1. i \in 1..i /\ \A j \in 1..(i - 1) : j \in 1..i /\ j \in 1..Len(seq)
    OBVIOUS
  <1>2. \A j \in 1..i : j = i \/ j \in 1..(i - 1)
    OBVIOUS
  <1>3. u \in Answers
    OBVIOUS
  <1>4. next = best \/ (Live(u, expired) /\ next = u)
    BY DEF Pick
  <1>5. Live(u, expired) /\ best = Absent => next = u
    BY DEF Pick
  <1>6. Live(u, expired) => u # Absent
    BY DEF Live
  <1>7. next = Absent \/ \E j \in 1..i : Live(seq[j], expired) /\ next = seq[j]
    <2>. HIDE DEF next
    <2>. QED  BY <1>1, <1>4 DEF LoopInv
  <1>8. ASSUME NEW j \in 1..i, Live(seq[j], expired) PROVE next # Absent
    <2>. HIDE DEF next
    <2>1. CASE j = i
      BY <1>4, <1>5, <1>6, <1>8, <2>1
    <2>2. CASE j \in 1..(i - 1)
      <3>1. best # Absent
        BY <1>8, <2>2 DEF LoopInv
      <3>. QED  BY <1>4, <1>6, <3>1
    <2>. QED  BY <1>2, <2>1, <2>2
  <1>9. ASSUME Dominant(v, seq, expired), NEW j \in 1..i, seq[j] = v
        PROVE  next = v
    <2>1. Live(v, expired) /\ v \in Version
      BY <1>9 DEF Dominant, Live, Answers
    <2>2. \A w \in Version : w.name.clock \in Clocks
      BY DEF Version, Name
    <2>3. CASE best = v
      <3>1. CASE Live(u, expired) /\ u # v
        <4>1. Dominates(v.name.clock, u.name.clock)
          BY <1>9, <3>1 DEF Dominant
        <4>2. u \in Version
          BY <1>3, <1>6, <3>1 DEF Answers
        <4>3. ~Dominates(u.name.clock, v.name.clock)
          BY <2>1, <2>2, <4>1, <4>2, DominatesOneWay
        <4>4. best # Absent
          BY <2>1, <2>3 DEF Live
        <4>. QED  BY <2>3, <4>1, <4>3, <4>4 DEF Pick
      <3>2. CASE ~(Live(u, expired) /\ u # v)
        <4>. HIDE DEF next
        <4>. QED  BY <1>4, <2>3, <3>2
      <3>. QED  BY <3>1, <3>2
    <2>4. CASE best # v
      <3>1. u = v
        BY <1>2, <1>9, <2>4 DEF LoopInv
      <3>2. CASE best = Absent
        <4>. HIDE DEF next
        <4>. QED  BY <1>5, <2>1, <3>1, <3>2
      <3>3. CASE best # Absent
        <4>1. PICK k \in 1..(i - 1) : Live(seq[k], expired) /\ best = seq[k]
          BY <3>3 DEF LoopInv
        <4>2. Dominates(v.name.clock, best.name.clock)
          BY <1>1, <1>9, <2>4, <4>1 DEF Dominant
        <4>. QED  BY <2>1, <3>1, <4>2 DEF Pick
      <3>. QED  BY <3>2, <3>3
    <2>. QED  BY <2>3, <2>4
  <1>. HIDE DEF next
  <1>10. LoopInv(next, i, v, seq, expired)
    BY <1>7, <1>8, <1>9 DEF LoopInv
  <1>. QED  BY <1>10 DEF next

\* resolve_conflicts returns nothing or a live answer, nothing only if no answer
\* is live, and the dominant answer if there is one.
LEMMA ResolveOutcome ==
    ASSUME NEW seq \in Seq(Answers), NEW expired, NEW v \in Answers
    PROVE  /\ Resolve(seq, expired) \in Answers
           /\ LoopInv(Resolve(seq, expired), Len(seq), v, seq, expired)
  <1>1. PICK rounds \in [0..Len(seq) -> Answers] :
           PickRounds(rounds, seq, expired) /\ Resolve(seq, expired) = rounds[Len(seq)]
    BY ResolveIsRounds
  <1>. DEFINE P == {i \in Nat : i <= Len(seq) => LoopInv(rounds[i], i, v, seq, expired)}
  <1>2. 0 \in P
    BY <1>1 DEF PickRounds, LoopInv
  <1>3. ASSUME NEW i \in P PROVE i + 1 \in P
    <2>. SUFFICES ASSUME i + 1 <= Len(seq)
                  PROVE  LoopInv(rounds[i + 1], i + 1, v, seq, expired)
      OBVIOUS
    <2>1. /\ i + 1 \in 1..Len(seq) /\ (i + 1) - 1 = i /\ i <= Len(seq)
          /\ i \in 0..Len(seq)
      OBVIOUS
    <2>2. rounds[i] \in Answers /\ LoopInv(rounds[i], i, v, seq, expired)
      BY <2>1
    <2>3. rounds[i + 1] = Pick(rounds[i], seq[i + 1], expired)
      BY <1>1, <2>1 DEF PickRounds
    <2>. QED  BY <2>1, <2>2, <2>3, LoopStep
  <1>4. Len(seq) \in P
    <2>1. P \in SUBSET Nat
      OBVIOUS
    <2>. HIDE DEF P
    <2>2. P = Nat
      BY <1>2, <1>3, <2>1, NaturalSetInduction
    <2>. QED  BY <2>2
  <1>. QED  BY <1>1, <1>4

-----------------------------------------------------------------------------
(***************************************************************************)
(* Type correctness.                                                       *)
(***************************************************************************)
\* The nodes a preference list names.
LEMMA RangeOfNodes ==
    ASSUME NEW seq \in Seq(Nodes)
    PROVE  Range(seq) \in SUBSET Nodes
  BY DEF Range

LEMMA ListType ==
    ASSUME TypeOK, NEW n \in Nodes
    PROVE  Preference[ring[n]] \in Seq(Nodes)
  <1>1. ring[n] \in SUBSET Nodes
    BY DEF TypeOK
  <1>. QED  BY <1>1, ReplicationAssumption

LEMMA TypeInit == Init => TypeOK
  <1>1. (CHOOSE n \in Nodes : TRUE) \in Nodes
    BY ReplicationAssumption
  <1>. SUFFICES ASSUME Init PROVE TypeOK
    OBVIOUS
  <1>2. coord \in [Ops -> Nodes]
    BY <1>1 DEF Init
  <1>3. ring \in [Nodes -> SUBSET Nodes]
    BY ReplicationAssumption DEF Init, Members!Init
  <1>4. << >> \in Seq(Nodes)
    OBVIOUS
  <1>. QED  BY <1>2, <1>3, <1>4 DEF Init, TypeOK

\* The common part of the three ways a request begins.
LEMMA BeginType ==
    ASSUME TypeOK, NEW o \in Ops, NEW c \in Nodes, NEW k \in {"put", "delete", "get"},
           Begin(o, k, c)
    PROVE  /\ kind' = [kind EXCEPT ![o] = k] /\ coord' = [coord EXCEPT ![o] = c]
           /\ kind' \in [Ops -> {"none", "put", "delete", "get"}]
           /\ coord' \in [Ops -> Nodes] /\ required' \in [Ops -> Nat]
           /\ list' \in [Ops -> Seq(Nodes)]
           /\ \A q \in Ops : q # o => required'[q] = required[q] /\ list'[q] = list[q]
           /\ before' = [before EXCEPT ![o] = Acknowledged]
           /\ before' \in [Ops -> SUBSET Ops]
           /\ phase[o] = "new" /\ phase' = [phase EXCEPT ![o] = "begun"]
           /\ UNCHANGED <<replica, flying, looked, applied, acks, fails, answers,
                          result, second, ring, revisions>>
  <1>1. PICK w \in Overrides :
           required' = [required EXCEPT ![o] =
              Effective(w, IF k = "get" THEN ReadQuorum ELSE WriteQuorum)]
    BY DEF Begin
  <1>2. Effective(w, IF k = "get" THEN ReadQuorum ELSE WriteQuorum) \in Nat
    BY ReplicationAssumption DEF Effective
  <1>3. Acknowledged \in SUBSET Ops
    BY DEF Acknowledged
  <1>4. required' \in [Ops -> Nat] /\ \A q \in Ops : q # o => required'[q] = required[q]
    BY <1>1, <1>2 DEF TypeOK
  <1>5. /\ list' \in [Ops -> Seq(Nodes)]
        /\ \A q \in Ops : q # o => list'[q] = list[q]
    <2>1. list' = [list EXCEPT ![o] = Preference[ring[c]]]
      BY DEF Begin
    <2>. QED  BY <2>1, ListType DEF TypeOK
  <1>6. before' = [before EXCEPT ![o] = Acknowledged] /\ before' \in [Ops -> SUBSET Ops]
    BY <1>3 DEF Begin, TypeOK
  <1>7. /\ kind' = [kind EXCEPT ![o] = k] /\ coord' = [coord EXCEPT ![o] = c]
        /\ kind' \in [Ops -> {"none", "put", "delete", "get"}]
        /\ coord' \in [Ops -> Nodes]
    BY DEF Begin, TypeOK
  <1>8. /\ phase[o] = "new" /\ phase' = [phase EXCEPT ![o] = "begun"]
        /\ UNCHANGED <<replica, flying, looked, applied, acks, fails, answers,
                       result, second, ring, revisions>>
    BY DEF Begin, ringVars
  <1>. QED  BY <1>4, <1>5, <1>6, <1>7, <1>8

\* A request notes one more replica.
LEMMA OneMore ==
    ASSUME NEW f \in [Ops -> SUBSET Nodes], NEW o \in Ops, NEW n \in Nodes
    PROVE  [f EXCEPT ![o] = @ \cup {n}] \in [Ops -> SUBSET Nodes]
  <1>1. f[o] \cup {n} \in SUBSET Nodes
    OBVIOUS
  <1>. QED  BY <1>1

\* What get collects are answers.
LEMMA ResponsesType ==
    ASSUME TypeOK, NEW o \in Ops
    PROVE  Responses(o) \in Seq(Answers)
  <1>. DEFINE c == coord[o]
              own == IF Mine(o) THEN <<answers[o][c]>> ELSE << >>
              peers == [i \in DOMAIN list[o] |->
                           IF list[o][i] = c THEN Absent ELSE answers[o][list[o][i]]]
  <1>1. c \in Nodes /\ list[o] \in Seq(Nodes) /\ Absent \in Answers
    BY DEF TypeOK, Answers
  <1>2. \A n \in Nodes : answers[o][n] \in Answers
    BY DEF TypeOK, Answers
  <1>3. own \in Seq(Answers)
    BY <1>1, <1>2
  <1>4. peers \in Seq(Answers)
    <2>1. DOMAIN list[o] = 1..Len(list[o]) /\ Len(list[o]) \in Nat
      BY <1>1
    <2>2. \A i \in DOMAIN list[o] : list[o][i] \in Nodes
      BY <1>1
    <2>3. \A i \in DOMAIN list[o] :
             (IF list[o][i] = c THEN Absent ELSE answers[o][list[o][i]]) \in Answers
      BY <1>1, <1>2, <2>2
    <2>. QED  BY <2>1, <2>3
  <1>5. Responses(o) = own \o peers
    BY DEF Responses
  <1>. HIDE DEF own, peers
  <1>. QED  BY <1>3, <1>4, <1>5

LEMMA TypeNext == TypeOK /\ [Next]_vars => TypeOK'
  <1>. SUFFICES ASSUME TypeOK, [Next]_vars PROVE TypeOK'
    OBVIOUS
  <1>. USE DEF settled, opVars, ringVars
  <1>0. ASSUME NEW o \in Ops, NEW c \in Nodes, NEW k \in {"put", "delete", "get"},
               Begin(o, k, c), version' \in [Ops -> Version \cup {Absent}]
        PROVE  TypeOK'
    <2>1. phase' = [phase EXCEPT ![o] = "begun"]
      BY <1>0 DEF Begin
    <2>2. phase' \in [Ops -> {"new", "begun", "local", "waiting", "done"}]
      BY <2>1 DEF TypeOK
    <2>. QED  BY <1>0, <2>2, BeginType DEF TypeOK
  <1>1. ASSUME NEW o \in Ops, NEW c \in Nodes, BeginPut(o, c) PROVE TypeOK'
    <2>1. PICK t \in Timestamps, ttl \in Ttls :
             version' = [version EXCEPT ![o] = PutVersion(o, c, replica[c], t, ttl)]
      BY <1>1 DEF BeginPut
    <2>2. PutVersion(o, c, replica[c], t, ttl) \in Version
      BY VersionTypes DEF TypeOK
    <2>3. version' \in [Ops -> Version \cup {Absent}]
      BY <2>1, <2>2 DEF TypeOK
    <2>. QED  BY <1>0, <1>1, <2>3 DEF BeginPut
  <1>2. ASSUME NEW o \in Ops, NEW c \in Nodes, BeginDelete(o, c) \/ BeginGet(o, c)
        PROVE  TypeOK'
    BY <1>0, <1>2 DEF BeginDelete, BeginGet, TypeOK
  <1>3. ASSUME NEW o \in Ops, LocalRead(o) PROVE TypeOK'
    <2>. DEFINE c == coord[o]
    <2>1. answers' \in [Ops -> [Nodes -> Version \cup {Absent}]] /\ acks' \in [Ops -> SUBSET Nodes]
      <3>1. c \in Nodes /\ replica[c] \in Version \cup {Absent}
        BY DEF TypeOK
      <3>2. CASE Mine(o)
        <4>1. /\ acks' = [acks EXCEPT ![o] = @ \cup {c}]
              /\ answers' = [answers EXCEPT ![o] = [@ EXCEPT ![c] = replica[c]]]
          BY <1>3, <3>2 DEF LocalRead
        <4>2. [answers[o] EXCEPT ![c] = replica[c]] \in [Nodes -> Version \cup {Absent}]
          BY <3>1 DEF TypeOK
        <4>3. acks' \in [Ops -> SUBSET Nodes]
          BY <3>1, <4>1, OneMore DEF TypeOK
        <4>. QED  BY <4>1, <4>2, <4>3 DEF TypeOK
      <3>3. CASE ~Mine(o)
        BY <1>3, <3>3 DEF LocalRead, TypeOK
      <3>. QED  BY <3>2, <3>3
    <2>. QED  BY <1>3, <2>1 DEF LocalRead, TypeOK
  <1>4. ASSUME NEW o \in Ops, LocalWrite(o) PROVE TypeOK'
    <2>1. coord[o] \in Nodes /\ Peers(o) \in SUBSET Nodes
      BY RangeOfNodes DEF TypeOK, Peers
    <2>2. /\ replica' \in [Nodes -> Version \cup {Absent}]
          /\ applied' \in [Ops -> SUBSET Nodes]
          /\ acks' \in [Ops -> SUBSET Nodes] /\ fails' \in [Ops -> SUBSET Nodes]
      <3>1. CASE Write(o, coord[o]) /\ acks' = [acks EXCEPT ![o] = @ \cup {coord[o]}]
                                    /\ UNCHANGED fails
        <4>1. acks \in [Ops -> SUBSET Nodes] /\ applied \in [Ops -> SUBSET Nodes]
              /\ fails \in [Ops -> SUBSET Nodes]
          BY DEF TypeOK
        <4>2. /\ replica' \in [Nodes -> Version \cup {Absent}]
              /\ applied' = [applied EXCEPT ![o] = @ \cup {coord[o]}]
          BY <2>1, <3>1, WriteEffect
        <4>. QED  BY <2>1, <3>1, <4>1, <4>2, OneMore
      <3>2. CASE UNCHANGED <<replica, applied, acks>>
                 /\ (fails' = [fails EXCEPT ![o] = @ \cup {coord[o]}] \/ UNCHANGED fails)
        <4>1. /\ replica \in [Nodes -> Version \cup {Absent}]
              /\ acks \in [Ops -> SUBSET Nodes] /\ applied \in [Ops -> SUBSET Nodes]
              /\ fails \in [Ops -> SUBSET Nodes]
          BY DEF TypeOK
        <4>. QED  BY <2>1, <3>2, <4>1, OneMore
      <3>. QED  BY <1>4, <3>1, <3>2 DEF LocalWrite
    <2>. QED  BY <1>4, <2>1, <2>2 DEF LocalWrite, TypeOK
  <1>5. ASSUME NEW o \in Ops, NEW n \in Nodes, Serve(o, n) PROVE TypeOK'
    <2>1. /\ replica' \in [Nodes -> Version \cup {Absent}]
          /\ applied' \in [Ops -> SUBSET Nodes]
      <3>1. applied \in [Ops -> SUBSET Nodes] /\ Write(o, n)
        BY <1>5 DEF Serve, TypeOK
      <3>. QED  BY <3>1, WriteEffect, OneMore
    <2>. QED  BY <1>5, <2>1 DEF Serve, TypeOK
  <1>6. ASSUME NEW o \in Ops, NEW n \in Nodes, Ack(o, n) \/ Fail(o, n) PROVE TypeOK'
    <2>1. /\ acks' \in [Ops -> SUBSET Nodes] /\ fails' \in [Ops -> SUBSET Nodes]
      <3>1. CASE Ack(o, n)
        BY <3>1 DEF Ack, TypeOK
      <3>2. CASE Fail(o, n)
        BY <3>2 DEF Fail, TypeOK
      <3>. QED  BY <1>6, <3>1, <3>2
    <2>2. UNCHANGED <<replica, phase, version, flying, looked, applied, answers,
                      result, settled>>
      BY <1>6 DEF Ack, Fail
    <2>. QED  BY <2>1, <2>2 DEF TypeOK
  <1>7. ASSUME NEW o \in Ops, NEW n \in Nodes, Answer(o, n) PROVE TypeOK'
    <2>1. OverTheWire(replica[n]) \in Version \cup {Absent}
      BY WireType DEF TypeOK
    <2>2. answers' \in [Ops -> [Nodes -> Version \cup {Absent}]]
      BY <1>7, <2>1 DEF Answer, TypeOK
    <2>. QED  BY <1>7, <2>2 DEF Answer, TypeOK
  <1>8. ASSUME NEW o \in Ops, Finish(o) PROVE TypeOK'
    <2>1. result' \in [Ops -> Answers]
      <3>1. CASE kind[o] = "get"
        <4>1. PICK expired : result' = [result EXCEPT ![o] = Resolve(Responses(o), expired)]
          BY <1>8, <3>1 DEF Finish, Return
        <4>2. Resolve(Responses(o), expired) \in Answers
          BY ResponsesType, ResolveOutcome DEF Answers
        <4>. QED  BY <4>1, <4>2 DEF TypeOK, Answers
      <3>2. CASE kind[o] # "get"
        BY <1>8, <3>2 DEF Finish, Return, TypeOK, Answers
      <3>. QED  BY <3>1, <3>2
    <2>2. phase' \in [Ops -> {"new", "begun", "local", "waiting", "done"}]
      BY <1>8 DEF Finish, Return, TypeOK
    <2>. QED  BY <1>8, <2>1, <2>2 DEF Finish, Return, TypeOK, Answers
  <1>9. ASSUME NEW n \in Nodes, Reap(n) PROVE TypeOK'
    BY <1>9 DEF Reap, TypeOK
  <1>10. ASSUME NEW o \in Ops, NEW n \in Nodes, LookUp(o, n) PROVE TypeOK'
    <2>1. replica[n] \in Version \cup {Absent} /\ looked \in [Ops -> SUBSET Nodes]
      BY DEF TypeOK
    <2>2. answers' \in [Ops -> [Nodes -> Version \cup {Absent}]]
      BY <1>10, <2>1 DEF LookUp, TypeOK
    <2>3. looked' \in [Ops -> SUBSET Nodes]
      BY <1>10, <2>1, OneMore DEF LookUp
    <2>. QED  BY <1>10, <2>2, <2>3 DEF LookUp, TypeOK
  <1>11. ASSUME NEW o \in Ops, CheckRing(o) PROVE TypeOK'
    <2>1. second' \in [Ops -> Seq(Nodes)]
      <3>1. coord[o] \in Nodes
        BY DEF TypeOK
      <3>2. Preference[ring[coord[o]]] \in Seq(Nodes)
        BY <3>1, ListType
      <3>. QED  BY <1>11, <3>2 DEF CheckRing, TypeOK
    <2>. QED  BY <1>11, <2>1 DEF CheckRing, TypeOK
  <1>12. ASSUME NEW n \in Nodes, ReviseRing(n) PROVE TypeOK'
    <2>1. ring' \in [Nodes -> SUBSET Nodes]
      BY <1>12 DEF ReviseRing, Members!Revise, TypeOK
    <2>. QED  BY <1>12, <2>1 DEF ReviseRing, TypeOK
  <1>13. CASE UNCHANGED vars
    BY <1>13 DEF vars, TypeOK
  <1>. QED  BY <1>1, <1>2, <1>3, <1>4, <1>5, <1>6, <1>7, <1>8, <1>9, <1>10, <1>11,
               <1>12, <1>13, ReplicationAssumption
            DEF Next

\* Every variable keeps its type, the results of gets included: what
\* resolve_conflicts returns is nothing or a version.
THEOREM TypeCorrect == Spec => []TypeOK
  BY TypeInit, TypeNext, PTL DEF Spec

-----------------------------------------------------------------------------
(***************************************************************************)
(* Quorums.                                                                *)
(***************************************************************************)

\* What the outcomes a request has so far amount to: none before both looks at
\* the ring are over, afterwards nodes that one of them took for replicas, and
\* for a write nodes that have executed it.
Outcomes(ph, k, asked, ack, app) ==
    /\ ph \in {"new", "begun", "local"} => ack = {}
    /\ ack \subseteq asked
    /\ k \in {"put", "delete"} => ack \subseteq app

\* And an acknowledgement is final.
QuorumInv ==
    /\ \A o \in Ops : Outcomes(phase[o], kind[o], Asked(o), acks[o], applied[o])
    /\ \A o \in Ops : before[o] \subseteq Acknowledged

\* Nothing about a request that is done, except who executes it, ever changes.
LEMMA DoneIsFinal ==
    ASSUME TypeOK, [Next]_vars, NEW q \in Ops, phase[q] = "done"
    PROVE  /\ phase'[q] = "done" /\ kind'[q] = kind[q] /\ required'[q] = required[q]
           /\ acks'[q] = acks[q] /\ fails'[q] = fails[q]
  <1>. USE DEF settled, opVars
  <1>1. ASSUME NEW o \in Ops, NEW c \in Nodes, NEW k \in {"put", "delete", "get"},
               Begin(o, k, c)
        PROVE  /\ phase'[q] = "done" /\ kind'[q] = kind[q] /\ required'[q] = required[q]
               /\ acks'[q] = acks[q] /\ fails'[q] = fails[q]
    <2>1. o # q
      BY <1>1 DEF Begin
    <2>2. kind'[q] = kind[q] /\ required'[q] = required[q]
      BY <1>1, <2>1, BeginType DEF TypeOK
    <2>3. phase'[q] = phase[q] /\ acks'[q] = acks[q] /\ fails'[q] = fails[q]
      BY <1>1, <2>1, BeginType DEF TypeOK
    <2>. QED  BY <2>2, <2>3
  <1>2. ASSUME NEW o \in Ops, CheckRing(o) \/ LocalWrite(o) \/ LocalRead(o) \/ Finish(o)
        PROVE  /\ phase'[q] = "done" /\ acks'[q] = acks[q] /\ fails'[q] = fails[q]
               /\ UNCHANGED opVars
    <2>1. o # q
      BY <1>2 DEF CheckRing, LocalWrite, LocalRead, Finish
    <2>2. CASE LocalWrite(o)
      BY <2>1, <2>2 DEF LocalWrite, TypeOK
    <2>3. CASE LocalRead(o)
      BY <2>1, <2>3 DEF LocalRead, TypeOK
    <2>4. CASE CheckRing(o) \/ Finish(o)
      BY <2>1, <2>4 DEF CheckRing, Finish, Return, TypeOK
    <2>. QED  BY <1>2, <2>2, <2>3, <2>4
  <1>3. ASSUME NEW o \in Ops, NEW n \in Nodes, Ack(o, n) \/ Fail(o, n) \/ Answer(o, n)
        PROVE  /\ phase'[q] = "done" /\ acks'[q] = acks[q] /\ fails'[q] = fails[q]
               /\ UNCHANGED opVars
    <2>1. o # q
      BY <1>3 DEF Ack, Fail, Answer
    <2>. QED  BY <1>3, <2>1 DEF Ack, Fail, Answer, TypeOK
  <1>4. ASSUME \/ \E o \in Ops, n \in Nodes : LookUp(o, n) \/ Serve(o, n)
               \/ \E n \in Nodes : Reap(n) \/ ReviseRing(n)
               \/ UNCHANGED vars
        PROVE  UNCHANGED <<phase, acks, fails, opVars>>
    BY <1>4 DEF LookUp, Serve, Reap, ReviseRing, vars
  <1>5. Coordinators \subseteq Nodes
    BY ReplicationAssumption
  <1>. QED  BY <1>1, <1>2, <1>3, <1>4, <1>5 DEF Next, BeginPut, BeginDelete, BeginGet

LEMMA AcknowledgedForGood ==
    ASSUME TypeOK, [Next]_vars
    PROVE  Acknowledged \subseteq Acknowledged'
  <1>. SUFFICES ASSUME NEW q \in Acknowledged PROVE q \in Acknowledged'
    OBVIOUS
  <1>1. q \in Ops /\ phase[q] = "done"
    BY DEF Acknowledged, Succeeded
  <1>2. /\ phase'[q] = "done" /\ kind'[q] = kind[q] /\ required'[q] = required[q]
        /\ acks'[q] = acks[q] /\ fails'[q] = fails[q]
    BY <1>1, DoneIsFinal
  <1>3. Successes(q)' = Successes(q)
    BY <1>2 DEF Successes
  <1>. QED  BY <1>1, <1>2, <1>3 DEF Acknowledged, Succeeded

LEMMA QuorumInit == Init => QuorumInv
  BY DEF Init, QuorumInv, Outcomes

LEMMA OutcomesNext ==
    ASSUME TypeOK, QuorumInv, [Next]_vars, NEW q \in Ops
    PROVE  Outcomes(phase'[q], kind'[q], Asked(q)', acks'[q], applied'[q])
  <1>. USE DEF settled, opVars
  <1>. DEFINE Goal == Outcomes(phase'[q], kind'[q], Asked(q)', acks'[q], applied'[q])
  <1>1. Outcomes(phase[q], kind[q], Asked(q), acks[q], applied[q])
    BY DEF QuorumInv
  <1>2. ASSUME NEW o \in Ops, NEW c \in Nodes, NEW k \in {"put", "delete", "get"},
               Begin(o, k, c)
        PROVE  Goal
    <2>1. CASE o # q
      <3>1. /\ kind'[q] = kind[q] /\ phase'[q] = phase[q] /\ list'[q] = list[q]
            /\ second'[q] = second[q] /\ acks'[q] = acks[q] /\ applied'[q] = applied[q]
        BY <1>2, <2>1, BeginType DEF TypeOK
      <3>. QED  BY <1>1, <3>1 DEF Asked
    <2>2. CASE o = q
      <3>1. phase[q] = "new" /\ acks' = acks
        BY <1>2, <2>2, BeginType
      <3>2. acks'[q] = {}
        BY <1>1, <3>1 DEF Outcomes
      <3>. QED  BY <3>2 DEF Outcomes
    <2>. QED  BY <2>1, <2>2
  <1>3. ASSUME NEW o \in Ops, CheckRing(o) PROVE Goal
    <2>1. CASE o # q
      <3>1. /\ kind'[q] = kind[q] /\ phase'[q] = phase[q] /\ list'[q] = list[q]
            /\ second'[q] = second[q] /\ acks'[q] = acks[q] /\ applied'[q] = applied[q]
        BY <1>3, <2>1 DEF CheckRing, TypeOK
      <3>. QED  BY <1>1, <3>1 DEF Asked
    <2>2. CASE o = q
      <3>1. acks'[q] = {}
        BY <1>1, <1>3, <2>2 DEF CheckRing, Outcomes
      <3>. QED  BY <3>1 DEF Outcomes
    <2>. QED  BY <2>1, <2>2
  <1>4. ASSUME UNCHANGED <<list, second>> PROVE Asked(q)' = Asked(q)
    BY <1>4 DEF Asked
  <1>5. ASSUME NEW o \in Ops, Mine(o) PROVE coord[o] \in Asked(o)
    BY <1>5 DEF Mine, Asked
  <1>6. ASSUME NEW o \in Ops, LocalWrite(o) PROVE Goal
    <2>1. /\ UNCHANGED <<kind, list, second>>
          /\ phase' = [phase EXCEPT ![o] = "waiting"]
      BY <1>6 DEF LocalWrite
    <2>2. CASE UNCHANGED <<acks, applied>>
      BY <1>1, <1>4, <2>1, <2>2 DEF Outcomes, TypeOK
    <2>3. CASE /\ Mine(o) /\ Write(o, coord[o])
               /\ acks' = [acks EXCEPT ![o] = @ \cup {coord[o]}]
      <3>1. applied' = [applied EXCEPT ![o] = @ \cup {coord[o]}]
        BY <2>3 DEF Write
      <3>2. coord[o] \in Asked(o)
        BY <1>5, <2>3
      <3>. QED  BY <1>1, <1>4, <2>1, <2>3, <3>1, <3>2 DEF Outcomes, TypeOK
    <2>. QED  BY <1>6, <2>2, <2>3 DEF LocalWrite
  <1>7. ASSUME NEW o \in Ops, LocalRead(o) PROVE Goal
    <2>1. /\ UNCHANGED <<kind, list, second, applied>> /\ kind[o] = "get"
          /\ phase' = [phase EXCEPT ![o] = "waiting"]
      BY <1>7 DEF LocalRead
    <2>2. CASE UNCHANGED acks
      BY <1>1, <1>4, <2>1, <2>2 DEF Outcomes, TypeOK
    <2>3. CASE Mine(o) /\ acks' = [acks EXCEPT ![o] = @ \cup {coord[o]}]
      <3>1. coord[o] \in Asked(o)
        BY <1>5, <2>3
      <3>2. CASE o = q
        BY <1>1, <1>4, <2>1, <2>3, <3>1, <3>2 DEF Outcomes, TypeOK
      <3>3. CASE o # q
        BY <1>1, <1>4, <2>1, <2>3, <3>3 DEF Outcomes, TypeOK
      <3>. QED  BY <3>2, <3>3
    <2>. QED  BY <1>7, <2>2, <2>3 DEF LocalRead
  <1>8. ASSUME NEW o \in Ops, NEW n \in Nodes, Serve(o, n) PROVE Goal
    <2>1. /\ UNCHANGED <<phase, kind, list, second, acks>>
          /\ applied' = [applied EXCEPT ![o] = @ \cup {n}]
      BY <1>8 DEF Serve, Write
    <2>2. applied[q] \subseteq applied'[q]
      BY <2>1 DEF TypeOK
    <2>. QED  BY <1>1, <1>4, <2>1, <2>2 DEF Outcomes
  <1>9. ASSUME NEW o \in Ops, NEW n \in Nodes, Ack(o, n) PROVE Goal
    <2>1. /\ UNCHANGED <<phase, kind, list, second, applied>>
          /\ acks' = [acks EXCEPT ![o] = @ \cup {n}]
          /\ phase[o] = "waiting" /\ n \in Asked(o) /\ n \in applied[o]
      BY <1>9 DEF Ack, Pending, Peers, Asked
    <2>2. CASE o = q
      BY <1>1, <1>4, <2>1, <2>2 DEF Outcomes, TypeOK
    <2>3. CASE o # q
      BY <1>1, <1>4, <2>1, <2>3 DEF TypeOK
    <2>. QED  BY <2>2, <2>3
  <1>10. ASSUME NEW o \in Ops, NEW n \in Nodes, Answer(o, n) PROVE Goal
    <2>1. /\ UNCHANGED <<phase, kind, list, second, applied>>
          /\ acks' = [acks EXCEPT ![o] = @ \cup {n}]
          /\ phase[o] = "waiting" /\ kind[o] = "get" /\ n \in Asked(o)
      BY <1>10 DEF Answer, Pending, Peers, Asked
    <2>2. CASE o = q
      BY <1>1, <1>4, <2>1, <2>2 DEF Outcomes, TypeOK
    <2>3. CASE o # q
      BY <1>1, <1>4, <2>1, <2>3 DEF TypeOK
    <2>. QED  BY <2>2, <2>3
  <1>11. ASSUME NEW o \in Ops, Finish(o) PROVE Goal
    <2>1. /\ UNCHANGED <<kind, list, second, applied, acks>>
          /\ phase' = [phase EXCEPT ![o] = "done"] /\ phase[o] = "waiting"
      BY <1>11 DEF Finish, Return
    <2>. QED  BY <1>1, <1>4, <2>1 DEF Outcomes, TypeOK
  <1>12. ASSUME \/ \E o \in Ops, n \in Nodes : LookUp(o, n) \/ Fail(o, n)
                \/ \E n \in Nodes : Reap(n) \/ ReviseRing(n)
                \/ UNCHANGED vars
         PROVE  Goal
    <2>1. UNCHANGED <<phase, kind, list, second, acks, applied>>
      BY <1>12 DEF LookUp, Fail, Reap, ReviseRing, vars
    <2>. QED  BY <1>1, <1>4, <2>1
  <1>13. Coordinators \subseteq Nodes
    BY ReplicationAssumption
  <1>. QED  BY <1>2, <1>3, <1>6, <1>7, <1>8, <1>9, <1>10, <1>11, <1>12, <1>13
            DEF Next, BeginPut, BeginDelete, BeginGet

\* What a request remembers as acknowledged before it began stays so.
LEMMA BeforeNext ==
    ASSUME TypeOK, QuorumInv, [Next]_vars, NEW q \in Ops
    PROVE  before'[q] \subseteq Acknowledged'
  <1>1. Acknowledged \subseteq Acknowledged'
    BY AcknowledgedForGood
  <1>2. before'[q] = before[q] \/ before'[q] = Acknowledged
    <2>1. ASSUME NEW o \in Ops, NEW c \in Nodes, NEW k \in {"put", "delete", "get"},
                 Begin(o, k, c)
          PROVE  before'[q] = before[q] \/ before'[q] = Acknowledged
      BY <2>1, BeginType DEF TypeOK
    <2>2. ASSUME \/ \E o \in Ops : CheckRing(o) \/ LocalWrite(o) \/ LocalRead(o) \/ Finish(o)
                 \/ \E o \in Ops, n \in Nodes :
                       \/ LookUp(o, n) \/ Serve(o, n)
                       \/ Ack(o, n) \/ Fail(o, n) \/ Answer(o, n)
                 \/ \E n \in Nodes : Reap(n) \/ ReviseRing(n)
                 \/ UNCHANGED vars
          PROVE  before' = before
      BY <2>2 DEF CheckRing, LocalWrite, LocalRead, Finish, Return, LookUp, Serve, Ack,
                  Fail, Answer, Reap, ReviseRing, vars, settled, opVars
    <2>3. Coordinators \subseteq Nodes
      BY ReplicationAssumption
    <2>. QED  BY <2>1, <2>2, <2>3 DEF Next, BeginPut, BeginDelete, BeginGet
  <1>3. before[q] \subseteq Acknowledged
    BY DEF QuorumInv
  <1>. QED  BY <1>1, <1>2, <1>3

LEMMA QuorumNext == TypeOK /\ QuorumInv /\ [Next]_vars => QuorumInv'
  <1>. SUFFICES ASSUME TypeOK, QuorumInv, [Next]_vars PROVE QuorumInv'
    OBVIOUS
  <1>1. \A q \in Ops : Outcomes(phase'[q], kind'[q], Asked(q)', acks'[q], applied'[q])
    BY OutcomesNext
  <1>2. \A q \in Ops : before'[q] \subseteq Acknowledged'
    BY BeforeNext
  <1>. QED  BY <1>1, <1>2 DEF QuorumInv

LEMMA QuorumInvariant == Spec => [](TypeOK /\ QuorumInv)
  <1>1. Init => TypeOK /\ QuorumInv
    BY TypeInit, QuorumInit
  <1>2. TypeOK /\ QuorumInv /\ [Next]_vars => TypeOK' /\ QuorumInv'
    BY TypeNext, QuorumNext
  <1>. QED  BY <1>1, <1>2, PTL DEF Spec

-----------------------------------------------------------------------------
\* The successes of an acknowledged write are its quorum.
LEMMA EnoughExecuted ==
    ASSUME TypeOK, QuorumInv, NEW w \in Acknowledged
    PROVE  /\ w \in Ops /\ required[w] \in Nat
           /\ acks[w] \subseteq applied[w] /\ acks[w] \subseteq Asked(w)
           /\ Cardinality(acks[w]) >= required[w]
           /\ Cardinality(applied[w]) >= required[w]
  <1>1. w \in Ops /\ kind[w] \in {"put", "delete"} /\ Cardinality(acks[w]) >= required[w]
    BY DEF Acknowledged, Succeeded, Successes
  <1>2. acks[w] \subseteq applied[w] /\ acks[w] \subseteq Asked(w)
    BY <1>1 DEF QuorumInv, Outcomes
  <1>3. IsFiniteSet(applied[w])
    <2>1. applied[w] \in SUBSET Nodes
      BY <1>1 DEF TypeOK
    <2>. QED  BY <2>1, ReplicationAssumption, FS_Subset
  <1>4. IsFiniteSet(acks[w]) /\ Cardinality(acks[w]) <= Cardinality(applied[w])
    BY <1>2, <1>3, FS_Subset
  <1>5. /\ Cardinality(acks[w]) \in Nat /\ Cardinality(applied[w]) \in Nat
        /\ required[w] \in Nat
    BY <1>1, <1>3, <1>4, FS_CardinalityType DEF TypeOK
  <1>. QED  BY <1>1, <1>2, <1>4, <1>5

\* Whatever is lost, late or failed, however many coordinators there are, and
\* whatever becomes of the rings: an acknowledged write has been executed by as
\* many nodes as it needed.
THEOREM AcknowledgedReachQuorum == Spec => []AcknowledgedWritesReachQuorum
  <1>1. TypeOK /\ QuorumInv => AcknowledgedWritesReachQuorum
    BY EnoughExecuted DEF AcknowledgedWritesReachQuorum
  <1>. QED  BY <1>1, QuorumInvariant, PTL

LEMMA QuorumsMeet ==
    ASSUME NEW U, IsFiniteSet(U), NEW A \in SUBSET U, NEW B \in SUBSET U,
           NEW i \in Nat, NEW j \in Nat,
           Cardinality(A) >= i, Cardinality(B) >= j, i + j > Cardinality(U)
    PROVE  A \cap B # {}
  <1>1. IsFiniteSet(A) /\ IsFiniteSet(B)
    BY FS_Subset
  <1>2. /\ Cardinality(A \cup B) <= Cardinality(U)
        /\ IsFiniteSet(A \cup B) /\ IsFiniteSet(A \cap B)
    BY <1>1, FS_Subset
  <1>3. Cardinality(A \cup B) = Cardinality(A) + Cardinality(B) - Cardinality(A \cap B)
    BY <1>1, FS_Union
  <1>4. /\ Cardinality(A) \in Nat /\ Cardinality(B) \in Nat /\ Cardinality(U) \in Nat
        /\ Cardinality(A \cup B) \in Nat /\ Cardinality(A \cap B) \in Nat
    BY <1>1, <1>2, FS_CardinalityType
  <1>5. Cardinality(A \cap B) # 0
    BY <1>2, <1>3, <1>4
  <1>. QED  BY <1>5, FS_EmptySet

LEMMA AskedIsFinite ==
    ASSUME TypeOK, NEW o \in Ops, NEW q \in Ops
    PROVE  IsFiniteSet(Asked(o) \cup Asked(q))
  <1>1. Asked(o) \cup Asked(q) \in SUBSET Nodes
    BY RangeOfNodes DEF TypeOK, Asked
  <1>. QED  BY <1>1, ReplicationAssumption, FS_Subset

\* R + W > N: a read that heard from its quorum has heard from a node that
\* executed each write acknowledged before the read began.
THEOREM ReadsAlwaysMeetWrites == Spec => []ReadsMeetWrites
  <1>1. TypeOK /\ QuorumInv => ReadsMeetWrites
    <2>. SUFFICES ASSUME TypeOK, QuorumInv, NEW g \in Ops, NEW w \in before[g],
                         Cardinality(acks[g]) >= required[g],
                         required[g] + required[w] > Cardinality(Asked(g) \cup Asked(w))
                  PROVE  acks[g] \cap applied[w] # {}
      BY DEF ReadsMeetWrites
    <2>1. w \in Acknowledged
      BY DEF QuorumInv
    <2>2. /\ w \in Ops /\ required[w] \in Nat
          /\ acks[w] \subseteq applied[w] /\ acks[w] \subseteq Asked(w)
          /\ Cardinality(acks[w]) >= required[w]
      BY <2>1, EnoughExecuted
    <2>3. acks[g] \subseteq Asked(g) /\ required[g] \in Nat
      BY DEF QuorumInv, Outcomes, TypeOK
    <2>4. IsFiniteSet(Asked(g) \cup Asked(w))
      BY <2>2, AskedIsFinite
    <2>5. acks[g] \cap acks[w] # {}
      BY <2>2, <2>3, <2>4, QuorumsMeet
    <2>. QED  BY <2>2, <2>5
  <1>. QED  BY <1>1, QuorumInvariant, PTL

-----------------------------------------------------------------------------
(***************************************************************************)
(* Clocks and descent.                                                     *)
(***************************************************************************)
CoversPast(v) == v # Absent => \A d \in v.past : Covers(v.name.clock, d.clock)

\* ClocksCoverThePast, variable by variable.
ClockInv ==
    /\ \A n \in Nodes : CoversPast(replica[n])
    /\ \A o \in Ops : CoversPast(version[o])
    /\ \A o \in Ops, n \in Nodes : CoversPast(answers[o][n])

\* The clock of an entry covers those of its whole lineage.
LEMMA LineageCovered ==
    ASSUME NEW v \in Version \cup {Absent}, CoversPast(v)
    PROVE  \A d \in Lineage(v) : d.clock \in Clocks /\ Covers(ClockOf(v), d.clock)
  <1>1. CASE v = Absent
    BY <1>1 DEF Lineage
  <1>2. CASE v # Absent
    <2>1. /\ v.past \in SUBSET Name /\ v.name \in Name
          /\ Lineage(v) = v.past \cup {v.name} /\ ClockOf(v) = v.name.clock
      BY <1>2 DEF Lineage, ClockOf, Version
    <2>2. \A d \in Name : d.clock \in Clocks
      BY DEF Name
    <2>3. Covers(v.name.clock, v.name.clock)
      BY <2>1, <2>2, CoversReflexive
    <2>. QED  BY <1>2, <2>1, <2>2, <2>3 DEF CoversPast
  <1>. QED  BY <1>1, <1>2

\* A version made with a clock that covers the entry's covers its past.
LEMMA MadeCovers ==
    ASSUME NEW v \in Version \cup {Absent}, CoversPast(v),
           NEW c \in Clocks, Covers(c, ClockOf(v))
    PROVE  \A d \in Lineage(v) : Covers(c, d.clock)
  <1>. SUFFICES ASSUME NEW d \in Lineage(v) PROVE Covers(c, d.clock)
    OBVIOUS
  <1>1. ClockOf(v) \in Clocks
    BY LineageType
  <1>2. d.clock \in Clocks /\ Covers(ClockOf(v), d.clock)
    BY LineageCovered
  <1>. QED  BY <1>1, <1>2, CoversTransitive

LEMMA PutCovers ==
    ASSUME NEW o \in Ops, NEW n \in Nodes, NEW old \in Version \cup {Absent},
           CoversPast(old), NEW t, NEW ttl
    PROVE  CoversPast(PutVersion(o, n, old, t, ttl))
  <1>. DEFINE c == Merge(Increment(EmptyClock, n), ClockOf(old))
  <1>1. c \in Clocks /\ Covers(c, ClockOf(old))
    BY ClockOperations, LineageType
  <1>2. \A d \in Lineage(old) : Covers(c, d.clock)
    BY <1>1, MadeCovers
  <1>. QED  BY <1>2 DEF CoversPast, PutVersion

LEMMA TombstoneCovers ==
    ASSUME NEW o \in Ops, NEW n \in Nodes, NEW old \in Version \cup {Absent},
           CoversPast(old), NEW t
    PROVE  CoversPast(TombstoneVersion(o, n, old, t))
  <1>. DEFINE c == Increment(ClockOf(old), n)
  <1>1. c \in Clocks /\ Covers(c, ClockOf(old))
    BY ClockOperations, LineageType
  <1>2. \A d \in Lineage(old) : Covers(c, d.clock)
    BY <1>1, MadeCovers
  <1>. QED  BY <1>2 DEF CoversPast, TombstoneVersion

LEMMA WireCovers ==
    ASSUME NEW v \in Version \cup {Absent}, CoversPast(v)
    PROVE  CoversPast(OverTheWire(v))
  BY ReplicationAssumption DEF CoversPast, OverTheWire, Version

LEMMA ClockInit == Init => ClockInv
  BY DEF Init, ClockInv, CoversPast

LEMMA ClockNext == TypeOK /\ ClockInv /\ [Next]_vars => ClockInv'
  <1>. SUFFICES ASSUME TypeOK, ClockInv, [Next]_vars PROVE ClockInv'
    OBVIOUS
  <1>1. ASSUME NEW o \in Ops, NEW c \in Nodes, BeginPut(o, c) PROVE ClockInv'
    <2>1. PICK t \in Timestamps, ttl \in Ttls :
             version' = [version EXCEPT ![o] = PutVersion(o, c, replica[c], t, ttl)]
      BY <1>1 DEF BeginPut
    <2>2. CoversPast(PutVersion(o, c, replica[c], t, ttl))
      BY PutCovers DEF TypeOK, ClockInv
    <2>3. \A q \in Ops : CoversPast(version'[q])
      BY <2>1, <2>2 DEF TypeOK, ClockInv
    <2>4. UNCHANGED <<replica, answers>>
      BY <1>1 DEF BeginPut, Begin
    <2>. QED  BY <2>3, <2>4 DEF ClockInv
  <1>2. ASSUME NEW o \in Ops, NEW n \in Nodes, Write(o, n), UNCHANGED <<version, answers>>
        PROVE  ClockInv'
    <2>1. \A t \in Timestamps : CoversPast(TombstoneVersion(o, n, answers[o][n], t))
      BY TombstoneCovers DEF TypeOK, ClockInv
    <2>2. \A m \in Nodes : CoversPast(replica'[m])
      BY <1>2, <2>1, WriteEffect DEF ClockInv
    <2>. QED  BY <1>2, <2>2 DEF ClockInv
  <1>3. ASSUME NEW o \in Ops, NEW n \in Nodes, NEW v,
               CoversPast(v), answers' = [answers EXCEPT ![o] = [@ EXCEPT ![n] = v]],
               UNCHANGED <<replica, version>>
        PROVE  ClockInv'
    <2>1. ASSUME NEW q \in Ops, NEW m \in Nodes PROVE CoversPast(answers'[q][m])
      <3>1. answers'[q][m] = answers[q][m] \/ answers'[q][m] = v
        BY <1>3 DEF TypeOK
      <3>. QED  BY <1>3, <3>1 DEF ClockInv
    <2>. QED  BY <1>3, <2>1 DEF ClockInv
  <1>4. ASSUME NEW n \in Nodes, Reap(n) PROVE ClockInv'
    <2>1. \A m \in Nodes : CoversPast(replica'[m])
      BY <1>4 DEF Reap, TypeOK, ClockInv, CoversPast
    <2>. QED  BY <1>4, <2>1 DEF Reap, ClockInv
  <1>5. ASSUME UNCHANGED <<replica, version, answers>> PROVE ClockInv'
    BY <1>5 DEF ClockInv
  <1>6. ASSUME NEW o \in Ops, LocalWrite(o) PROVE ClockInv'
    <2>1. coord[o] \in Nodes
      BY DEF TypeOK
    <2>. QED  BY <1>2, <1>5, <1>6, <2>1 DEF LocalWrite
  <1>7. ASSUME NEW o \in Ops, NEW n \in Nodes, Serve(o, n) PROVE ClockInv'
    BY <1>2, <1>7 DEF Serve
  <1>8. ASSUME NEW o \in Ops, LocalRead(o) PROVE ClockInv'
    <2>1. coord[o] \in Nodes
      BY DEF TypeOK
    <2>2. CoversPast(replica[coord[o]])
      BY <2>1 DEF ClockInv
    <2>. QED  BY <1>3, <1>5, <1>8, <2>1, <2>2 DEF LocalRead
  <1>9. ASSUME NEW o \in Ops, NEW n \in Nodes, Answer(o, n) PROVE ClockInv'
    <2>1. CoversPast(OverTheWire(replica[n]))
      BY WireCovers DEF TypeOK, ClockInv
    <2>. QED  BY <1>3, <1>9, <2>1 DEF Answer
  <1>10. ASSUME \/ \E o \in Ops, c \in Nodes : BeginDelete(o, c) \/ BeginGet(o, c)
                \/ \E o \in Ops, n \in Nodes : Ack(o, n) \/ Fail(o, n)
                \/ \E o \in Ops : CheckRing(o) \/ Finish(o)
                \/ \E n \in Nodes : ReviseRing(n)
                \/ UNCHANGED vars
         PROVE  ClockInv'
    <2>1. UNCHANGED <<replica, version, answers>>
      BY <1>10 DEF BeginDelete, BeginGet, Begin, Ack, Fail, CheckRing, Finish, Return,
                   ReviseRing, vars
    <2>. QED  BY <1>5, <2>1
  <1>11. ASSUME NEW o \in Ops, NEW n \in Nodes, LookUp(o, n) PROVE ClockInv'
    <2>1. CoversPast(replica[n])
      BY DEF ClockInv
    <2>. QED  BY <1>3, <1>11, <2>1 DEF LookUp
  <1>12. Coordinators \subseteq Nodes
    BY ReplicationAssumption
  <1>. QED  BY <1>1, <1>4, <1>6, <1>7, <1>8, <1>9, <1>10, <1>11, <1>12 DEF Next

\* Whatever overwrites whatever, on however many nodes: the clock of a version
\* is never behind that of a version it descends from.
THEOREM ClocksAlwaysCover == Spec => []ClocksCoverThePast
  <1>1. Init => TypeOK /\ ClockInv
    BY TypeInit, ClockInit
  <1>2. TypeOK /\ ClockInv /\ [Next]_vars => TypeOK' /\ ClockInv'
    BY TypeNext, ClockNext
  <1>3. ClockInv => ClocksCoverThePast
    BY DEF ClockInv, ClocksCoverThePast, Held, CoversPast
  <1>. QED  BY <1>1, <1>2, <1>3, PTL DEF Spec

-----------------------------------------------------------------------------
(***************************************************************************)
(* What a get returns.                                                     *)
(***************************************************************************)

\* The replicas whose answers get collects: its peers and perhaps itself.
Collected(o) == Peers(o) \cup {n \in {coord[o]} : Mine(o)}

MayExpire(o) == {v \in Range(Responses(o)) : v # Absent /\ v.ttl}

\* Whoever answered is collected, and the result of a get that is done is what
\* resolve_conflicts made of the answers.
ReadInv ==
    \A o \in Ops :
        /\ acks[o] \subseteq Collected(o)
        /\ kind[o] = "get" /\ phase[o] = "done" =>
              \E expired \in SUBSET MayExpire(o) :
                  result[o] = Resolve(Responses(o), expired)

LEMMA ReadInit == Init => ReadInv
  BY DEF Init, ReadInv

\* Nothing about a get that is done ever changes.
LEMMA ReadIsFinal ==
    ASSUME TypeOK, [Next]_vars, NEW q \in Ops, phase[q] = "done", kind[q] = "get"
    PROVE  /\ answers'[q] = answers[q] /\ coord'[q] = coord[q] /\ list'[q] = list[q]
           /\ second'[q] = second[q] /\ result'[q] = result[q]
  <1>. USE DEF settled, opVars
  <1>. DEFINE Goal == /\ answers'[q] = answers[q] /\ coord'[q] = coord[q]
                      /\ list'[q] = list[q] /\ second'[q] = second[q]
                      /\ result'[q] = result[q]
  <1>1. ASSUME NEW o \in Ops, NEW c \in Nodes, NEW k \in {"put", "delete", "get"},
               Begin(o, k, c)
        PROVE  Goal
    <2>1. o # q
      BY <1>1 DEF Begin
    <2>. QED  BY <1>1, <2>1, BeginType DEF TypeOK
  <1>2. ASSUME NEW o \in Ops, CheckRing(o) \/ LocalRead(o) \/ Finish(o) PROVE Goal
    <2>1. o # q
      BY <1>2 DEF CheckRing, LocalRead, Finish
    <2>2. CASE CheckRing(o)
      BY <2>1, <2>2 DEF CheckRing, TypeOK
    <2>3. CASE LocalRead(o)
      BY <2>1, <2>3 DEF LocalRead, TypeOK
    <2>4. CASE Finish(o)
      BY <2>1, <2>4 DEF Finish, Return, TypeOK
    <2>. QED  BY <1>2, <2>2, <2>3, <2>4
  <1>3. ASSUME NEW o \in Ops, NEW n \in Nodes, LookUp(o, n) \/ Answer(o, n) PROVE Goal
    <2>1. o # q
      BY <1>3 DEF LookUp, Answer
    <2>. QED  BY <1>3, <2>1 DEF LookUp, Answer, TypeOK
  <1>4. ASSUME \/ \E o \in Ops : LocalWrite(o)
               \/ \E o \in Ops, n \in Nodes : Serve(o, n) \/ Ack(o, n) \/ Fail(o, n)
               \/ \E n \in Nodes : Reap(n) \/ ReviseRing(n)
               \/ UNCHANGED vars
        PROVE  Goal
    BY <1>4 DEF LocalWrite, Serve, Ack, Fail, Reap, ReviseRing, vars
  <1>5. Coordinators \subseteq Nodes
    BY ReplicationAssumption
  <1>. QED  BY <1>1, <1>2, <1>3, <1>4, <1>5 DEF Next, BeginPut, BeginDelete, BeginGet

\* A get that is done stays as it is; one that finishes has just resolved.
LEMMA ResultNext ==
    ASSUME TypeOK, ReadInv, [Next]_vars, NEW q \in Ops, kind'[q] = "get", phase'[q] = "done"
    PROVE  \E expired \in SUBSET MayExpire(q)' :
               result'[q] = Resolve(Responses(q)', expired)
  <1>. USE DEF settled, opVars
  <1>1. CASE phase[q] = "done"
    <2>1. kind[q] = "get"
      BY <1>1, DoneIsFinal
    <2>2. /\ answers'[q] = answers[q] /\ coord'[q] = coord[q] /\ list'[q] = list[q]
          /\ second'[q] = second[q] /\ result'[q] = result[q]
      BY <1>1, <2>1, ReadIsFinal
    <2>3. Responses(q)' = Responses(q) /\ MayExpire(q)' = MayExpire(q)
      BY <2>2 DEF Responses, Mine, MayExpire
    <2>4. PICK expired \in SUBSET MayExpire(q) : result[q] = Resolve(Responses(q), expired)
      BY <1>1, <2>1 DEF ReadInv
    <2>. QED  BY <2>2, <2>3, <2>4
  <1>2. CASE phase[q] # "done"
    <2>1. Finish(q)
      <3>1. ASSUME NEW o \in Ops, NEW c \in Nodes, NEW k \in {"put", "delete", "get"},
                   Begin(o, k, c)
            PROVE  FALSE
        BY <1>2, <3>1 DEF Begin, TypeOK
      <3>2. ASSUME NEW o \in Ops, CheckRing(o) \/ LocalWrite(o) \/ LocalRead(o) PROVE FALSE
        BY <1>2, <3>2 DEF CheckRing, LocalWrite, LocalRead, TypeOK
      <3>3. ASSUME \/ \E o \in Ops, n \in Nodes :
                         \/ LookUp(o, n) \/ Serve(o, n)
                         \/ Ack(o, n) \/ Fail(o, n) \/ Answer(o, n)
                   \/ \E n \in Nodes : Reap(n) \/ ReviseRing(n)
                   \/ UNCHANGED vars
            PROVE  FALSE
        BY <1>2, <3>3 DEF LookUp, Serve, Ack, Fail, Answer, Reap, ReviseRing, vars
      <3>4. ASSUME NEW o \in Ops, Finish(o) PROVE o = q
        BY <1>2, <3>4 DEF Finish, Return, TypeOK
      <3>5. Coordinators \subseteq Nodes
        BY ReplicationAssumption
      <3>. QED  BY <3>1, <3>2, <3>3, <3>4, <3>5 DEF Next, BeginPut, BeginDelete, BeginGet
    <2>2. UNCHANGED <<answers, settled>> /\ kind[q] = "get"
      BY <2>1 DEF Finish, Return
    <2>3. PICK expired \in SUBSET MayExpire(q) :
             result' = [result EXCEPT ![q] = Resolve(Responses(q), expired)]
      BY <2>1, <2>2 DEF Finish, Return, MayExpire
    <2>4. Responses(q)' = Responses(q) /\ MayExpire(q)' = MayExpire(q)
      BY <2>2 DEF Responses, Mine, MayExpire
    <2>5. result'[q] = Resolve(Responses(q), expired)
      BY <2>3 DEF TypeOK
    <2>. QED  BY <2>4, <2>5
  <1>. QED  BY <1>1, <1>2

LEMMA CollectedNext ==
    ASSUME TypeOK, QuorumInv, ReadInv, [Next]_vars, NEW q \in Ops
    PROVE  acks'[q] \subseteq Collected(q)'
  <1>. USE DEF settled, opVars
  <1>. DEFINE Goal == acks'[q] \subseteq Collected(q)'
  <1>1. acks[q] \subseteq Collected(q)
    BY DEF ReadInv
  <1>2. phase[q] \in {"new", "begun", "local"} => acks[q] = {}
    BY DEF QuorumInv, Outcomes
  <1>3. ASSUME acks'[q] = acks[q], coord'[q] = coord[q], list'[q] = list[q],
               second'[q] = second[q]
        PROVE  Goal
    BY <1>1, <1>3 DEF Collected, Peers, Mine
  <1>4. ASSUME NEW o \in Ops, NEW c \in Nodes, NEW k \in {"put", "delete", "get"},
               Begin(o, k, c)
        PROVE  Goal
    <2>1. CASE o = q
      BY <1>2, <1>4, <2>1, BeginType
    <2>2. CASE o # q
      BY <1>3, <1>4, <2>2, BeginType DEF TypeOK
    <2>. QED  BY <2>1, <2>2
  <1>5. ASSUME NEW o \in Ops, CheckRing(o) PROVE Goal
    <2>1. CASE o = q
      BY <1>2, <1>5, <2>1 DEF CheckRing
    <2>2. CASE o # q
      BY <1>3, <1>5, <2>2 DEF CheckRing, TypeOK
    <2>. QED  BY <2>1, <2>2
  <1>6. ASSUME UNCHANGED <<coord, list, second>>, NEW o \in Ops, NEW n \in Collected(o),
               acks' = [acks EXCEPT ![o] = @ \cup {n}]
        PROVE  Goal
    <2>1. Collected(q)' = Collected(q)
      BY <1>6 DEF Collected, Peers, Mine
    <2>2. CASE o = q
      BY <1>1, <1>6, <2>1, <2>2 DEF TypeOK
    <2>3. CASE o # q
      BY <1>1, <1>6, <2>1, <2>3 DEF TypeOK
    <2>. QED  BY <2>2, <2>3
  <1>7. ASSUME NEW o \in Ops, Mine(o) PROVE coord[o] \in Collected(o)
    BY <1>7 DEF Collected
  <1>8. ASSUME NEW o \in Ops, LocalWrite(o) \/ LocalRead(o) PROVE Goal
    <2>1. UNCHANGED <<coord, list, second>>
      BY <1>8 DEF LocalWrite, LocalRead
    <2>2. CASE UNCHANGED acks
      BY <1>3, <2>1, <2>2
    <2>3. CASE Mine(o) /\ acks' = [acks EXCEPT ![o] = @ \cup {coord[o]}]
      BY <1>6, <1>7, <2>1, <2>3
    <2>. QED  BY <1>8, <2>2, <2>3 DEF LocalWrite, LocalRead
  <1>9. ASSUME NEW o \in Ops, NEW n \in Nodes, Ack(o, n) \/ Answer(o, n) PROVE Goal
    <2>1. n \in Collected(o)
      BY <1>9 DEF Ack, Answer, Pending, Collected
    <2>2. UNCHANGED <<coord, list, second>> /\ acks' = [acks EXCEPT ![o] = @ \cup {n}]
      BY <1>9 DEF Ack, Answer
    <2>. QED  BY <1>6, <2>1, <2>2
  <1>10. ASSUME \/ \E o \in Ops : Finish(o)
                \/ \E o \in Ops, n \in Nodes : LookUp(o, n) \/ Serve(o, n) \/ Fail(o, n)
                \/ \E n \in Nodes : Reap(n) \/ ReviseRing(n)
                \/ UNCHANGED vars
         PROVE  Goal
    <2>1. UNCHANGED <<acks, coord, list, second>>
      BY <1>10 DEF Finish, Return, LookUp, Serve, Fail, Reap, ReviseRing, vars
    <2>. QED  BY <1>3, <2>1
  <1>11. Coordinators \subseteq Nodes
    BY ReplicationAssumption
  <1>. QED  BY <1>4, <1>5, <1>8, <1>9, <1>10, <1>11
            DEF Next, BeginPut, BeginDelete, BeginGet

LEMMA ReadNext == TypeOK /\ QuorumInv /\ ReadInv /\ [Next]_vars => ReadInv'
  <1>. SUFFICES ASSUME TypeOK, QuorumInv, ReadInv, [Next]_vars PROVE ReadInv'
    OBVIOUS
  <1>. QED  BY CollectedNext, ResultNext DEF ReadInv

\* Every answer that is collected is among the responses, and there are no others.
LEMMA ResponsesAreAnswers ==
    ASSUME TypeOK, NEW o \in Ops
    PROVE  /\ \A n \in Collected(o) :
                 \E i \in 1..Len(Responses(o)) : Responses(o)[i] = answers[o][n]
           /\ \A i \in 1..Len(Responses(o)) :
                 Responses(o)[i] = Absent \/ \E n \in Nodes : Responses(o)[i] = answers[o][n]
  <1>. DEFINE c == coord[o]
              own == IF Mine(o) THEN <<answers[o][c]>> ELSE << >>
              peers == [i \in DOMAIN list[o] |->
                           IF list[o][i] = c THEN Absent ELSE answers[o][list[o][i]]]
              rs == own \o peers
  <1>1. /\ c \in Nodes /\ DOMAIN list[o] = 1..Len(list[o]) /\ Len(list[o]) \in Nat
        /\ \A i \in DOMAIN list[o] : list[o][i] \in Nodes
    <2>1. c \in Nodes /\ list[o] \in Seq(Nodes)
      BY DEF TypeOK
    <2>. QED  BY <2>1
  <1>2. Responses(o) = rs
    BY DEF Responses
  <1>3. peers \in Seq({Absent} \cup {answers[o][n] : n \in Nodes})
    <2>1. \A i \in 1..Len(list[o]) : peers[i] \in {Absent} \cup {answers[o][n] : n \in Nodes}
      BY <1>1
    <2>. QED  BY <1>1, <2>1
  <1>4. own \in Seq({Absent} \cup {answers[o][n] : n \in Nodes})
    <2>. DEFINE a == answers[o][c]
                E == {Absent} \cup {answers[o][n] : n \in Nodes}
    <2>1. a \in E
      BY <1>1
    <2>. HIDE DEF a, E
    <2>2. <<a>> \in Seq(E) /\ << >> \in Seq(E)
      BY <2>1
    <2>3. own \in Seq(E)
      BY <2>2 DEF a
    <2>. QED  BY <2>3 DEF E
  <1>5. Len(peers) = Len(list[o])
    BY <1>1
  <1>6. ASSUME NEW i \in 1..Len(list[o]), list[o][i] # c
        PROVE  \E j \in 1..Len(rs) : rs[j] = answers[o][list[o][i]]
    <2>1. peers[i] = answers[o][list[o][i]]
      BY <1>1, <1>6
    <2>. HIDE DEF own, peers
    <2>2. Len(own) \in Nat /\ Len(own) + i \in 1..Len(rs) /\ rs[Len(own) + i] = peers[i]
      BY <1>3, <1>4, <1>5
    <2>. QED  BY <2>1, <2>2
  <1>7. ASSUME Mine(o) PROVE \E j \in 1..Len(rs) : rs[j] = answers[o][c]
    <2>1. own = <<answers[o][c]>>
      BY <1>7
    <2>. HIDE DEF own, peers
    <2>2. 1 \in 1..Len(rs) /\ rs[1] = answers[o][c]
      BY <1>3, <1>5, <1>1, <2>1
    <2>. QED  BY <2>2
  <1>8. ASSUME NEW n \in Peers(o) PROVE \E i \in 1..Len(list[o]) : list[o][i] = n /\ n # c
    BY <1>1 DEF Peers, Range
  <1>9. ASSUME NEW i \in 1..Len(rs)
        PROVE  rs[i] \in {Absent} \cup {answers[o][n] : n \in Nodes}
    <2>. HIDE DEF own, peers
    <2>. QED  BY <1>3, <1>4
  <1>. HIDE DEF rs
  <1>. QED  BY <1>2, <1>6, <1>7, <1>8, <1>9 DEF Collected

\* What is among the responses of a get that is done.
LEMMA ReadOutcome ==
    ASSUME TypeOK, ReadInv, NEW g \in Ops, kind[g] = "get", phase[g] = "done",
           NEW n \in acks[g], Live(answers[g][n], {}), ~answers[g][n].ttl
    PROVE  /\ result[g] # Absent
           /\ (\A m \in Nodes :
                  Live(answers[g][m], {}) /\ answers[g][m] # answers[g][n] =>
                     Dominates(answers[g][n].name.clock, answers[g][m].name.clock))
              => result[g] = answers[g][n]
  <1>. DEFINE rs == Responses(g)
              v == answers[g][n]
  <1>1. PICK expired \in SUBSET MayExpire(g) : result[g] = Resolve(rs, expired)
    BY DEF ReadInv
  <1>2. n \in Collected(g) /\ n \in Nodes
    BY DEF ReadInv, TypeOK
  <1>3. PICK i \in 1..Len(rs) : rs[i] = v
    BY <1>2, ResponsesAreAnswers
  <1>4. rs \in Seq(Answers) /\ v \in Answers
    BY <1>2, ResponsesType DEF TypeOK, Answers
  <1>5. Live(v, expired)
    <2>1. v \notin expired
      BY DEF MayExpire
    <2>. QED  BY <2>1 DEF Live
  <1>6. LoopInv(result[g], Len(rs), v, rs, expired)
    BY <1>1, <1>4, ResolveOutcome
  <1>7. result[g] # Absent
    BY <1>3, <1>5, <1>6 DEF LoopInv
  <1>8. ASSUME \A m \in Nodes :
                  Live(answers[g][m], {}) /\ answers[g][m] # v =>
                     Dominates(v.name.clock, answers[g][m].name.clock)
        PROVE  result[g] = v
    <2>1. ASSUME NEW j \in 1..Len(rs), Live(rs[j], expired), rs[j] # v
          PROVE  Dominates(v.name.clock, rs[j].name.clock)
      <3>1. PICK m \in Nodes : rs[j] = answers[g][m]
        BY <2>1, ResponsesAreAnswers DEF Live
      <3>2. Live(answers[g][m], {})
        BY <2>1, <3>1 DEF Live
      <3>. QED  BY <1>8, <2>1, <3>1, <3>2
    <2>2. Dominant(v, rs, expired)
      BY <1>5, <2>1 DEF Dominant
    <2>. QED  BY <1>3, <1>6, <2>2 DEF LoopInv
  <1>. QED  BY <1>7, <1>8

LEMMA ReadInvariant == Spec => [](TypeOK /\ QuorumInv /\ ReadInv)
  <1>1. Init => TypeOK /\ QuorumInv /\ ReadInv
    BY TypeInit, QuorumInit, ReadInit
  <1>2. TypeOK /\ QuorumInv /\ ReadInv /\ [Next]_vars => TypeOK' /\ QuorumInv' /\ ReadInv'
    BY TypeNext, QuorumNext, ReadNext
  <1>. QED  BY <1>1, <1>2, PTL DEF Spec

\* resolve_conflicts keeps the promise of the comment at coordinator.rs:198 where
\* there is a dominant clock: in whatever order the answers come, the answer that
\* dominates all others is what get returns.
THEOREM DominantAlwaysWins == Spec => []DominantAnswerWins
  <1>1. TypeOK /\ ReadInv => DominantAnswerWins
    BY ReadOutcome DEF DominantAnswerWins
  <1>. QED  BY <1>1, ReadInvariant, PTL

-----------------------------------------------------------------------------
(***************************************************************************)
(* Reads find what was written, as long as nothing takes it away.          *)
(***************************************************************************)

\* A request that has not begun has no traces, only deletes look clocks up, and
\* what a put replicates is a value.
StartInv ==
    \A o \in Ops :
        /\ phase[o] = "new" => kind[o] = "none" /\ version[o] = Absent /\ looked[o] = {}
        /\ looked[o] # {} => kind[o] = "delete"
        /\ kind[o] = "put" => version[o] \in Version /\ ~version[o].deleted

LEMMA StartInit == Init => StartInv
  BY DEF Init, StartInv

LEMMA StartNext == TypeOK /\ StartInv /\ [Next]_vars => StartInv'
  <1>. SUFFICES ASSUME TypeOK, StartInv, [Next]_vars PROVE StartInv'
    OBVIOUS
  <1>. USE DEF settled, opVars
  <1>1. ASSUME NEW o \in Ops, NEW c \in Nodes, NEW k \in {"put", "delete", "get"},
               Begin(o, k, c),
               \A q \in Ops : q # o => version'[q] = version[q],
               k = "put" => version'[o] \in Version /\ ~version'[o].deleted
        PROVE  StartInv'
    <2>1. /\ kind' = [kind EXCEPT ![o] = k] /\ phase' = [phase EXCEPT ![o] = "begun"]
          /\ UNCHANGED looked /\ phase[o] = "new"
      BY <1>1, BeginType
    <2>2. looked[o] = {}
      BY <2>1 DEF StartInv
    <2>. QED  BY <1>1, <2>1, <2>2 DEF StartInv, TypeOK
  <1>2. ASSUME NEW o \in Ops, NEW c \in Nodes, BeginPut(o, c) PROVE StartInv'
    <2>1. PICK t \in Timestamps, ttl \in Ttls :
             version' = [version EXCEPT ![o] = PutVersion(o, c, replica[c], t, ttl)]
      BY <1>2 DEF BeginPut
    <2>2. /\ PutVersion(o, c, replica[c], t, ttl) \in Version
          /\ ~PutVersion(o, c, replica[c], t, ttl).deleted
      BY VersionTypes DEF TypeOK, PutVersion
    <2>3. version'[o] = PutVersion(o, c, replica[c], t, ttl)
      BY <2>1 DEF TypeOK
    <2>4. \A q \in Ops : q # o => version'[q] = version[q]
      BY <2>1 DEF TypeOK
    <2>. QED  BY <1>1, <1>2, <2>2, <2>3, <2>4 DEF BeginPut
  <1>3. ASSUME NEW o \in Ops, NEW c \in Nodes, BeginDelete(o, c) \/ BeginGet(o, c)
        PROVE  StartInv'
    BY <1>1, <1>3 DEF BeginDelete, BeginGet
  <1>4. ASSUME NEW o \in Ops, CheckRing(o) \/ LocalWrite(o) \/ LocalRead(o) \/ Finish(o)
        PROVE  StartInv'
    <2>1. /\ UNCHANGED <<kind, version, looked>>
          /\ \A q \in Ops : phase'[q] = "new" => phase[q] = "new"
      BY <1>4 DEF CheckRing, LocalWrite, LocalRead, Finish, Return, TypeOK
    <2>. QED  BY <2>1 DEF StartInv
  <1>5. ASSUME NEW o \in Ops, NEW n \in Nodes, LookUp(o, n) PROVE StartInv'
    <2>1. /\ kind[o] = "delete" /\ looked' = [looked EXCEPT ![o] = @ \cup {n}]
          /\ UNCHANGED <<phase, kind, version>>
      BY <1>5 DEF LookUp
    <2>2. phase[o] # "new"
      BY <2>1 DEF StartInv
    <2>. QED  BY <2>1, <2>2 DEF StartInv, TypeOK
  <1>6. ASSUME \/ \E o \in Ops, n \in Nodes :
                     Serve(o, n) \/ Ack(o, n) \/ Fail(o, n) \/ Answer(o, n)
               \/ \E n \in Nodes : Reap(n) \/ ReviseRing(n)
               \/ UNCHANGED vars
        PROVE  StartInv'
    <2>1. UNCHANGED <<phase, kind, version, looked>>
      BY <1>6 DEF Serve, Ack, Fail, Answer, Reap, ReviseRing, vars
    <2>. QED  BY <2>1 DEF StartInv
  <1>. QED  BY <1>2, <1>3, <1>4, <1>5, <1>6, ReplicationAssumption DEF Next

\* What was never taken away was not taken away a step earlier.
LEMMA NothingTakenBefore ==
    ASSUME TypeOK, StartInv, [Next]_vars, NothingTaken'
    PROVE  NothingTaken
  <1>. USE DEF settled, opVars
  <1>. SUFFICES ASSUME NEW q \in Ops
                PROVE  kind[q] # "delete" /\ (version[q] # Absent => ~version[q].ttl)
    BY DEF NothingTaken
  <1>1. kind'[q] # "delete" /\ (version'[q] # Absent => ~version'[q].ttl)
    BY DEF NothingTaken
  <1>2. ASSUME NEW o \in Ops, NEW c \in Nodes, NEW k \in {"put", "delete", "get"},
               Begin(o, k, c), \A p \in Ops : p # o => version'[p] = version[p]
        PROVE  \/ kind'[q] = kind[q] /\ version'[q] = version[q]
               \/ phase[q] = "new"
    BY <1>2, BeginType DEF TypeOK
  <1>3. ASSUME NEW o \in Ops, NEW c \in Nodes, BeginPut(o, c)
        PROVE  \A p \in Ops : p # o => version'[p] = version[p]
    BY <1>3 DEF BeginPut, TypeOK
  <1>4. ASSUME \/ \E o \in Ops : CheckRing(o) \/ LocalWrite(o) \/ LocalRead(o) \/ Finish(o)
               \/ \E o \in Ops, n \in Nodes :
                     \/ LookUp(o, n) \/ Serve(o, n)
                     \/ Ack(o, n) \/ Fail(o, n) \/ Answer(o, n)
               \/ \E n \in Nodes : Reap(n) \/ ReviseRing(n)
               \/ UNCHANGED vars
        PROVE  UNCHANGED <<kind, version>>
    BY <1>4 DEF CheckRing, LocalWrite, LocalRead, Finish, Return, LookUp, Serve, Ack,
                Fail, Answer, Reap, ReviseRing, vars
  <1>5. \/ kind'[q] = kind[q] /\ version'[q] = version[q]
        \/ phase[q] = "new"
    BY <1>2, <1>3, <1>4, ReplicationAssumption DEF Next, BeginPut, BeginDelete, BeginGet
  <1>6. phase[q] = "new" => kind[q] = "none" /\ version[q] = Absent
    BY DEF StartInv
  <1>. QED  BY <1>1, <1>5, <1>6

\* A value that no reaper takes and no read passes over.
Plain(v) == v # Absent => ~v.ttl /\ ~v.deleted

\* While nothing is taken away: a node that executed a write holds a value, and
\* has answered with one to a get that began after the write was acknowledged.
FoundInv ==
    NothingTaken =>
        /\ \A n \in Nodes : Plain(replica[n])
        /\ \A o \in Ops, n \in Nodes : Plain(answers[o][n])
        /\ \A w \in Ops : \A n \in applied[w] : replica[n] # Absent
        /\ \A g \in Ops : kind[g] = "get" =>
              \A w \in before[g] : \A n \in acks[g] \cap acks[w] : answers[g][n] # Absent

LEMMA FoundInit == Init => FoundInv
  BY DEF Init, FoundInv, Plain

\* While nothing is taken away, only values are written.
LEMMA PlainWrite ==
    ASSUME TypeOK, StartInv, NothingTaken, NEW o \in Ops, NEW n \in Nodes, Write(o, n)
    PROVE  /\ replica' = [replica EXCEPT ![n] = version[o]]
           /\ applied' = [applied EXCEPT ![o] = @ \cup {n}]
           /\ version[o] # Absent /\ Plain(version[o])
  <1>1. kind[o] = "put"
    BY DEF Write, StartInv, NothingTaken
  <1>2. version[o] \in Version /\ ~version[o].deleted
    BY <1>1 DEF StartInv
  <1>3. version[o] # Absent
    BY <1>2, ReplicationAssumption
  <1>. QED  BY <1>1, <1>2, <1>3 DEF Write, Plain, NothingTaken

\* The replicas.
LEMMA HeldNext ==
    ASSUME TypeOK, StartInv, FoundInv, [Next]_vars, NothingTaken
    PROVE  /\ \A n \in Nodes : Plain(replica'[n])
           /\ \A w \in Ops : \A n \in applied'[w] : replica'[n] # Absent
  <1>. USE DEF settled, opVars
  <1>. DEFINE Goal == /\ \A n \in Nodes : Plain(replica'[n])
                      /\ \A w \in Ops : \A n \in applied'[w] : replica'[n] # Absent
  <1>1. /\ \A n \in Nodes : Plain(replica[n])
        /\ \A w \in Ops : \A n \in applied[w] : replica[n] # Absent
    BY DEF FoundInv
  <1>2. ASSUME UNCHANGED <<replica, applied>> PROVE Goal
    BY <1>1, <1>2
  <1>3. ASSUME NEW o \in Ops, NEW n \in Nodes, Write(o, n) PROVE Goal
    <2>1. /\ replica' = [replica EXCEPT ![n] = version[o]]
          /\ applied' = [applied EXCEPT ![o] = @ \cup {n}]
          /\ version[o] # Absent /\ Plain(version[o])
      BY <1>3, PlainWrite
    <2>2. ASSUME NEW m \in Nodes PROVE Plain(replica'[m])
      BY <1>1, <2>1 DEF TypeOK
    <2>3. ASSUME NEW w \in Ops, NEW m \in applied'[w] PROVE replica'[m] # Absent
      <3>1. m \in Nodes /\ (m = n \/ m \in applied[w])
        BY <2>1, <2>3 DEF TypeOK
      <3>2. CASE m = n
        BY <2>1, <3>2 DEF TypeOK
      <3>3. CASE m # n
        <4>1. replica'[m] = replica[m]
          BY <2>1, <3>1, <3>3 DEF TypeOK
        <4>. QED  BY <1>1, <3>1, <3>3, <4>1
      <3>. QED  BY <3>2, <3>3
    <2>. QED  BY <2>2, <2>3
  <1>4. ASSUME NEW o \in Ops, LocalWrite(o) PROVE Goal
    <2>1. coord[o] \in Nodes
      BY DEF TypeOK
    <2>. QED  BY <1>2, <1>3, <1>4, <2>1 DEF LocalWrite
  <1>5. ASSUME NEW o \in Ops, NEW n \in Nodes, Serve(o, n) PROVE Goal
    BY <1>3, <1>5 DEF Serve
  <1>6. ASSUME NEW n \in Nodes, Reap(n) PROVE FALSE
    BY <1>1, <1>6 DEF Reap, Plain
  <1>7. ASSUME \/ \E o \in Ops, c \in Nodes, k \in {"put", "delete", "get"} : Begin(o, k, c)
               \/ \E o \in Ops : CheckRing(o) \/ LocalRead(o) \/ Finish(o)
               \/ \E o \in Ops, n \in Nodes :
                     LookUp(o, n) \/ Ack(o, n) \/ Fail(o, n) \/ Answer(o, n)
               \/ \E n \in Nodes : ReviseRing(n)
               \/ UNCHANGED vars
        PROVE  UNCHANGED <<replica, applied>>
    BY <1>7 DEF Begin, CheckRing, LocalRead, Finish, Return, LookUp, Ack, Fail, Answer,
                ReviseRing, vars
  <1>. HIDE DEF Goal
  <1>8. Goal
    BY <1>2, <1>4, <1>5, <1>6, <1>7, ReplicationAssumption
       DEF Next, BeginPut, BeginDelete, BeginGet
  <1>. QED  BY <1>8 DEF Goal

\* An answer is what the replica holds when it answers.
LEMMA AnswerStep ==
    ASSUME TypeOK, [Next]_vars, NEW g \in Ops, NEW n \in Nodes
    PROVE  \/ /\ answers'[g][n] = answers[g][n]
              /\ kind[g] = "get" /\ n \in acks'[g] => n \in acks[g]
           \/ answers'[g][n] \in {replica[n], OverTheWire(replica[n])}
  <1>. USE DEF settled, opVars
  <1>. DEFINE Same == /\ answers'[g][n] = answers[g][n]
                      /\ kind[g] = "get" /\ n \in acks'[g] => n \in acks[g]
              Goal == \/ Same
                      \/ answers'[g][n] \in {replica[n], OverTheWire(replica[n])}
  <1>1. ASSUME UNCHANGED <<answers, acks>> PROVE Goal
    BY <1>1
  <1>2. ASSUME NEW o \in Ops, LocalWrite(o) PROVE Goal
    BY <1>2 DEF LocalWrite, TypeOK
  <1>3. ASSUME NEW o \in Ops, NEW m \in Nodes, Ack(o, m) PROVE Goal
    BY <1>3 DEF Ack, TypeOK
  <1>4. ASSUME NEW o \in Ops, NEW m \in Nodes, NEW v,
               answers' = [answers EXCEPT ![o][m] = v],
               v \in {replica[m], OverTheWire(replica[m])},
               acks' = [acks EXCEPT ![o] = @ \cup {m}] \/ UNCHANGED acks
        PROVE  Goal
    <2>1. CASE o = g /\ m = n
      BY <1>4, <2>1 DEF TypeOK
    <2>2. CASE ~(o = g /\ m = n)
      <3>1. answers'[g][n] = answers[g][n]
        BY <1>4, <2>2 DEF TypeOK
      <3>2. n \in acks'[g] => n \in acks[g]
        BY <1>4, <2>2 DEF TypeOK
      <3>. QED  BY <3>1, <3>2
    <2>. QED  BY <2>1, <2>2
  <1>5. ASSUME NEW o \in Ops, LocalRead(o) PROVE Goal
    <2>1. coord[o] \in Nodes
      BY DEF TypeOK
    <2>2. CASE Mine(o)
      BY <1>4, <1>5, <2>1, <2>2 DEF LocalRead
    <2>3. CASE ~Mine(o)
      BY <1>1, <1>5, <2>3 DEF LocalRead
    <2>. QED  BY <2>2, <2>3
  <1>6. ASSUME NEW o \in Ops, NEW m \in Nodes, LookUp(o, m) \/ Answer(o, m) PROVE Goal
    BY <1>4, <1>6 DEF LookUp, Answer
  <1>7. ASSUME \/ \E o \in Ops, c \in Nodes, k \in {"put", "delete", "get"} : Begin(o, k, c)
               \/ \E o \in Ops : CheckRing(o) \/ Finish(o)
               \/ \E o \in Ops, m \in Nodes : Serve(o, m) \/ Fail(o, m)
               \/ \E m \in Nodes : Reap(m) \/ ReviseRing(m)
               \/ UNCHANGED vars
        PROVE  UNCHANGED <<answers, acks>>
    BY <1>7 DEF Begin, CheckRing, Finish, Return, Serve, Fail, Reap, ReviseRing, vars
  <1>. HIDE DEF Goal
  <1>8. Goal
    BY <1>1, <1>2, <1>3, <1>5, <1>6, <1>7, ReplicationAssumption
       DEF Next, BeginPut, BeginDelete, BeginGet
  <1>. QED  BY <1>8 DEF Goal

\* The kind of a request and what it remembers are settled when it begins, which
\* is before anybody answers.
LEMMA SettledStep ==
    ASSUME TypeOK, QuorumInv, [Next]_vars, NEW g \in Ops
    PROVE  (kind'[g] = kind[g] /\ before'[g] = before[g]) \/ acks'[g] = {}
  <1>. USE DEF settled, opVars
  <1>1. ASSUME NEW o \in Ops, NEW c \in Nodes, NEW k \in {"put", "delete", "get"},
               Begin(o, k, c)
        PROVE  (kind'[g] = kind[g] /\ before'[g] = before[g]) \/ acks'[g] = {}
    <2>1. CASE o = g
      BY <1>1, <2>1, BeginType DEF QuorumInv, Outcomes
    <2>2. CASE o # g
      BY <1>1, <2>2, BeginType DEF TypeOK
    <2>. QED  BY <2>1, <2>2
  <1>2. ASSUME \/ \E o \in Ops : CheckRing(o) \/ LocalWrite(o) \/ LocalRead(o) \/ Finish(o)
               \/ \E o \in Ops, n \in Nodes :
                     \/ LookUp(o, n) \/ Serve(o, n)
                     \/ Ack(o, n) \/ Fail(o, n) \/ Answer(o, n)
               \/ \E n \in Nodes : Reap(n) \/ ReviseRing(n)
               \/ UNCHANGED vars
        PROVE  UNCHANGED <<kind, before>>
    BY <1>2 DEF CheckRing, LocalWrite, LocalRead, Finish, Return, LookUp, Serve, Ack,
                Fail, Answer, Reap, ReviseRing, vars
  <1>. QED  BY <1>1, <1>2, ReplicationAssumption DEF Next, BeginPut, BeginDelete, BeginGet

LEMMA FoundNext ==
    ASSUME TypeOK, QuorumInv, StartInv, FoundInv, [Next]_vars
    PROVE  FoundInv'
  <1>. SUFFICES ASSUME NothingTaken'
                PROVE  /\ \A n \in Nodes : Plain(replica'[n])
                       /\ \A o \in Ops, n \in Nodes : Plain(answers'[o][n])
                       /\ \A w \in Ops : \A n \in applied'[w] : replica'[n] # Absent
                       /\ \A g \in Ops : kind'[g] = "get" =>
                             \A w \in before'[g] : \A n \in acks'[g] \cap acks'[w] :
                                answers'[g][n] # Absent
    BY DEF FoundInv, Plain
  <1>1. NothingTaken
    BY NothingTakenBefore
  <1>2. /\ \A n \in Nodes : Plain(replica'[n])
        /\ \A w \in Ops : \A n \in applied'[w] : replica'[n] # Absent
    BY <1>1, HeldNext
  <1>3. ASSUME NEW n \in Nodes
        PROVE  /\ Plain(replica[n]) /\ Plain(OverTheWire(replica[n]))
               /\ replica[n] # Absent => OverTheWire(replica[n]) # Absent
    <2>1. replica[n] \in Version \cup {Absent} /\ Plain(replica[n])
      BY <1>1 DEF TypeOK, FoundInv
    <2>. QED  BY <2>1, ReplicationAssumption DEF OverTheWire, Plain, Version
  <1>4. ASSUME NEW o \in Ops, NEW n \in Nodes PROVE Plain(answers'[o][n])
    <2>1. Plain(answers[o][n])
      BY <1>1 DEF FoundInv
    <2>. QED  BY <1>3, <2>1, AnswerStep
  <1>5. ASSUME NEW g \in Ops, kind'[g] = "get", NEW w \in before'[g],
               NEW n \in acks'[g] \cap acks'[w]
        PROVE  answers'[g][n] # Absent
    <2>1. kind[g] = "get" /\ w \in before[g]
      BY <1>5, SettledStep
    <2>2. w \in Acknowledged /\ w \in Ops /\ phase[w] = "done"
      BY <2>1 DEF QuorumInv, Acknowledged, Succeeded
    <2>3. n \in acks[w]
      BY <2>2, DoneIsFinal
    <2>4. n \in applied[w] /\ n \in Nodes
      BY <2>2, <2>3, EnoughExecuted DEF TypeOK
    <2>5. replica[n] # Absent /\ OverTheWire(replica[n]) # Absent
      BY <1>1, <1>3, <2>2, <2>4 DEF FoundInv
    <2>6. n \in acks[g] => answers[g][n] # Absent
      BY <1>1, <2>1, <2>3 DEF FoundInv
    <2>. QED  BY <1>5, <2>1, <2>4, <2>5, <2>6, AnswerStep
  <1>. QED  BY <1>2, <1>4, <1>5

\* R + W > N and resolve_conflicts together: as long as no delete and no ttl takes
\* a value away, a read that heard from its quorum finds a value after the first
\* acknowledged write, for any nodes, rings, quorums and number of requests.
THEOREM PutsAlwaysFound == Spec => []PutsAreFound
  <1>1. TypeOK /\ QuorumInv /\ ReadInv /\ FoundInv => PutsAreFound
    <2>. SUFFICES ASSUME TypeOK, QuorumInv, ReadInv, FoundInv, NothingTaken,
                         NEW g \in Ops, kind[g] = "get", phase[g] = "done",
                         Cardinality(acks[g]) >= required[g], NEW w \in before[g],
                         required[g] + required[w] > Cardinality(Asked(g) \cup Asked(w))
                  PROVE  result[g] # Absent
      BY DEF PutsAreFound
    <2>1. w \in Acknowledged
      BY DEF QuorumInv
    <2>2. /\ w \in Ops /\ required[w] \in Nat /\ acks[w] \subseteq Asked(w)
          /\ Cardinality(acks[w]) >= required[w]
      BY <2>1, EnoughExecuted
    <2>3. acks[g] \subseteq Asked(g) /\ required[g] \in Nat
      BY DEF QuorumInv, Outcomes, TypeOK
    <2>4. IsFiniteSet(Asked(g) \cup Asked(w))
      BY <2>2, AskedIsFinite
    <2>5. PICK n \in acks[g] : n \in acks[w]
      <3>1. acks[g] \cap acks[w] # {}
        BY <2>2, <2>3, <2>4, QuorumsMeet
      <3>. QED  BY <3>1
    <2>6. n \in Nodes
      BY DEF TypeOK
    <2>7. answers[g][n] # Absent /\ Plain(answers[g][n])
      BY <2>5, <2>6 DEF FoundInv
    <2>8. Live(answers[g][n], {}) /\ ~answers[g][n].ttl
      BY <2>7 DEF Live, Plain
    <2>. QED  BY <2>8, ReadOutcome
  <1>2. Init => TypeOK /\ QuorumInv /\ ReadInv /\ StartInv /\ FoundInv
    BY TypeInit, QuorumInit, ReadInit, StartInit, FoundInit
  <1>3. TypeOK /\ QuorumInv /\ ReadInv /\ StartInv /\ FoundInv /\ [Next]_vars =>
           TypeOK' /\ QuorumInv' /\ ReadInv' /\ StartInv' /\ FoundInv'
    BY TypeNext, QuorumNext, ReadNext, StartNext, FoundNext
  <1>. QED  BY <1>1, <1>2, <1>3, PTL DEF Spec
=============================================================================
