---------------------------- MODULE Replication ----------------------------
(***************************************************************************)
(* Coordinated reads and writes of one key                                 *)
(* (src/src/replication/coordinator.rs and quorum.rs, and the handlers of  *)
(* src/src/grpc/service.rs it calls on the replicas).                      *)
(*                                                                         *)
(* The node a client asks coordinates the request: it reads or writes its  *)
(* own engine if it is a replica of the key, sends an RPC to every other   *)
(* replica, waits until each has answered, failed or timed out, and counts *)
(* successes.  A request that timed out may still be under way and be      *)
(* served later.  Any number of coordinators work at the same time.        *)
(*                                                                         *)
(* Every node goes by its own ring, which gossip may change at any moment  *)
(* and differently on every node (module Membership).  A request reads it  *)
(* twice, for the peers to ask and to find out whether its coordinator is  *)
(* a replica itself.                                                       *)
(*                                                                         *)
(* The engine of a node is the entry it holds for the key; its log and its *)
(* crashes are module StorageEngine's.  Which values with a ttl have       *)
(* expired is left open at every read.                                     *)
(***************************************************************************)
EXTENDS VectorClock, FiniteSets, SequencesExt

CONSTANTS
    Coordinators,  \* the nodes that clients ask
    Seeds,         \* Seeds[n]: the members n's ring starts with, beside n
    Preference,    \* Preference[s]: the key's replicas in a ring with the members s
    ReadQuorum,    \* R
    WriteQuorum,   \* W
    Overrides,     \* quorum overrides of the requests, 0 for none
    Timestamps,    \* wall clock readings; the clocks of the nodes may disagree
    Ttls,          \* whether a put carries a ttl
    Kinds,         \* the requests made
    MaxOps,        \* bound: requests
    MaxRare,       \* bound: deletes and changes of rings, together
    Absent         \* what a lookup that finds nothing returns (None)

Ops == 1..MaxOps

VARIABLES
    ring,      \* ring[n]: the members of n's hash ring
    revisions, \* number of changes of rings so far
    replica,   \* replica[n]: the entry of n's MemTable for the key
    phase,     \* phase[o]: how far request o is
    kind,      \* kind[o]: put, delete or get
    coord,     \* coord[o]: the node that coordinates o
    list,      \* list[o]: the preference list of the first look at the ring
    second,    \* second[o]: the preference list of the second look
    required,  \* required[o]: the quorum o needs
    version,   \* version[o]: what a put replicates
    flying,    \* flying[o]: the replicas whose RPC is under way
    looked,    \* looked[o]: the replicas that have looked up the clock for the delete o
    applied,   \* applied[o]: the replicas that have executed the write o
    acks,      \* acks[o]: the replicas that reported success to the coordinator
    fails,     \* fails[o]: the replicas that failed or timed out
    answers,   \* answers[o][n]: what n answered to the get, or found for the delete o
    result,    \* result[o]: what the get o returned
    before     \* history: the writes acknowledged when o began

ringVars == <<ring, revisions>>
opVars == <<kind, coord, list, required, before>>
settled == <<second, opVars, ringVars>>   \* what the beginning of a request fixes
vars == <<replica, phase, version, flying, looked, applied, acks, fails,
          answers, result, settled>>

Members == INSTANCE Membership WITH view <- ring

\* A version is named after the request that made it and, since every replica
\* makes the tombstone of a delete itself, the node.  past is a history: the
\* names and clocks of the versions that the maker's entry descended from.
Name == [op: Ops, at: Nodes, clock: Clocks]
Version == [name: Name, timestamp: Nat, ttl: BOOLEAN, deleted: BOOLEAN,
            past: SUBSET Name]

ASSUME ReplicationAssumption ==
    /\ Nodes # {} /\ IsFiniteSet(Nodes) /\ Coordinators \subseteq Nodes
    /\ Seeds \in [Nodes -> SUBSET Nodes]
    /\ Preference \in [SUBSET Nodes -> Seq(Nodes)]
    /\ Timestamps \subseteq Nat /\ Ttls \subseteq BOOLEAN
    /\ Kinds \subseteq {"put", "delete", "get"}
    /\ ReadQuorum \in Nat /\ WriteQuorum \in Nat /\ Overrides \subseteq Nat
    /\ MaxOps \in Nat
    /\ Absent \notin Version

Init ==
    /\ Members!Init /\ revisions = 0
    /\ list = [o \in Ops |-> << >>] /\ second = [o \in Ops |-> << >>]
    /\ replica = [n \in Nodes |-> Absent]
    /\ phase = [o \in Ops |-> "new"]
    /\ kind = [o \in Ops |-> "none"]
    /\ coord = [o \in Ops |-> CHOOSE n \in Nodes : TRUE]
    /\ required = [o \in Ops |-> 0]
    /\ version = [o \in Ops |-> Absent]
    /\ flying = [o \in Ops |-> {}]
    /\ looked = [o \in Ops |-> {}]
    /\ applied = [o \in Ops |-> {}]
    /\ acks = [o \in Ops |-> {}]
    /\ fails = [o \in Ops |-> {}]
    /\ answers = [o \in Ops |-> [n \in Nodes |-> Absent]]
    /\ result = [o \in Ops |-> Absent]
    /\ before = [o \in Ops |-> {}]

Peers(o) == Range(list[o]) \ {coord[o]}

\* is_responsible: the coordinator is a replica itself.
Mine(o) == coord[o] \in Range(second[o])

\* The peers whose RPC has no outcome yet.
Pending(o) == Peers(o) \ (acks[o] \cup fails[o])

\* get counts every peer it asked, whatever became of the RPC.
Successes(o) ==
    Cardinality(IF kind[o] = "get" THEN acks[o] \cup fails[o] ELSE acks[o])

\* QuorumResult::is_success, once join_all has returned.
Succeeded(o) == phase[o] = "done" /\ Successes(o) >= required[o]

\* The writes a client was told succeeded.
Acknowledged == {o \in Ops : kind[o] \in {"put", "delete"} /\ Succeeded(o)}

-----------------------------------------------------------------------------
(***************************************************************************)
(* Versions.                                                               *)
(***************************************************************************)

\* The clock of an entry, and the versions it descends from, itself included.
ClockOf(v) == IF v = Absent THEN EmptyClock ELSE v.name.clock
Lineage(v) == IF v = Absent THEN {} ELSE v.past \cup {v.name}

\* Mutant of PutVersion: the clock of the existing entry is not merged in.
PutVersionFresh(o, n, old, t, ttl) ==
    [name |-> [op |-> o, at |-> n, clock |-> Increment(EmptyClock, n)],
     timestamp |-> t, ttl |-> ttl, deleted |-> FALSE, past |-> Lineage(old)]

\* The version put makes from the clock of the entry it found: a fresh clock,
\* {n: 1}, merged with that clock.
PutVersion(o, n, old, t, ttl) ==
    [name |-> [op |-> o, at |-> n,
               clock |-> Merge(Increment(EmptyClock, n), ClockOf(old))],
     timestamp |-> t, ttl |-> ttl, deleted |-> FALSE, past |-> Lineage(old)]

\* The tombstone StorageEngine::delete makes on node n, always with a ttl.
TombstoneVersion(o, n, old, t) ==
    [name |-> [op |-> o, at |-> n, clock |-> Increment(ClockOf(old), n)],
     timestamp |-> t, ttl |-> TRUE, deleted |-> TRUE, past |-> Lineage(old)]

\* A version sent to another node and back: the protocol has no deleted flag.
OverTheWire(v) == IF v = Absent THEN Absent ELSE [v EXCEPT !.deleted = FALSE]

-----------------------------------------------------------------------------
(***************************************************************************)
(* A request begins, in the order of their numbers.                        *)
(***************************************************************************)

\* QuorumConfig::effective_read_quorum and effective_write_quorum.
Effective(override, default) == IF override > 0 THEN override ELSE default

Rare == revisions + Cardinality({o \in Ops : kind[o] = "delete"})

\* The first look at the ring gives the peers.
Begin(o, k, c) ==
    /\ phase[o] = "new" /\ \A q \in Ops : q < o => phase[q] # "new"
    /\ k \in Kinds
    /\ k = "delete" => Rare < MaxRare
    /\ phase' = [phase EXCEPT ![o] = "begun"]
    /\ kind' = [kind EXCEPT ![o] = k]
    /\ coord' = [coord EXCEPT ![o] = c]
    /\ list' = [list EXCEPT ![o] = Preference[ring[c]]]
    /\ \E w \in Overrides :
          required' = [required EXCEPT ![o] =
              Effective(w, IF k = "get" THEN ReadQuorum ELSE WriteQuorum)]
    /\ before' = [before EXCEPT ![o] = Acknowledged]
    /\ UNCHANGED <<replica, flying, looked, applied, acks, fails, answers, result,
                   second, ringVars>>

\* put reads the clock of the existing entry before anything else.
BeginPut(o, c) ==
    /\ Begin(o, "put", c)
    /\ \E t \in Timestamps, ttl \in Ttls :
          version' = [version EXCEPT ![o] = PutVersion(o, c, replica[c], t, ttl)]

BeginDelete(o, c) == Begin(o, "delete", c) /\ UNCHANGED version

BeginGet(o, c) == Begin(o, "get", c) /\ UNCHANGED version

\* The second look, by is_responsible.
CheckRing(o) ==
    /\ phase[o] = "begun"
    /\ phase' = [phase EXCEPT ![o] = "local"]
    /\ second' = [second EXCEPT ![o] = Preference[ring[coord[o]]]]
    /\ UNCHANGED <<replica, version, flying, looked, applied, acks, fails, answers,
                   result, opVars, ringVars>>

-----------------------------------------------------------------------------
(***************************************************************************)
(* Writes.                                                                 *)
(***************************************************************************)

\* The first half of StorageEngine::delete, on the coordinator or on a replica
\* that the RPC has reached: the clock of the entry is looked up.
LookUp(o, n) ==
    /\ kind[o] = "delete" /\ n \notin looked[o]
    /\ \/ phase[o] = "local" /\ n = coord[o] /\ Mine(o)
       \/ n \in flying[o]
    /\ looked' = [looked EXCEPT ![o] = @ \cup {n}]
    /\ answers' = [answers EXCEPT ![o][n] = replica[n]]
    /\ UNCHANGED <<replica, phase, version, flying, applied, acks, fails, result,
                   settled>>

\* StorageEngine::put, or the second half of delete, for request o on node n.
Write(o, n) ==
    /\ IF kind[o] = "put"
       THEN replica' = [replica EXCEPT ![n] = version[o]]
       ELSE /\ n \in looked[o]
            /\ \E t \in Timestamps :
                  replica' = [replica EXCEPT ![n] = TombstoneVersion(o, n, answers[o][n], t)]
    /\ applied' = [applied EXCEPT ![o] = @ \cup {n}]

\* Mutant of LocalWrite: the coordinator writes whether it is a replica or not.
LocalWriteAlways(o) ==
    LET c == coord[o]
    IN  /\ phase[o] = "local" /\ kind[o] # "get"
        /\ Write(o, c)
        /\ acks' = [acks EXCEPT ![o] = @ \cup {c}]
        /\ phase' = [phase EXCEPT ![o] = "waiting"]
        /\ flying' = [flying EXCEPT ![o] = Peers(o)]
        /\ UNCHANGED <<looked, fails, version, answers, result, settled>>

\* The local write, if the coordinator is a replica; it may fail, and the RPCs
\* go out all the same.
LocalWrite(o) ==
    LET c == coord[o]
    IN  /\ phase[o] = "local" /\ kind[o] # "get"
        /\ \/ /\ Mine(o)
              /\ Write(o, c)
              /\ acks' = [acks EXCEPT ![o] = @ \cup {c}]
              /\ UNCHANGED fails
           \/ /\ Mine(o)
              /\ kind[o] = "delete" => c \in looked[o]
              /\ fails' = [fails EXCEPT ![o] = @ \cup {c}]
              /\ UNCHANGED <<replica, applied, acks>>
           \/ /\ ~Mine(o)
              /\ UNCHANGED <<replica, applied, acks, fails>>
        /\ phase' = [phase EXCEPT ![o] = "waiting"]
        /\ flying' = [flying EXCEPT ![o] = Peers(o)]
        /\ UNCHANGED <<looked, version, answers, result, settled>>

\* The RPC reaches a replica, perhaps after the coordinator has given it up
\* (InternalService::replicate and delete_internal).
Serve(o, n) ==
    /\ n \in flying[o]
    /\ flying' = [flying EXCEPT ![o] = @ \ {n}]
    /\ Write(o, n)
    /\ UNCHANGED <<phase, version, looked, acks, fails, answers, result, settled>>

\* The replica's answer reaches the coordinator in time.
Ack(o, n) ==
    /\ phase[o] = "waiting" /\ kind[o] # "get"
    /\ n \in Pending(o) \cap applied[o]
    /\ acks' = [acks EXCEPT ![o] = @ \cup {n}]
    /\ UNCHANGED <<replica, phase, version, flying, looked, applied, fails, answers,
                   result, settled>>

\* Mutant of Fail: an RPC that failed counts as one that succeeded.
FailCounted(o, n) ==
    /\ phase[o] = "waiting" /\ n \in Pending(o)
    /\ acks' = [acks EXCEPT ![o] = @ \cup {n}]
    /\ UNCHANGED <<replica, phase, version, flying, looked, applied, fails, answers,
                   result, settled>>

\* The RPC to n fails or times out.  What is under way stays under way, and
\* may also never arrive.
Fail(o, n) ==
    /\ phase[o] = "waiting" /\ n \in Pending(o)
    /\ fails' = [fails EXCEPT ![o] = @ \cup {n}]
    /\ UNCHANGED <<replica, phase, version, flying, looked, applied, acks, answers,
                   result, settled>>

-----------------------------------------------------------------------------
(***************************************************************************)
(* Reads.                                                                  *)
(***************************************************************************)

\* The local read of get, if the coordinator is a replica.
LocalRead(o) ==
    LET c == coord[o]
    IN  /\ phase[o] = "local" /\ kind[o] = "get"
        /\ IF Mine(o)
           THEN /\ acks' = [acks EXCEPT ![o] = @ \cup {c}]
                /\ answers' = [answers EXCEPT ![o][c] = replica[c]]
           ELSE UNCHANGED <<acks, answers>>
        /\ phase' = [phase EXCEPT ![o] = "waiting"]
        /\ UNCHANGED <<replica, version, flying, looked, applied, fails, result,
                       settled>>

\* InternalService::get_internal on n, answered in time.
Answer(o, n) ==
    /\ phase[o] = "waiting" /\ kind[o] = "get" /\ n \in Pending(o)
    /\ acks' = [acks EXCEPT ![o] = @ \cup {n}]
    /\ answers' = [answers EXCEPT ![o][n] = OverTheWire(replica[n])]
    /\ UNCHANGED <<replica, phase, version, flying, looked, applied, fails, result, settled>>

\* What resolve_conflicts does not pass over; expired is the set of answers
\* past their ttl.
Live(v, expired) == v # Absent /\ ~v.deleted /\ v \notin expired

\* Mutant of Pick: a replica that holds nothing overrides the others.
PickNothing(best, v, expired) ==
    IF v = Absent \/ (Live(v, expired) /\ best = Absent) THEN v ELSE best

\* One round of the loop in resolve_conflicts.
Pick(best, v, expired) ==
    IF /\ Live(v, expired)
       /\ \/ best = Absent
          \/ Dominates(v.name.clock, best.name.clock)
          \/ /\ ~Dominates(best.name.clock, v.name.clock)
             /\ v.timestamp > best.timestamp
    THEN v ELSE best

\* resolve_conflicts.
Resolve(seq, expired) ==
    FoldLeft(LAMBDA best, v : Pick(best, v, expired), Absent, seq)

\* The answers in the order get collects them: its own, then its peers'.  The
\* coordinator is filtered out of its list: nothing stands in its place.
Responses(o) ==
    LET c == coord[o]
        own == IF Mine(o) THEN <<answers[o][c]>> ELSE << >>
    IN  own \o [i \in DOMAIN list[o] |->
                  IF list[o][i] = c THEN Absent ELSE answers[o][list[o][i]]]

-----------------------------------------------------------------------------
\* The client gets its answer (KvService::get, put and delete).
Return(o) ==
    /\ phase' = [phase EXCEPT ![o] = "done"]
    /\ IF kind[o] = "get"
       THEN \E expired \in SUBSET {v \in Range(Responses(o)) : v # Absent /\ v.ttl} :
               result' = [result EXCEPT ![o] = Resolve(Responses(o), expired)]
       ELSE UNCHANGED result
    /\ UNCHANGED <<replica, version, flying, looked, applied, acks, fails, answers, settled>>

\* Mutant of Finish: the request ends only when no RPC failed.
FinishWithoutFailures(o) ==
    /\ phase[o] = "waiting" /\ Pending(o) = {} /\ fails[o] = {}
    /\ Return(o)

\* join_all has every outcome.
Finish(o) ==
    /\ phase[o] = "waiting" /\ Pending(o) = {}
    /\ Return(o)

\* The TTL reaper of a node takes an expired entry.
Reap(n) ==
    /\ replica[n] # Absent /\ replica[n].ttl
    /\ replica' = [replica EXCEPT ![n] = Absent]
    /\ UNCHANGED <<phase, version, flying, looked, applied, acks, fails, answers,
                   result, settled>>

\* Gossip revises the ring of a node.  Revisions that no request can read any
\* more make no difference and are left out.
ReviseRing(n) ==
    /\ n \in Coordinators
    /\ \E o \in Ops : phase[o] = "new" \/ (phase[o] = "begun" /\ coord[o] = n)
    /\ Rare < MaxRare
    /\ revisions' = revisions + 1
    /\ Members!Revise(n) /\ ring' # ring
    /\ UNCHANGED <<replica, phase, version, flying, looked, applied, acks, fails,
                   answers, result, second, opVars>>

Next ==
    \/ \E o \in Ops :
          \/ \E c \in Coordinators : BeginPut(o, c) \/ BeginDelete(o, c) \/ BeginGet(o, c)
          \/ CheckRing(o) \/ LocalWrite(o) \/ LocalRead(o) \/ Finish(o)
          \/ \E n \in Nodes : \/ LookUp(o, n) \/ Serve(o, n)
                             \/ Ack(o, n) \/ Fail(o, n) \/ Answer(o, n)
    \/ \E n \in Nodes : Reap(n) \/ ReviseRing(n)

Spec == Init /\ [][Next]_vars

\* What the coordinator's own task does until it waits for its peers.
Proceed(o) ==
    \/ CheckRing(o) \/ LocalWrite(o) \/ LocalRead(o)
    \/ phase[o] = "local" /\ LookUp(o, coord[o])

\* The handler keeps running, and rpc_timeout bounds every RPC, the connection
\* included.  Nothing is assumed of the network or of the replicas.
Fairness ==
    \A o \in Ops : /\ WF_vars(Proceed(o)) /\ WF_vars(Finish(o))
                   /\ \A n \in Nodes : WF_vars(Fail(o, n))

FairSpec == Spec /\ Fairness

-----------------------------------------------------------------------------
(***************************************************************************)
(* Properties.                                                             *)
(***************************************************************************)

\* Type correctness.
TypeOK ==
    /\ replica \in [Nodes -> Version \cup {Absent}]
    /\ version \in [Ops -> Version \cup {Absent}]
    /\ answers \in [Ops -> [Nodes -> Version \cup {Absent}]]
    /\ result \in [Ops -> Version \cup {Absent}]
    /\ phase \in [Ops -> {"new", "begun", "local", "waiting", "done"}]
    /\ kind \in [Ops -> {"none", "put", "delete", "get"}]
    /\ coord \in [Ops -> Nodes] /\ required \in [Ops -> Nat]
    /\ flying \in [Ops -> SUBSET Nodes] /\ looked \in [Ops -> SUBSET Nodes]
    /\ applied \in [Ops -> SUBSET Nodes]
    /\ acks \in [Ops -> SUBSET Nodes] /\ fails \in [Ops -> SUBSET Nodes]
    /\ before \in [Ops -> SUBSET Ops]
    /\ ring \in [Nodes -> SUBSET Nodes] /\ revisions \in Nat
    /\ list \in [Ops -> Seq(Nodes)] /\ second \in [Ops -> Seq(Nodes)]

\* A client that was told its write succeeded can count on it: as many nodes
\* as its quorum asks for have executed it, whatever was lost, late or failed,
\* and however the ring changed under the request.
AcknowledgedWritesReachQuorum ==
    \A o \in Acknowledged : Cardinality(applied[o]) >= required[o]

\* The nodes that request o took for replicas of the key.
Asked(o) == Range(list[o]) \cup Range(second[o])

\* R + W > N as the code has it: a read that really heard from its quorum has
\* heard from a node that executed each write acknowledged before it began,
\* where N counts the nodes that the read or the write took for replicas.
ReadsMeetWrites ==
    \A g \in Ops :
        kind[g] = "get" /\ phase[g] = "done" /\ Cardinality(acks[g]) >= required[g] =>
            \A w \in before[g] :
                required[g] + required[w] > Cardinality(Asked(g) \cup Asked(w)) =>
                    acks[g] \cap applied[w] # {}

\* No request so far could take a value away: no delete, no put with a ttl.
NothingTaken ==
    \A o \in Ops : kind[o] # "delete" /\ (version[o] # Absent => ~version[o].ttl)

\* As long as nothing is deleted and nothing expires, a read that really heard
\* from its quorum finds a value if a write was acknowledged before it began,
\* whichever RPCs of the write were lost or late, whatever the replicas answered
\* and in whatever order resolve_conflicts meets the answers.
PutsAreFound ==
    NothingTaken =>
        \A g \in Ops :
            kind[g] = "get" /\ phase[g] = "done" /\ Cardinality(acks[g]) >= required[g] =>
                \A w \in before[g] :
                    required[g] + required[w] > Cardinality(Asked(g) \cup Asked(w)) =>
                        result[g] # Absent

\* get returns the answer whose clock dominates those of all other answers that
\* are not tombstones, unless it may have expired.
DominantAnswerWins ==
    \A g \in Ops : \A n \in acks[g] :
        LET v == answers[g][n]
        IN  /\ kind[g] = "get" /\ phase[g] = "done"
            /\ Live(v, {}) /\ ~v.ttl
            /\ \A m \in Nodes :
                  LET u == answers[g][m]
                  IN  Live(u, {}) /\ u # v => Dominates(v.name.clock, u.name.clock)
            => result[g] = v

Held == {replica[n] : n \in Nodes} \cup {version[o] : o \in Ops} \cup
        {answers[o][n] : o \in Ops, n \in Nodes}

\* No version, stored, under way or read, has a clock that one of the versions
\* it descends from is ahead of: dominance never inverts causality.
ClocksCoverThePast ==
    \A v \in Held \ {Absent} : \A d \in v.past : Covers(v.name.clock, d.clock)

\* Every request ends, even if no RPC is ever answered.
RequestsEnd == \A o \in Ops : phase[o] # "new" ~> phase[o] = "done"

-----------------------------------------------------------------------------
(***************************************************************************)
(* What comments and the README say and the code does not do; each is      *)
(* checked by a run that finds it violated.                                *)
(***************************************************************************)

\* README.md:119: "For strong consistency, ensure R + W > N."  A read that
\* succeeds sees a write acknowledged before it began, or one that did not end
\* before that write began.
StronglyConsistent ==
    \A g \in Ops :
        kind[g] = "get" /\ Succeeded(g) =>
            \A w \in before[g] :
                required[g] + required[w] > Cardinality(Asked(g) \cup Asked(w)) =>
                    /\ result[g] # Absent
                    /\ result[g].name.op \notin before[w]

\* README.md:31: "Supports TTL, tombstone deletes".  What a read finds was put
\* there by a put.
FoundWasPut ==
    \A g \in Ops : result[g] # Absent => kind[result[g].name.op] = "put"

\* coordinator.rs:198: "Resolve: pick the value with the dominant vector
\* clock".  A read does not return a version from which another answer it got
\* descends.
NewestOfALineWins ==
    \A g \in Ops, n \in Nodes :
        result[g] # Absent /\ answers[g][n] # Absent =>
            result[g].name \notin answers[g][n].past

\* Nothing is left to happen: no request runs and no RPC is under way.
Quiet == \A o \in Ops : phase[o] \in {"new", "done"} /\ flying[o] = {}

\* quorum.rs:19: "Eventual consistency: N=3, R=1, W=1".  When all is quiet,
\* nodes that have executed the same writes hold the same value.
ReplicasConverge ==
    Quiet => \A n, m \in Nodes :
        (\A o \in Ops : n \in applied[o] <=> m \in applied[o]) => replica[n] = replica[m]
=============================================================================
