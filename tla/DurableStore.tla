---------------------------- MODULE DurableStore ----------------------------
(***************************************************************************)
(* What the storage engine promises to the code above it                   *)
(* (src/src/storage/engine.rs as service.rs and coordinator.rs use it): a  *)
(* map from keys to values that changes by the writes it has accepted and  *)
(* by expiry, and that survives the death of the process except for the    *)
(* keys at risk.  Only a write of a key puts that key at risk: no flush,   *)
(* no crash and no write of another key does.                              *)
(***************************************************************************)
EXTENDS VersionedValue

VARIABLES
    shown,    \* shown[k]: what a reader sees of k, or saw before the death
    serving,  \* the process runs
    pending,  \* accepted writes a reader does not see yet
    atRisk    \* keys that need not survive a death now

Written(ops) == {o.key : o \in ops}

Init ==
    /\ shown = [k \in Keys |-> Absent]
    /\ serving = TRUE /\ pending = {} /\ atRisk = {}

\* A write is accepted.
Accept ==
    /\ serving
    /\ \E o \in pending' :
          /\ pending' = pending \cup {o}
          /\ atRisk' = atRisk \cup {o.key}
    /\ UNCHANGED <<shown, serving>>

\* A write is refused.  It is not applied, but a restart may still find it.
Refuse(k) ==
    /\ serving
    /\ atRisk' = atRisk \cup {k}
    /\ UNCHANGED <<shown, serving, pending>>

\* A write takes effect; a tombstone, or a value past its deadline, hides the
\* key.
Apply(o) ==
    /\ serving
    /\ shown' = [shown EXCEPT ![o.key] = shown'[o.key]]
    /\ shown'[o.key] \in {Absent} \cup (IF o.value.deleted THEN {} ELSE {o.value})
    /\ pending' = pending \ {o}
    /\ atRisk \ {o.key} \subseteq atRisk' /\ atRisk' \subseteq atRisk
    /\ UNCHANGED serving

\* Values pass their deadline.
Expire ==
    /\ \A k \in Keys : shown'[k] \in {shown[k], Absent}
    /\ DOMAIN shown' = Keys
    /\ UNCHANGED <<serving, pending, atRisk>>

\* Keys are safe again, except those with a write under way.
Settle ==
    /\ Written(pending) \subseteq atRisk' /\ atRisk' \subseteq atRisk
    /\ UNCHANGED <<shown, serving, pending>>

\* The process dies, within a write of one more key or outside.
Stop ==
    /\ serving /\ ~serving'
    /\ pending' = {}
    /\ Written(pending) \subseteq atRisk'
    /\ \/ atRisk' \subseteq atRisk
       \/ \E k \in Keys : atRisk' \subseteq atRisk \cup {k}
    /\ UNCHANGED shown

\* It comes back with what it showed, except for the keys at risk.
Start ==
    /\ ~serving /\ serving'
    /\ \A k \in Keys \ atRisk : shown'[k] = shown[k]
    /\ atRisk' \subseteq atRisk
    /\ UNCHANGED pending

Next ==
    \/ Accept \/ Settle \/ Expire \/ Stop \/ Start
    \/ \E k \in Keys : Refuse(k)
    \/ \E o \in pending : Apply(o)

Spec == Init /\ [][Next]_<<shown, serving, pending, atRisk>>
=============================================================================
