--------------------------- MODULE FleetRegistry ---------------------------
(***************************************************************************)
(* The replay fence of the Fleet registry for one enrolled node            *)
(* (NodeRegistry.poll_once): which snapshots replace the accepted record.  *)
(* A node process numbers its snapshots; a restarted process has a new     *)
(* identity and numbers from zero again.  A poll's answer may be any       *)
(* document the node ever produced: delayed, repeated, or from a           *)
(* predecessor process.                                                    *)
(***************************************************************************)
EXTENDS Naturals, FiniteSets

CONSTANTS Instances,     \* process identities (random, without an order)
          None,          \* no process, no record
          MaxSequence,   \* bound: highest snapshot_sequence a process reaches
          MaxRetired,    \* MAX_RETIRED_INSTANCE_IDS
          Ttl            \* ticks a record stays live

ASSUME RegistryAssumption ==
    /\ IsFiniteSet(Instances) /\ None \notin Instances
    /\ MaxSequence \in Nat /\ MaxRetired \in Nat /\ Ttl \in Nat

VARIABLES
    process,    \* the running process, or None before the first start
    next,       \* its next snapshot_sequence
    produced,   \* every document any process has sent
    polling,    \* a poll is in flight
    record,     \* the accepted document, or None
    retired,    \* _retired_instance_ids
    age,        \* ticks since the record was received, up to Ttl + 1
    error,      \* the error code of the last poll
    accepted    \* history: every document that became the record

registryVars == <<process, next, produced, polling, record, retired, age, error, accepted>>

Documents == [inst : Instances, seq : 0..MaxSequence]

ASSUME NoDocument == None \notin Documents

RegistryInit ==
    /\ process = None /\ next = 0 /\ produced = {}
    /\ polling = FALSE /\ record = None /\ retired = {}
    /\ age = 0 /\ error = "not_polled" /\ accepted = {}

-----------------------------------------------------------------------------
(* The node                                                                 *)

Started == {d.inst : d \in produced} \cup {process}

\* A manager process starts, the previous one being gone.
NodeStarts ==
    \E i \in Instances \ Started :
      /\ process' = i /\ next' = 0
      /\ UNCHANGED <<produced, polling, record, retired, age, error, accepted>>

\* fleet_snapshot numbers each document it returns.
NodeProduces ==
    /\ process # None /\ next <= MaxSequence
    /\ produced' = produced \cup {[inst |-> process, seq |-> next]}
    /\ next' = next + 1
    /\ UNCHANGED <<process, polling, record, retired, age, error, accepted>>

-----------------------------------------------------------------------------
(* The registry                                                             *)

\* Plausible bugs.
BugForgetsOldest(d) ==
    IF record # None /\ record.inst # d.inst THEN {record.inst} ELSE retired

\* A retired process never comes back.
NotRolledBack(d) == d.inst \notin retired

\* A document of the same process must be a newer one.
NotReplayed(d) == (record # None /\ record.inst = d.inst) => d.seq > record.seq

\* A new process retires its predecessor, which takes room in the fence.
FenceHasRoom(d) ==
    (record # None /\ record.inst # d.inst) => Cardinality(retired) < MaxRetired

RetiredAfter(d) ==
    IF record # None /\ record.inst # d.inst THEN retired \cup {record.inst} ELSE retired

PollStarts ==
    /\ ~polling
    /\ polling' = TRUE
    /\ UNCHANGED <<process, next, produced, record, retired, age, error, accepted>>

PollAccepts ==
    /\ polling
    /\ \E d \in produced :
         /\ NotRolledBack(d) /\ NotReplayed(d) /\ FenceHasRoom(d)
         /\ record' = d
         /\ retired' = RetiredAfter(d)
         /\ accepted' = accepted \cup {d}
    /\ age' = 0
    /\ error' = "none"
    /\ polling' = FALSE
    /\ UNCHANGED <<process, next, produced>>

\* The document is refused and nothing but the error code changes.
PollRefuses ==
    /\ polling
    /\ \E d \in produced :
         \/ /\ ~NotRolledBack(d)
            /\ error' = "instance_replayed"
         \/ /\ NotRolledBack(d) /\ ~NotReplayed(d)
            /\ error' = "sequence_replayed"
         \/ /\ NotRolledBack(d) /\ NotReplayed(d) /\ ~FenceHasRoom(d)
            /\ error' = "churn_exhausted"
    /\ polling' = FALSE
    /\ UNCHANGED <<process, next, produced, record, retired, age, accepted>>

\* Timeout, transport error, bad status, oversized or invalid document
PollFails ==
    /\ polling
    /\ error' = "failed"
    /\ polling' = FALSE
    /\ UNCHANGED <<process, next, produced, record, retired, age, accepted>>

Tick ==
    /\ record # None /\ age <= Ttl
    /\ age' = age + 1
    /\ UNCHANGED <<process, next, produced, polling, record, retired, error, accepted>>

\* live_records
Live == record # None /\ age <= Ttl

RegistryNext == NodeStarts \/ NodeProduces \/ PollStarts \/ PollAccepts \/ PollRefuses
        \/ PollFails \/ Tick

RegistrySpec == RegistryInit /\ [][RegistryNext]_registryVars

-----------------------------------------------------------------------------
(* Properties                                                               *)

\* Every variable keeps its type, and the fence keeps its bound.
RegistryTypeOK ==
    /\ process \in Instances \cup {None}
    /\ next \in 0..(MaxSequence + 1)
    /\ produced \subseteq Documents
    /\ polling \in BOOLEAN
    /\ record \in Documents \cup {None}
    /\ retired \subseteq Instances /\ Cardinality(retired) <= MaxRetired
    /\ age \in 0..(Ttl + 1)
    /\ error \in {"not_polled", "none", "instance_replayed", "sequence_replayed",
                  "churn_exhausted", "failed"}
    /\ accepted \subseteq Documents

\* No document becomes the record twice or extends its TTL, no older document of
\* the same process replaces a newer one, and a process that was superseded is
\* never the record again, however many restarts lie between.
NeverRollsBack ==
    [][(record' # record \/ age' < age) =>
         /\ record' \in produced \ accepted
         /\ \A d \in accepted : d.inst = record'.inst =>
              record.inst = d.inst /\ d.seq < record'.seq]_registryVars
=============================================================================
