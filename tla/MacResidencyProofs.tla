------------------------ MODULE MacResidencyProofs -------------------------
(***************************************************************************)
(* The safety of the macOS coordinator's leases, for every number of       *)
(* callers and deployments and whatever fails, expires or drifts, wherever *)
(* one operation at a time fences admission (MCMacBarrier shows what two   *)
(* at once do to each other).                                              *)
(***************************************************************************)
EXTENDS MacResidency, FiniteSetTheorems, FunctionTheorems, TLAPS

\* One operation in progress at a time.
Solo == \A o, p \in Slots : o = p

-----------------------------------------------------------------------------
(* The inductive invariant                                                  *)

\* Where an operation can be suspended: waiting for leases, for the driver and for
\* the lock, or holding the lock.
Inside == {"work", "operate", "repair", "compare"}
Operation == [kind : Kinds \cup {"none", "init", "reconcile"},
              at : {"none", "drain", "driver", "driverdone", "driverlost", "lock"} \cup Inside,
              seen : SUBSET Deployments]

\* The driver is between deciding to switch and having switched or failed.
Switching == {"lock", "unload", "load", "verify", "clean"}

Types ==
    /\ client \in [Clients -> {"idle", "queued", "granted", "holding", "failed"}]
    /\ wants \in [Clients -> Deployments \cup {None}]
    /\ leaseEpoch \in [Clients -> Nat]
    /\ queue \in Seq(Clients) /\ inflight \in Nat /\ epoch \in Nat
    /\ resident \in Deployments \cup {None} /\ loading \in Deployments \cup {None}
    /\ initialized \in BOOLEAN /\ accepting \in BOOLEAN /\ stopping \in BOOLEAN
    /\ driver \in {"none", "run", "wait", "cancelled"} \cup Switching
    /\ op \in [Slots -> Operation]
    /\ lock \in Seq(Slots \cup {"driver"})
    /\ loaded \in SUBSET Deployments
    /\ faults \in Nat /\ drifts \in Nat

Distinct(q) == \A i, j \in 1..Len(q) : q[i] = q[j] => i = j

\* Waiters are distinct callers that wait for a deployment.
Waiting(q, cl) ==
    /\ \A i \in 1..Len(q) : cl[q[i]] = "queued" /\ wants[q[i]] \in Deployments
    /\ Distinct(q)

\* Closed gates leave nobody waiting.
QueueOK == Waiting(queue, client) /\ (~Admits => queue = <<>>)

\* The leases are counted, of this epoch and on a deployment.
CountOK == /\ inflight = Cardinality(LeaseHolders)
           /\ \A c \in LeaseHolders : leaseEpoch[c] = epoch /\ wants[c] \in Deployments

\* What the leases are on, and what the next grant would be on.
ServedOK == /\ LeaseServed
            /\ (drifts = 0 /\ Admits /\ resident # None /\ loading = None)
                 => loaded = {resident}

\* A switch is under way while no lease is out and, where the gates are open, with a
\* target that keeps acquire from granting.
SwitchOK == /\ driver \in Switching => loading # None
            /\ loading # None => driver \in Switching \cup {"cancelled"} /\ inflight = 0
            /\ (loading # None /\ Admits) => target # None
            /\ driver = "cancelled" => ~Admits /\ (stopping \/ inflight = 0)

\* An operation closes the gates; past its drain no lease is out, and past the
\* driver's end there is no driver.
Fenced(o) ==
    /\ op[o].kind = "none" <=> op[o].at = "none"
    /\ op[o].kind \notin {"none", "audit"} => ~Admits
    /\ op[o].kind = "audit" => op[o].at \in {"lock", "work", "compare"}
    /\ (op[o].kind \notin {"none", "audit"} /\ op[o].at \in {"driverdone", "lock"} \cup Inside)
         => driver = "none"
    /\ (op[o].kind \notin {"none", "audit"} /\ op[o].at # "drain") => inflight = 0
    /\ op[o].at = "compare" => op[o].kind = "audit"
    /\ op[o].at = "driver" => driver # "none"
    /\ op[o].kind = "shutdown" => stopping

FenceOK == \A o \in Slots : Fenced(o)

\* Before initialize nothing has happened.
FreshOK == (~initialized /\ ~stopping /\ state = "idle") => driver = "none" /\ inflight = 0

\* Who is in the lock's queue, and who is at its head.
LockOK == /\ Distinct(lock)
          /\ "driver" \in Members(lock)
               => loading # None /\ driver \in {"lock", "unload", "load", "verify", "cancelled"}
          /\ driver \in {"unload", "load", "verify"} => Holds("driver")
          /\ \A o \in Slots : /\ op[o].at \in Inside => Holds(o)
                              /\ o \in Members(lock) => op[o].at \in {"lock"} \cup Inside

MacInv == /\ Types /\ QueueOK /\ CountOK /\ ServedOK
          /\ SwitchOK /\ FenceOK /\ FreshOK /\ LockOK

-----------------------------------------------------------------------------
(* Sequences without repetitions                                            *)

\* What is left of a sequence without one of its members; the head stays unless it
\* went.
LEMMA Removed ==
  ASSUME NEW S, NEW q \in Seq(S), Distinct(q), NEW x
  PROVE  /\ Without(q, x) \in Seq(S) /\ Distinct(Without(q, x))
         /\ Members(Without(q, x)) = Members(q) \ {x}
         /\ (q # <<>> /\ Head(q) # x) => Without(q, x) # <<>> /\ Head(Without(q, x)) = Head(q)
<1>1. CASE x \notin Members(q)
  <2>1. Without(q, x) = q
    BY <1>1 DEF Without
  <2> QED
    BY <1>1, <2>1
<1>2. CASE x \in Members(q)
  <2>1. PICK i \in 1..Len(q) : i = CHOOSE n \in 1..Len(q) : q[n] = x
    BY <1>2 DEF Members
  <2>2. q[i] = x
    BY <1>2, <2>1 DEF Members
  <2>3. PICK w : w = [j \in 1..(Len(q) - 1) |-> q[IF j < i THEN j ELSE j + 1]]
    OBVIOUS
  <2>4. Without(q, x) = w
    BY <1>2, <2>1, <2>3 DEF Without
  <2>5. w \in Seq(S) /\ Len(w) = Len(q) - 1
    BY <2>3
  <2>6. \A j \in 1..Len(w) : w[j] = q[IF j < i THEN j ELSE j + 1]
    BY <2>3, <2>5
  <2>7. \A j \in 1..Len(w) : (IF j < i THEN j ELSE j + 1) \in (1..Len(q)) \ {i}
    BY <2>5
  <2>8. Distinct(w)
    BY <2>5, <2>6, <2>7, SMTT(40) DEF Distinct
  <2>9. Members(w) = Members(q) \ {x}
    <3>1. \A j \in 1..Len(w) : w[j] \in Members(q) \ {x}
      BY <2>2, <2>6, <2>7 DEF Distinct, Members
    <3>2. ASSUME NEW m \in 1..Len(q), q[m] # x PROVE \E j \in 1..Len(w) : w[j] = q[m]
      <4>1. CASE m < i
        BY <2>5, <2>6, <4>1
      <4>2. CASE m > i
        <5>1. m - 1 \in 1..Len(w) /\ ~(m - 1 < i) /\ (m - 1) + 1 = m
          BY <2>5, <4>2
        <5>2. w[m - 1] = q[m]
          BY <2>6, <5>1
        <5> QED
          BY <5>1, <5>2
      <4> QED
        BY <2>2, <3>2, <4>1, <4>2
    <3> QED
      BY <3>1, <3>2, SMTT(40) DEF Members
  <2>10. (q # <<>> /\ Head(q) # x) => w # <<>> /\ Head(w) = Head(q)
    <3> SUFFICES ASSUME q # <<>>, Head(q) # x PROVE w # <<>> /\ Head(w) = Head(q)
      OBVIOUS
    <3>1. i > 1
      BY <2>2
    <3>2. 1 \in 1..Len(w) /\ w[1] = q[1]
      BY <2>5, <2>6, <3>1
    <3> QED
      BY <2>5, <3>2
  <2> QED
    BY <2>4, <2>5, <2>8, <2>9, <2>10
<1> QED
  BY <1>1, <1>2

\* What is left of a sequence without its head.
LEMMA Dropped ==
  ASSUME NEW S, NEW q \in Seq(S), Distinct(q), q # <<>>
  PROVE  /\ Tail(q) \in Seq(S) /\ Distinct(Tail(q))
         /\ Members(Tail(q)) = Members(q) \ {Head(q)}
         /\ Len(q) = 1 <=> Tail(q) = <<>>
<1>1. Tail(q) \in Seq(S) /\ Len(Tail(q)) = Len(q) - 1 /\ Len(q) >= 1
  OBVIOUS
<1>2. \A j \in 1..Len(Tail(q)) : Tail(q)[j] = q[j + 1] /\ j + 1 \in (1..Len(q)) \ {1}
  BY <1>1
<1>3. Distinct(Tail(q))
  BY <1>1, <1>2 DEF Distinct
<1>4. \A j \in 1..Len(Tail(q)) : Tail(q)[j] \in Members(q) \ {Head(q)}
  BY <1>1, <1>2 DEF Distinct, Members
<1>5. ASSUME NEW m \in 1..Len(q), q[m] # Head(q) PROVE \E j \in 1..Len(Tail(q)) : Tail(q)[j] = q[m]
  <2>1. m # 1
    BY <1>5
  <2>2. m - 1 \in 1..Len(Tail(q)) /\ (m - 1) + 1 = m
    BY <1>1, <2>1
  <2>3. Tail(q)[m - 1] = q[m]
    BY <1>2, <2>2
  <2> QED
    BY <2>2, <2>3
<1>6. Members(Tail(q)) = Members(q) \ {Head(q)}
  BY <1>4, <1>5 DEF Members
<1>7. Len(q) = 1 <=> Tail(q) = <<>>
  BY <1>1
<1> QED
  BY <1>1, <1>3, <1>6, <1>7

\* A sequence with a new last member.
LEMMA Appended ==
  ASSUME NEW S, NEW q \in Seq(S), Distinct(q), NEW x \in S, x \notin Members(q)
  PROVE  /\ Append(q, x) \in Seq(S) /\ Distinct(Append(q, x))
         /\ Members(Append(q, x)) = Members(q) \cup {x}
         /\ Append(q, x) # <<>>
         /\ Head(Append(q, x)) = IF q = <<>> THEN x ELSE Head(q)
<1>1. /\ Append(q, x) \in Seq(S) /\ Len(Append(q, x)) = Len(q) + 1
      /\ Append(q, x)[Len(q) + 1] = x
  OBVIOUS
<1>2. \A i \in 1..Len(q) : Append(q, x)[i] = q[i] /\ q[i] # x
  BY DEF Members
<1>3. \A i \in 1..Len(Append(q, x)) : i \in 1..Len(q) \/ i = Len(q) + 1
  BY <1>1
<1>4. Distinct(Append(q, x))
  BY <1>1, <1>2, <1>3 DEF Distinct
<1>5. Members(Append(q, x)) = Members(q) \cup {x}
  <2>1. \A i \in 1..Len(q) : i \in 1..Len(Append(q, x)) /\ Append(q, x)[i] = q[i]
    BY <1>1, <1>2
  <2>2. Len(q) + 1 \in 1..Len(Append(q, x))
    BY <1>1
  <2>3. \A i \in 1..Len(Append(q, x)) : Append(q, x)[i] \in Members(q) \cup {x}
    BY <1>1, <1>2, <1>3 DEF Members
  <2> QED
    BY <1>1, <2>1, <2>2, <2>3 DEF Members
<1>6. Append(q, x) # <<>> /\ Head(Append(q, x)) = IF q = <<>> THEN x ELSE Head(q)
  <2>1. CASE q = <<>>
    BY <1>1, <2>1
  <2>2. CASE q # <<>>
    <3>1. 1 \in 1..Len(q)
      BY <2>2
    <3> QED
      BY <1>1, <1>2, <2>2, <3>1
  <2> QED
    BY <2>1, <2>2
<1> QED
  BY <1>1, <1>4, <1>5, <1>6

\* What is left past the first k
LEMMA Rest ==
  ASSUME NEW S, NEW q \in Seq(S), Distinct(q), NEW k \in 0..Len(q)
  PROVE  /\ SubSeq(q, k + 1, Len(q)) \in Seq(S) /\ Distinct(SubSeq(q, k + 1, Len(q)))
         /\ \A i \in 1..Len(SubSeq(q, k + 1, Len(q))) :
              /\ SubSeq(q, k + 1, Len(q))[i] = q[k + i] /\ k + i \in 1..Len(q)
              /\ \A m \in 1..k : q[m] # q[k + i]
         /\ SubSeq(q, k + 1, Len(q)) # <<>> =>
              k + 1 \in 1..Len(q) /\ Head(SubSeq(q, k + 1, Len(q))) = q[k + 1]
<1> DEFINE r == SubSeq(q, k + 1, Len(q))
<1>1. r \in Seq(S) /\ Len(r) = Len(q) - k
  OBVIOUS
<1>2. \A i \in 1..Len(r) : r[i] = q[k + i] /\ k + i \in 1..Len(q) /\ k + i > k
  BY <1>1
<1>3. Distinct(r)
  <2> SUFFICES ASSUME NEW i \in 1..Len(r), NEW j \in 1..Len(r), r[i] = r[j] PROVE i = j
    BY DEF Distinct
  <2>1. k + i \in 1..Len(q) /\ k + j \in 1..Len(q) /\ q[k + i] = q[k + j]
    BY <1>2
  <2>2. k + i = k + j
    BY <2>1 DEF Distinct
  <2> QED
    BY <2>2, <1>1
<1>4. \A j \in 1..Len(q) : j > k => \A m \in 1..k : q[m] # q[j]
  BY DEF Distinct
<1>5. r # <<>> => k + 1 \in 1..Len(q) /\ Head(r) = q[k + 1]
  <2> SUFFICES ASSUME r # <<>> PROVE k + 1 \in 1..Len(q) /\ Head(r) = q[k + 1]
    OBVIOUS
  <2>1. Len(r) > 0
    BY <1>1
  <2> QED
    BY <1>1, <1>2, <2>1
<1>6. \A i \in 1..Len(r) : /\ r[i] = q[k + i] /\ k + i \in 1..Len(q)
                           /\ \A m \in 1..k : q[m] # q[k + i]
  BY <1>2, <1>4
<1> QED
  BY <1>1, <1>3, <1>5, <1>6

\* The first k of distinct waiters are k callers.
LEMMA Counted ==
  ASSUME NEW q \in Seq(Clients), NEW k \in 0..Len(q), Distinct(q)
  PROVE  /\ IsFiniteSet({q[i] : i \in 1..k})
         /\ Cardinality({q[i] : i \in 1..k}) = k
<1> DEFINE G == {q[i] : i \in 1..k}
           f == [i \in 1..k |-> q[i]]
<1>1. f \in Bijection(1..k, G)
  <2>1. f \in [1..k -> G]
    OBVIOUS
  <2>2. \A i, j \in 1..k : f[i] = f[j] => i = j
    BY DEF Distinct
  <2>3. \A g \in G : \E i \in 1..k : f[i] = g
    OBVIOUS
  <2> QED
    BY <2>1, <2>2, <2>3 DEF Bijection, Injection, Surjection, IsInjective
<1>2. ExistsBijection(1..k, G)
  BY <1>1 DEF ExistsBijection
<1> QED
  BY <1>2, FS_NatBijection, FS_CountingElements

\* The holders are finitely many, and none exactly when they count zero.
LEMMA Holders ==
  /\ IsFiniteSet(LeaseHolders)
  /\ Cardinality(LeaseHolders) \in Nat
  /\ Cardinality(LeaseHolders) = 0 <=> LeaseHolders = {}
<1>1. IsFiniteSet(LeaseHolders)
  BY FS_Subset, MacResidencyAssumption DEF LeaseHolders
<1> QED
  BY <1>1, FS_CardinalityType, FS_EmptySet

-----------------------------------------------------------------------------
(* The driver's pass                                                        *)

Callers == [Clients -> {"idle", "queued", "granted", "holding", "failed"}]
Locks == Seq(Slots \cup {"driver"})

\* What a pass starts from: the waiters, the very holders of the state before it,
\* and a lock queue the driver is not in.
PassInput(s) ==
    /\ s.q \in Seq(Clients) /\ s.cl \in Callers /\ Waiting(s.q, s.cl)
    /\ \A c \in Clients : s.cl[c] \in {"granted", "holding"} <=> Leased(c)
    /\ s.ep \in Nat /\ s.r \in Deployments \cup {None} /\ s.open \in BOOLEAN
    /\ s.lk \in Locks /\ Distinct(s.lk) /\ "driver" \notin Members(s.lk)
    /\ (s.r = None /\ s.open) => inflight = 0

\* What it leaves of the callers
PassCallers(s) ==
    /\ client' \in Callers /\ leaseEpoch' \in [Clients -> Nat]
    /\ queue' \in Seq(Clients) /\ Waiting(queue', client')
    /\ ~s.open => queue' = <<>>
    /\ inflight' = Cardinality(LeaseHolders')
    /\ \A c \in LeaseHolders : c \in LeaseHolders' /\ leaseEpoch'[c] = leaseEpoch[c]
    /\ \A c \in LeaseHolders' \ LeaseHolders :
         s.open /\ leaseEpoch'[c] = s.ep /\ wants[c] = s.r /\ s.r \in Deployments

\* What it leaves of the driver
PassDriver(s) ==
    /\ \/ driver' = "none" /\ op' = DriverGone(op) /\ lock' = s.lk /\ loading' = None
       \/ driver' = "wait" /\ op' = op /\ lock' = s.lk /\ loading' = None
       \/ /\ driver' = (IF s.lk = <<>> THEN "unload" ELSE "lock")
          /\ op' = op /\ lock' = Append(s.lk, "driver")
          /\ loading' \in Deployments /\ target' = loading' /\ inflight' = 0
    /\ driver' # "none" => s.open
    /\ ~s.open => state' = s.st

\* A pass of the driver grants and fails waiters with their leases counted.
LEMMA PassCounts ==
  ASSUME MacInv, NEW s, PassInput(s), Turn(s)
  PROVE  PassCallers(s)
<1> USE DEF PassInput
<1>1. CASE ~s.open
  <2>1. RefuseAll(s)
    BY <1>1 DEF Turn
  <2>2. /\ client' = [c \in Clients |-> IF c \in Members(s.q) THEN "failed" ELSE s.cl[c]]
        /\ queue' = <<>> /\ leaseEpoch' = leaseEpoch /\ inflight' = inflight
    BY <2>1 DEF RefuseAll
  <2>3. \A c \in Members(s.q) : s.cl[c] = "queued"
    BY DEF Members, Waiting
  <2>4. \A c \in Clients : client'[c] \in {"granted", "holding"} <=> Leased(c)
    BY <2>2, <2>3
  <2>5. LeaseHolders' = LeaseHolders
    BY <2>4 DEF LeaseHolders, Leased
  <2>6. client' \in Callers /\ queue' \in Seq(Clients)
    BY <2>2 DEF Callers
  <2>7. Waiting(queue', client')
    BY <2>2 DEF Waiting, Distinct
  <2>8. leaseEpoch' \in [Clients -> Nat] /\ inflight' = Cardinality(LeaseHolders')
    BY <2>2, <2>5 DEF MacInv, Types, CountOK
  <2> QED
    BY <1>1, <2>2, <2>5, <2>6, <2>7, <2>8 DEF PassCallers
<1>2. CASE s.open
  <2>1. PICK k \in 0..Len(s.q) : IsGrantCount(k, s) /\ GrantAndSettle(s, k)
    BY <1>2 DEF Turn
  <2> DEFINE G == {s.q[i] : i \in 1..k}
             rest == SubSeq(s.q, k + 1, Len(s.q))
  <2>2. s.q \in Seq(Clients) /\ G \subseteq Clients /\ Distinct(s.q)
    BY DEF Waiting
  <2>3. G \cap LeaseHolders = {}
    BY <2>2 DEF Waiting, LeaseHolders
  <2>4. /\ client' = [c \in Clients |-> IF c \in G THEN "granted" ELSE s.cl[c]]
        /\ leaseEpoch' = [c \in Clients |-> IF c \in G THEN s.ep ELSE leaseEpoch[c]]
        /\ inflight' = inflight + k /\ queue' = rest
    BY <2>1 DEF GrantAndSettle
  <2>5. LeaseHolders' = LeaseHolders \cup G
    BY <2>2, <2>4 DEF LeaseHolders, Leased
  <2>6. inflight' = Cardinality(LeaseHolders')
    <3>1. IsFiniteSet(G) /\ Cardinality(G) = k
      BY <2>2, Counted
    <3>2. Cardinality(LeaseHolders \cup G) = Cardinality(LeaseHolders) + Cardinality(G)
                                               - Cardinality(LeaseHolders \cap G)
      BY <3>1, Holders, FS_Union
    <3>3. Cardinality(LeaseHolders \cap G) = 0
      BY <2>3, FS_EmptySet
    <3> QED
      BY <2>4, <2>5, <3>1, <3>2, <3>3, Holders DEF MacInv, CountOK
  <2>7. rest \in Seq(Clients) /\ Distinct(rest)
    BY <2>2, Rest
  <2>8. \A i \in 1..Len(rest) :
          /\ rest[i] = s.q[k + i] /\ k + i \in 1..Len(s.q)
          /\ \A m \in 1..k : s.q[m] # s.q[k + i]
    BY <2>2, Rest
  <2>9. \A j \in 1..Len(s.q) : (\A m \in 1..k : s.q[m] # s.q[j]) =>
          client'[s.q[j]] = "queued" /\ wants[s.q[j]] \in Deployments
    <3> SUFFICES ASSUME NEW j \in 1..Len(s.q), \A m \in 1..k : s.q[m] # s.q[j]
                 PROVE  client'[s.q[j]] = "queued" /\ wants[s.q[j]] \in Deployments
      OBVIOUS
    <3>1. s.cl[s.q[j]] = "queued" /\ wants[s.q[j]] \in Deployments /\ s.q[j] \in Clients
      BY <2>2 DEF Waiting
    <3>2. s.q[j] \notin G
      OBVIOUS
    <3> QED
      BY <2>4, <3>1, <3>2
  <2>10. \A i \in 1..Len(rest) : client'[rest[i]] = "queued" /\ wants[rest[i]] \in Deployments
    <3> HIDE DEF rest
    <3> TAKE i \in 1..Len(rest)
    <3>1. /\ rest[i] = s.q[k + i] /\ k + i \in 1..Len(s.q)
          /\ \A m \in 1..k : s.q[m] # s.q[k + i]
      BY <2>8
    <3> QED
      BY <2>9, <3>1
  <2>11. Waiting(queue', client')
    BY <2>4, <2>7, <2>10 DEF Waiting
  <2>12. /\ \A c \in LeaseHolders : leaseEpoch'[c] = leaseEpoch[c]
         /\ \A c \in LeaseHolders' \ LeaseHolders : leaseEpoch'[c] = s.ep
    BY <2>3, <2>4, <2>5 DEF LeaseHolders
  <2>13. \A c \in G : wants[c] = s.r /\ wants[c] \in Deployments
    BY <2>1, <2>2 DEF IsGrantCount, Waiting
  <2>14. client' \in Callers /\ leaseEpoch' \in [Clients -> Nat]
    BY <2>4 DEF Callers, MacInv, Types
  <2> QED
    BY <1>2, <2>4, <2>5, <2>6, <2>7, <2>11, <2>12, <2>13, <2>14 DEF PassCallers
<1> QED
  BY <1>1, <1>2

\* A pass leaves the driver gone, asleep or at the start of a switch that no lease
\* is out for.
LEMMA PassDrives ==
  ASSUME MacInv, NEW s, PassInput(s), Turn(s)
  PROVE  PassDriver(s)
<1> USE DEF PassInput
<1>1. CASE ~s.open
  BY <1>1 DEF Turn, RefuseAll, PassDriver
<1>2. CASE s.open
  <2>1. PICK k \in 0..Len(s.q) : IsGrantCount(k, s) /\ GrantAndSettle(s, k)
    BY <1>2 DEF Turn
  <2> DEFINE rest == SubSeq(s.q, k + 1, Len(s.q))
  <2>2. rest # <<>> => wants[Head(rest)] \in Deployments
    <3> SUFFICES ASSUME rest # <<>> PROVE wants[Head(rest)] \in Deployments
      OBVIOUS
    <3>1. k + 1 \in 1..Len(s.q) /\ Head(rest) = s.q[k + 1]
      BY Rest DEF Waiting
    <3> QED
      BY <3>1 DEF Waiting
  <2>3. s.r = None => k = 0
    <3> SUFFICES ASSUME s.r = None, k > 0 PROVE FALSE
      OBVIOUS
    <3>1. wants[s.q[1]] = s.r /\ 1 \in 1..Len(s.q)
      BY <2>1 DEF IsGrantCount
    <3> QED
      BY <3>1, MacResidencyAssumption DEF Waiting
  <2>4. inflight \in Nat /\ (s.r = None => inflight = 0)
    BY <1>2 DEF MacInv, Types
  <2>5. inflight' = inflight + k
    BY <2>1 DEF GrantAndSettle
  <2> HIDE DEF rest
  <2>6. \/ driver' = "none" /\ op' = DriverGone(op) /\ lock' = s.lk /\ loading' = None
        \/ driver' = "wait" /\ op' = op /\ lock' = s.lk /\ loading' = None
        \/ /\ driver' = (IF s.lk = <<>> THEN "unload" ELSE "lock")
           /\ op' = op /\ lock' = Append(s.lk, "driver") /\ rest # <<>>
           /\ target' = wants[Head(rest)] /\ loading' = wants[Head(rest)]
           /\ s.r = None \/ inflight + k = 0
    BY <2>1 DEF GrantAndSettle, rest
  <2> QED
    BY <1>2, <2>2, <2>3, <2>4, <2>5, <2>6 DEF PassDriver
<1> QED
  BY <1>1, <1>2

\* An operation that awaited the driver learns that it ended.
LEMMA Gone ==
  ASSUME Types
  PROVE  /\ DriverGone(op) \in [Slots -> Operation]
         /\ \A o \in Slots :
              /\ DriverGone(op)[o].kind = op[o].kind
              /\ DriverGone(op)[o].at = IF op[o].at = "driver" THEN "driverdone" ELSE op[o].at
<1>1. ASSUME NEW o \in Slots
      PROVE  /\ DriverGone(op)[o] \in Operation
             /\ DriverGone(op)[o].kind = op[o].kind
             /\ DriverGone(op)[o].at = IF op[o].at = "driver" THEN "driverdone" ELSE op[o].at
  <2>1. DriverGone(op)[o] = IF op[o].at = "driver" THEN [op[o] EXCEPT !.at = "driverdone"] ELSE op[o]
    BY DEF DriverGone
  <2>2. op[o] \in Operation
    BY DEF Types
  <2> QED
    BY <2>1, <2>2 DEF Operation
<1>2. DriverGone(op) = [o \in Slots |-> DriverGone(op)[o]]
  BY DEF DriverGone
<1> QED
  BY <1>1, <1>2

\* It learns as well that the driver was cancelled.
LEMMA Lost ==
  ASSUME Types
  PROVE  /\ DriverLost(op) \in [Slots -> Operation]
         /\ \A o \in Slots :
              /\ DriverLost(op)[o].kind = op[o].kind
              /\ IF op[o].at = "driver" THEN DriverLost(op)[o].at \in {"driverdone", "driverlost"}
                                        ELSE DriverLost(op)[o].at = op[o].at
<1>1. ASSUME NEW o \in Slots
      PROVE  /\ DriverLost(op)[o] \in Operation
             /\ DriverLost(op)[o].kind = op[o].kind
             /\ IF op[o].at = "driver" THEN DriverLost(op)[o].at \in {"driverdone", "driverlost"}
                                       ELSE DriverLost(op)[o].at = op[o].at
  <2>1. DriverLost(op)[o] = IF op[o].at = "driver" /\ op[o].kind # "shutdown"
                              THEN [op[o] EXCEPT !.at = "driverlost"] ELSE DriverGone(op)[o]
    BY DEF DriverLost
  <2>2. /\ op[o] \in Operation /\ DriverGone(op)[o] \in Operation
        /\ DriverGone(op)[o].kind = op[o].kind
        /\ DriverGone(op)[o].at = IF op[o].at = "driver" THEN "driverdone" ELSE op[o].at
    BY Gone DEF Types
  <2> QED
    BY <2>1, <2>2 DEF Operation
<1>2. DriverLost(op) = [o \in Slots |-> DriverLost(op)[o]]
  BY DEF DriverLost
<1> QED
  BY <1>1, <1>2

\* Where a pass starts from, and what the step around it does.
PassStart(s) ==
    /\ PassInput(s) /\ Turn(s)
    /\ UNCHANGED <<wants, stopping, bounds>>
    /\ initialized' \in BOOLEAN /\ accepting' \in BOOLEAN /\ loaded' \in SUBSET Deployments
    /\ epoch' = s.ep /\ resident' = s.r
    /\ s.open <=> Admits'
    /\ Admits' => Admits
    /\ driver \notin {"none", "cancelled"}
    /\ LeaseHolders # {} => s.ep = epoch /\ s.r = resident /\ loaded' = loaded
    /\ (drifts = 0 /\ s.r # None /\ s.open) => loaded' = {s.r}
    /\ ~s.open => s.st # "idle" \/ initialized' \/ stopping
    /\ Members(s.lk) \subseteq Members(lock)
    /\ \A o \in Slots : Holds(o) => s.lk # <<>> /\ Head(s.lk) = o

\* No lease is out during a switch.
LEMMA NoneOut ==
  ASSUME MacInv, inflight = 0
  PROVE  LeaseHolders = {}
BY Holders DEF MacInv, CountOK

\* A driver that was woken passes with what the coordinator holds.
LEMMA TurnStarts ==
  ASSUME MacInv, DriverTurn
  PROVE  \E s : PassStart(s)
<1> USE DEF MacInv
<1> DEFINE s == [q |-> queue, cl |-> client, r |-> resident, ep |-> epoch, open |-> Admits,
                 lk |-> lock, st |-> state, tg |-> target]
<1>1. /\ driver = "run" /\ Turn(s)
      /\ UNCHANGED <<wants, epoch, resident, initialized, accepting, stopping, loaded, bounds>>
  BY DEF DriverTurn, gates
<1>2. loading = None /\ "driver" \notin Members(lock)
  BY <1>1 DEF SwitchOK, LockOK, Switching
<1>3. (resident = None /\ Admits) => inflight = 0
  <2> SUFFICES ASSUME resident = None, Admits, LeaseHolders # {} PROVE FALSE
    BY Holders DEF CountOK
  <2> QED
    BY MacResidencyAssumption DEF ServedOK, LeaseServed, CountOK, Admits
<1>4. PassInput(s)
  BY <1>2, <1>3 DEF PassInput, Types, QueueOK, LockOK, Callers, Locks, Leased, Admits
<1>5. Admits' = Admits
  BY <1>1 DEF Admits
<1>6. (drifts = 0 /\ resident # None /\ Admits) => loaded = {resident}
  BY <1>2 DEF ServedOK
<1>7. initialized \in BOOLEAN /\ accepting \in BOOLEAN /\ loaded \in SUBSET Deployments
  BY DEF Types
<1>8. ~Admits => state # "idle" \/ initialized \/ stopping
  BY <1>1 DEF FreshOK
<1> QED
  BY <1>1, <1>4, <1>5, <1>6, <1>7, <1>8 DEF PassStart, Holds

\* A driver that has verified its load publishes it and passes on with the new
\* epoch.
LEMMA PublishStarts ==
  ASSUME MacInv, DriverPublish
  PROVE  \E s : PassStart(s)
<1> USE DEF MacInv
<1> DEFINE s == [q |-> queue, cl |-> client, r |-> loading, ep |-> epoch + 1, open |-> Admits,
                 lk |-> Tail(lock), st |-> IF Admits THEN "ready" ELSE state, tg |-> None]
<1>1. /\ driver = "verify" /\ loaded = {loading} /\ Turn(s)
      /\ resident' = loading /\ epoch' = epoch + 1
      /\ UNCHANGED <<wants, initialized, accepting, stopping, loaded, bounds>>
  BY DEF DriverPublish, gates
<1>2. loading # None /\ inflight = 0 /\ Holds("driver")
  BY <1>1 DEF SwitchOK, LockOK, Switching
<1>3. /\ Tail(lock) \in Locks /\ Distinct(Tail(lock))
      /\ Members(Tail(lock)) = Members(lock) \ {"driver"}
  <2>1. lock \in Locks /\ Distinct(lock) /\ lock # <<>> /\ Head(lock) = "driver"
    BY <1>2 DEF Holds, Types, LockOK, Locks
  <2> QED
    BY <2>1, Dropped DEF Locks
<1>4. PassInput(s)
  BY <1>2, <1>3 DEF PassInput, Types, QueueOK, Callers, Leased, Admits
<1>5. Admits' = Admits
  BY <1>1 DEF Admits
<1>6. initialized \in BOOLEAN /\ accepting \in BOOLEAN /\ loaded \in SUBSET Deployments
  BY DEF Types
<1>7. ~Admits => state # "idle" \/ initialized \/ stopping
  BY <1>1 DEF FreshOK
<1>8. \A o \in Slots : ~Holds(o)
  BY <1>2, MacResidencyAssumption DEF Holds
<1>9. LeaseHolders = {}
  BY <1>2, NoneOut
<1> QED
  BY <1>1, <1>3, <1>4, <1>5, <1>6, <1>7, <1>8, <1>9 DEF PassStart

\* A driver whose transition failed passes on with the waiters that are left and no
\* resident.
LEMMA FailureStarts ==
  ASSUME MacInv, driver = "clean", loaded' \in SUBSET loaded, NEW clean \in BOOLEAN,
         AfterFailure(clean)
  PROVE  \E s : PassStart(s)
<1> USE DEF MacInv
<1> DEFINE F(k) == [c \in Clients |-> IF \E i \in 1..k : queue[i] = c THEN "failed" ELSE client[c]]
           s(k) == [q |-> SubSeq(queue, k + 1, Len(queue)), cl |-> F(k), r |-> None, ep |-> epoch,
                    open |-> Admits /\ clean, lk |-> lock, st |-> "degraded", tg |-> None]
<1>1. /\ resident' = None /\ initialized' = (initialized /\ clean)
      /\ accepting' = (accepting /\ clean)
      /\ UNCHANGED <<wants, epoch, stopping, bounds>>
  BY DEF AfterFailure
<1>2. PICK k \in 0..Len(queue) : Turn(s(k))
  BY DEF AfterFailure
<1>3. loading # None /\ inflight = 0 /\ "driver" \notin Members(lock)
  BY DEF SwitchOK, LockOK, Switching
<1>4. LeaseHolders = {}
  BY <1>3, NoneOut
<1>5. queue \in Seq(Clients) /\ Distinct(queue) /\ client \in Callers
  BY DEF Types, QueueOK, Waiting, Callers
<1>6. /\ SubSeq(queue, k + 1, Len(queue)) \in Seq(Clients)
      /\ Waiting(SubSeq(queue, k + 1, Len(queue)), F(k))
  <2> DEFINE rest == SubSeq(queue, k + 1, Len(queue))
  <2>1. rest \in Seq(Clients) /\ Distinct(rest)
    BY <1>5, Rest
  <2>2. \A i \in 1..Len(rest) : /\ rest[i] = queue[k + i] /\ k + i \in 1..Len(queue)
                                /\ \A m \in 1..k : queue[m] # queue[k + i]
    BY <1>5, Rest
  <2>3. \A j \in 1..Len(queue) : client[queue[j]] = "queued" /\ wants[queue[j]] \in Deployments
    BY DEF QueueOK, Waiting
  <2>4. \A c \in Clients : (\A m \in 1..k : queue[m] # c) => F(k)[c] = client[c]
    OBVIOUS
  <2> HIDE DEF rest, F
  <2>5. \A i \in 1..Len(rest) : F(k)[rest[i]] = "queued" /\ wants[rest[i]] \in Deployments
    <3> TAKE i \in 1..Len(rest)
    <3>1. /\ rest[i] = queue[k + i] /\ k + i \in 1..Len(queue)
          /\ \A m \in 1..k : queue[m] # rest[i]
          /\ rest[i] \in Clients
      BY <2>1, <2>2
    <3> QED
      BY <2>3, <2>4, <3>1
  <2> QED
    BY <2>1, <2>5 DEF Waiting, rest
<1>7. F(k) \in Callers /\ \A c \in Clients : F(k)[c] \in {"granted", "holding"} <=> Leased(c)
  <2>1. \A c \in Clients : client[c] \notin {"granted", "holding"}
    BY <1>4 DEF LeaseHolders, Leased
  <2> QED
    BY <1>5, <2>1 DEF Callers, Leased
<1>8. PassInput(s(k))
  <2> HIDE DEF F
  <2> QED
    BY <1>3, <1>6, <1>7 DEF PassInput, Types, LockOK, Locks, Admits
<1>9. Admits' = (Admits /\ clean)
  BY <1>1 DEF Admits
<1>10. initialized' \in BOOLEAN /\ accepting' \in BOOLEAN /\ loaded' \in SUBSET Deployments
  BY <1>1 DEF Types
<1>11. /\ s(k).ep = epoch /\ s(k).r = None /\ s(k).open = (Admits /\ clean)
       /\ s(k).lk = lock /\ s(k).st = "degraded"
  OBVIOUS
<1> HIDE DEF s, F
<1> QED
  BY <1>1, <1>2, <1>4, <1>8, <1>9, <1>10, <1>11 DEF PassStart, Holds

\* The three ways into a pass.
LEMMA Passes ==
  ASSUME MacInv, DriverTurn \/ DriverPublish \/ DriverCleaned
  PROVE  \E s : PassStart(s)
<1>1. CASE DriverCleaned
  <2>1. PICK clean \in BOOLEAN : loaded' \in SUBSET loaded /\ AfterFailure(clean)
    BY <1>1 DEF DriverCleaned
  <2> QED
    BY <1>1, <2>1, FailureStarts DEF DriverCleaned
<1> QED
  BY <1>1, TurnStarts, PublishStarts

\* A pass keeps the invariant.
LEMMA PassSafe ==
  ASSUME MacInv, NEW s, PassStart(s)
  PROVE  MacInv'
<1> USE DEF MacInv
<1>1. PassInput(s) /\ PassCallers(s) /\ PassDriver(s)
  BY PassCounts, PassDrives DEF PassStart
<1>2. /\ lock' \in Locks /\ Distinct(lock')
      /\ "driver" \in Members(lock') => loading' # None /\ driver' \in {"lock", "unload"}
      /\ driver' = "unload" => lock' # <<>> /\ Head(lock') = "driver"
      /\ Members(lock') \subseteq Members(lock) \cup {"driver"}
      /\ \A o \in Slots : Holds(o) => lock' # <<>> /\ Head(lock') = o
  <2>1. /\ s.lk \in Locks /\ Distinct(s.lk) /\ "driver" \notin Members(s.lk)
        /\ Members(s.lk) \subseteq Members(lock)
        /\ \A o \in Slots : Holds(o) => s.lk # <<>> /\ Head(s.lk) = o
    BY <1>1 DEF PassInput, PassStart
  <2>2. CASE lock' = s.lk /\ driver' \in {"none", "wait"}
    BY <2>1, <2>2
  <2>3. CASE /\ lock' = Append(s.lk, "driver") /\ loading' \in Deployments
             /\ driver' = (IF s.lk = <<>> THEN "unload" ELSE "lock")
    <3>1. PICK lk \in Locks : lk = s.lk
      BY <2>1
    <3>2. /\ Append(lk, "driver") \in Locks /\ Distinct(Append(lk, "driver"))
          /\ Members(Append(lk, "driver")) = Members(lk) \cup {"driver"}
          /\ Append(lk, "driver") # <<>>
          /\ Head(Append(lk, "driver")) = IF lk = <<>> THEN "driver" ELSE Head(lk)
      BY <2>1, <3>1, Appended DEF Locks
    <3>3. loading' # None
      BY <2>3, MacResidencyAssumption
    <3> QED
      BY <2>1, <2>3, <3>1, <3>2, <3>3
  <2> QED
    BY <1>1, <2>2, <2>3 DEF PassDriver
<1>3. /\ op' \in [Slots -> Operation]
      /\ \A o \in Slots : /\ op'[o].kind = op[o].kind
                          /\ \/ op'[o].at = op[o].at
                             \/ op[o].at = "driver" /\ op'[o].at = "driverdone"
                          /\ op'[o].at = "driverdone" => driver' = "none" \/ op[o].at = "driverdone"
                          /\ op'[o].at = "driver" => driver' # "none"
  BY <1>1, Gone DEF PassDriver, Types
<1>4. Types'
  <2>1. /\ client' \in Callers /\ leaseEpoch' \in [Clients -> Nat] /\ queue' \in Seq(Clients)
        /\ inflight' \in Nat
    <3>1. IsFiniteSet(LeaseHolders')
      BY FS_Subset, MacResidencyAssumption DEF LeaseHolders
    <3> QED
      BY <1>1, <3>1, FS_CardinalityType DEF PassCallers
  <2>2. loading' \in Deployments \cup {None} /\ driver' \in {"none", "wait", "lock", "unload"}
    BY <1>1 DEF PassDriver
  <2>3. /\ wants' = wants /\ epoch' \in Nat /\ resident' \in Deployments \cup {None}
        /\ initialized' \in BOOLEAN /\ accepting' \in BOOLEAN /\ stopping' = stopping
        /\ loaded' \in SUBSET Deployments /\ faults' = faults /\ drifts' = drifts
    BY <1>1 DEF PassStart, PassInput, bounds
  <2> QED
    BY <1>2, <1>3, <2>1, <2>2, <2>3 DEF Types, Callers, Locks, Switching
<1>5. QueueOK'
  BY <1>1 DEF PassStart, PassCallers, QueueOK, Waiting
<1>6. CountOK'
  <2>1. \A c \in LeaseHolders' : leaseEpoch'[c] = epoch' /\ wants'[c] \in Deployments
    BY <1>1 DEF PassStart, PassCallers, CountOK
  <2> QED
    BY <1>1, <2>1 DEF PassCallers, CountOK
<1>7. ServedOK'
  <2>1. \A c \in LeaseHolders' : /\ ~stopping' => resident' = wants'[c]
                                 /\ drifts' = 0 => loaded' = {wants'[c]}
    <3> TAKE c \in LeaseHolders'
    <3>1. CASE c \in LeaseHolders
      BY <3>1 DEF PassStart, ServedOK, LeaseServed, bounds
    <3>2. CASE c \notin LeaseHolders
      BY <1>1, <3>2, MacResidencyAssumption DEF PassStart, PassCallers, bounds
    <3> QED
      BY <3>1, <3>2
  <2>2. (drifts' = 0 /\ Admits' /\ resident' # None) => loaded' = {resident'}
    BY DEF PassStart, bounds
  <2> QED
    BY <2>1, <2>2 DEF ServedOK, LeaseServed
<1>8. SwitchOK'
  BY <1>1, MacResidencyAssumption DEF PassDriver, SwitchOK, Switching
<1>9. FenceOK'
  <2> SUFFICES ASSUME NEW o \in Slots
               PROVE  /\ op'[o].kind = "none" <=> op'[o].at = "none"
                      /\ op'[o].kind \notin {"none", "audit"} => ~Admits'
                      /\ op'[o].kind = "audit" => op'[o].at \in {"lock", "work", "compare"}
                      /\ (op'[o].kind \notin {"none", "audit"}
                            /\ op'[o].at \in {"driverdone", "lock"} \cup Inside) => driver' = "none"
                      /\ (op'[o].kind \notin {"none", "audit"} /\ op'[o].at # "drain") => inflight' = 0
                      /\ op'[o].at = "compare" => op'[o].kind = "audit"
                      /\ op'[o].at = "driver" => driver' # "none"
                      /\ op'[o].kind = "shutdown" => stopping'
    BY DEF FenceOK, Fenced
  <2>1. Admits' => Admits
    BY DEF PassStart
  <2>2. driver # "none" /\ stopping' = stopping
    BY DEF PassStart
  <2>3. ~Admits' => inflight' = inflight
    <3> SUFFICES ASSUME ~Admits' PROVE inflight' = inflight
      OBVIOUS
    <3>1. LeaseHolders' = LeaseHolders
      BY <1>1 DEF PassCallers, PassStart
    <3> QED
      BY <1>1, <3>1 DEF PassCallers, CountOK
  <2> QED
    BY <1>3, <2>1, <2>2, <2>3 DEF FenceOK, Fenced, Inside
<1>10. FreshOK'
  BY <1>1 DEF PassStart, PassDriver, PassCallers, FreshOK, Admits
<1>11. LockOK'
  <2>1. driver' \in {"none", "wait", "lock", "unload"}
    BY <1>1 DEF PassDriver
  <2>2. driver # "none" /\ \A o \in Slots : op'[o].at \in Inside => op[o].at \in Inside
    BY <1>3 DEF PassStart, Inside
  <2>3. \A o \in Slots : o \in Members(lock') => o \in Members(lock)
    BY <1>2, MacResidencyAssumption
  <2>4. \A o \in Slots : op[o].at \in {"lock"} \cup Inside => op'[o].at \in {"lock"} \cup Inside
    BY <1>3 DEF Inside
  <2> QED
    BY <1>2, <2>1, <2>2, <2>3, <2>4 DEF LockOK, Holds
<1> QED
  BY <1>4, <1>5, <1>6, <1>7, <1>8, <1>9, <1>10, <1>11

-----------------------------------------------------------------------------
(* The callers                                                              *)

\* A step that returns leases, or grants one where acquire may, and at most wakes
\* the driver keeps the rest of the invariant.
LEMMA WokenSafe ==
  ASSUME MacInv, inflight' \in Nat,
         inflight' <= inflight \/ (Admits /\ loading = None),
         driver' \in {driver, Notified(driver)} \/ (Admits /\ driver' = Ensured(driver)),
         UNCHANGED <<state, target, gates, loading, op, lock>>
  PROVE  SwitchOK' /\ FenceOK' /\ FreshOK' /\ LockOK'
<1> USE DEF MacInv
<1>1. /\ driver' = driver \/ (driver \in {"wait", "none"} /\ driver' = "run")
      /\ driver = "none" /\ driver' # "none" => Admits
  BY DEF Notified, Ensured
<1>2. Admits' = Admits /\ initialized' = initialized /\ stopping' = stopping
  BY DEF Admits, gates
<1>3. inflight = 0 => inflight' = 0 \/ (Admits /\ loading = None)
  BY DEF Types
<1>4. SwitchOK'
  BY <1>1, <1>2, <1>3 DEF SwitchOK, Switching
<1>5. FenceOK'
  BY <1>1, <1>2, <1>3 DEF FenceOK, Fenced
<1>6. FreshOK'
  BY <1>1, <1>2, <1>3 DEF FreshOK, Admits
<1>7. LockOK'
  BY <1>1 DEF LockOK, Holds
<1> QED
  BY <1>4, <1>5, <1>6, <1>7

\* A lease comes back: it is of this epoch, so it is counted down.
LEMMA Returned ==
  ASSUME MacInv, NEW c \in LeaseHolders, inflight' = Released(leaseEpoch[c]),
         LeaseHolders' = LeaseHolders \ {c}, epoch' = epoch,
         \A b \in Clients \ {c} : wants'[b] = wants[b] /\ leaseEpoch'[b] = leaseEpoch[b]
  PROVE  /\ CountOK' /\ inflight' \in Nat /\ inflight' = inflight - 1
<1>1. inflight = Cardinality(LeaseHolders) /\ inflight \in Nat /\ leaseEpoch[c] = epoch
  BY DEF MacInv, CountOK, Types
<1>2. Cardinality(LeaseHolders \ {c}) = Cardinality(LeaseHolders) - 1
  BY Holders, FS_RemoveElement
<1>3. inflight > 0
  BY <1>1, Holders
<1>4. inflight' = inflight - 1
  BY <1>1, <1>3 DEF Released
<1>5. inflight' = Cardinality(LeaseHolders')
  BY <1>1, <1>2, <1>4
<1>6. \A b \in LeaseHolders' : leaseEpoch'[b] = epoch' /\ wants'[b] \in Deployments
  BY DEF MacInv, CountOK, LeaseHolders
<1> QED
  BY <1>1, <1>3, <1>4, <1>5, <1>6 DEF CountOK

\* The leases that stay are served as before.
LEMMA ServedKept ==
  ASSUME MacInv, LeaseHolders' \subseteq LeaseHolders,
         \A b \in LeaseHolders' : wants'[b] = wants[b],
         UNCHANGED <<resident, loaded, drifts>>,
         stopping => stopping', Admits' => Admits, loading # None => loading' # None \/ ~Admits'
  PROVE  ServedOK'
BY DEF MacInv, ServedOK, LeaseServed

\* A caller that does not wait changes: the queue stays.
LEMMA OthersWait ==
  ASSUME MacInv, NEW c \in Clients, client[c] # "queued", queue' = queue, Admits' = Admits,
         \A b \in Clients \ {c} : client'[b] = client[b] /\ wants'[b] = wants[b]
  PROVE  QueueOK'
<1>1. \A i \in 1..Len(queue) : queue[i] # c /\ queue[i] \in Clients
  BY DEF MacInv, Types, QueueOK, Waiting
<1>2. \A i \in 1..Len(queue) :
         client'[queue[i]] = "queued" /\ wants'[queue[i]] \in Deployments
  BY <1>1 DEF MacInv, QueueOK, Waiting
<1> QED
  BY <1>2 DEF MacInv, QueueOK, Waiting, Distinct

\* The immediate grant is on the resident, which no switch is under way from.
LEMMA WarmSafe ==
  ASSUME MacInv, NEW c \in Clients, NEW d \in Deployments, AcquireWarm(c, d)
  PROVE  MacInv'
<1> USE DEF MacInv
<1>1. /\ client[c] = "idle" /\ Admits /\ resident = d /\ target = None
      /\ inflight' = inflight + 1
      /\ client' = [client EXCEPT ![c] = "holding"]
      /\ wants' = [wants EXCEPT ![c] = d]
      /\ leaseEpoch' = [leaseEpoch EXCEPT ![c] = epoch]
      /\ UNCHANGED <<queue, epoch, resident, state, target, gates, driver, loading,
                     op, lock, loaded, faults, drifts>>
  BY DEF AcquireWarm, FreePermit, bounds
<1>2. loading = None /\ Admits' = Admits
  BY <1>1 DEF SwitchOK, Admits, gates
<1>3. LeaseHolders' = LeaseHolders \cup {c} /\ c \notin LeaseHolders
  BY <1>1 DEF LeaseHolders, Leased, Types
<1>4. Types'
  BY <1>1 DEF Types, gates
<1>5. QueueOK'
  BY <1>1, <1>2, OthersWait DEF Types
<1>6. CountOK'
  <2>1. Cardinality(LeaseHolders') = Cardinality(LeaseHolders) + 1
    BY <1>3, Holders, FS_AddElement
  <2>2. \A b \in LeaseHolders' : leaseEpoch'[b] = epoch' /\ wants'[b] \in Deployments
    BY <1>1, <1>3 DEF CountOK, Types, LeaseHolders
  <2> QED
    BY <1>1, <2>1, <2>2 DEF CountOK
<1>7. ServedOK'
  <2>1. drifts = 0 => loaded = {d}
    BY <1>1, <1>2, MacResidencyAssumption DEF ServedOK
  <2>2. \A b \in LeaseHolders' : wants'[b] = IF b = c THEN d ELSE wants[b]
    BY <1>1 DEF Types, LeaseHolders
  <2> QED
    BY <1>1, <1>2, <1>3, <2>1, <2>2 DEF ServedOK, LeaseServed, gates
<1>8. SwitchOK' /\ FenceOK' /\ FreshOK' /\ LockOK'
  BY <1>1, <1>2, WokenSafe DEF Types
<1> QED
  BY <1>4, <1>5, <1>6, <1>7, <1>8

\* A caller that queues is a new waiter and has a driver.
LEMMA QueuedSafe ==
  ASSUME MacInv, NEW c \in Clients, NEW d \in Deployments, AcquireQueued(c, d)
  PROVE  MacInv'
<1> USE DEF MacInv
<1>1. /\ client[c] = "idle" /\ Admits
      /\ queue' = Append(queue, c)
      /\ client' = [client EXCEPT ![c] = "queued"]
      /\ wants' = [wants EXCEPT ![c] = d]
      /\ driver' = Ensured(driver)
      /\ UNCHANGED <<leaseEpoch, inflight, epoch, resident, state, target, gates,
                     loading, op, lock, loaded, faults, drifts>>
  BY DEF AcquireQueued, bounds
<1>2. Admits' = Admits
  BY <1>1 DEF Admits, gates
<1>3. LeaseHolders' = LeaseHolders /\ c \notin LeaseHolders
  BY <1>1 DEF LeaseHolders, Leased, Types
<1>4. Types'
  <2>1. driver' \in {driver, "run"}
    BY <1>1 DEF Ensured, Notified
  <2> QED
    BY <1>1, <2>1 DEF Types, gates
<1>5. QueueOK'
  <2>1. queue \in Seq(Clients) /\ Distinct(queue) /\ c \notin Members(queue)
    BY <1>1 DEF Types, QueueOK, Waiting, Members
  <2>2. Distinct(queue') /\ Members(queue') = Members(queue) \cup {c}
    BY <1>1, <2>1, Appended
  <2>3. \A b \in Members(queue) : b \in Clients /\ client[b] = "queued" /\ wants[b] \in Deployments
    BY <2>1 DEF QueueOK, Waiting, Members
  <2>4. \A b \in Members(queue') : client'[b] = "queued" /\ wants'[b] \in Deployments
    BY <1>1, <2>2, <2>3 DEF Types
  <2> QED
    BY <1>1, <1>2, <2>2, <2>4 DEF QueueOK, Waiting, Members
<1>6. \A b \in LeaseHolders : wants'[b] = wants[b]
  BY <1>1, <1>3 DEF Types, LeaseHolders
<1>7. CountOK'
  BY <1>1, <1>3, <1>6 DEF CountOK
<1>8. ServedOK'
  BY <1>1, <1>2, <1>3, <1>6, ServedKept DEF gates
<1>9. SwitchOK' /\ FenceOK' /\ FreshOK' /\ LockOK'
  BY <1>1, WokenSafe DEF Types
<1> QED
  BY <1>4, <1>5, <1>7, <1>8, <1>9

\* A caller that resumes keeps the lease it was granted, or leaves with its error.
LEMMA ResumeSafe ==
  ASSUME MacInv, NEW c \in Clients, Resume(c)
  PROVE  MacInv'
<1> USE DEF MacInv
<1>1. /\ client[c] \in {"granted", "failed"}
      /\ client' = [client EXCEPT ![c] = IF client[c] = "granted" THEN "holding" ELSE "idle"]
      /\ wants' = [wants EXCEPT ![c] = IF client[c] = "granted" THEN wants[c] ELSE None]
      /\ UNCHANGED <<leaseEpoch, queue, inflight, epoch, resident, state, target,
                     gates, driver, loading, op, lock, loaded, faults, drifts>>
  BY DEF Resume, bounds, Types
<1>2. Admits' = Admits
  BY <1>1 DEF Admits, gates
<1>3. LeaseHolders' = LeaseHolders
  BY <1>1 DEF LeaseHolders, Leased, Types
<1>4. Types'
  BY <1>1 DEF Types, gates
<1>5. QueueOK'
  BY <1>1, <1>2, OthersWait DEF Types
<1>6. \A b \in LeaseHolders : wants'[b] = wants[b]
  BY <1>1 DEF Types, LeaseHolders, Leased
<1>7. CountOK'
  BY <1>1, <1>3, <1>6 DEF CountOK
<1>8. ServedOK'
  BY <1>1, <1>2, <1>3, <1>6, ServedKept DEF gates
<1>9. SwitchOK' /\ FenceOK' /\ FreshOK' /\ LockOK'
  BY <1>1, WokenSafe DEF Types
<1> QED
  BY <1>4, <1>5, <1>7, <1>8, <1>9

\* acquire gives up, or a response ends.
LEMMA LeaveSafe ==
  ASSUME MacInv, NEW c \in Clients, AbandonWait(c) \/ Release(c)
  PROVE  MacInv'
<1> USE DEF MacInv
<1>1. /\ client[c] # "idle"
      /\ inflight' = IF Leased(c) THEN Released(leaseEpoch[c]) ELSE inflight
      /\ client' = [client EXCEPT ![c] = "idle"]
      /\ wants' = [wants EXCEPT ![c] = None]
      /\ queue' = Without(queue, c) \/ (client[c] # "queued" /\ queue' = queue)
      /\ driver' = Notified(driver) \/ (queue # <<>> /\ driver' = Ensured(driver))
      /\ leaseEpoch' = [leaseEpoch EXCEPT ![c] = 0]
      /\ UNCHANGED <<epoch, resident, state, target, gates, loading, op,
                     lock, loaded, faults, drifts>>
  BY DEF AbandonWait, Release, Leased, bounds
<1>2. Admits' = Admits /\ (queue # <<>> => Admits)
  BY <1>1 DEF Admits, gates, QueueOK
<1>3. LeaseHolders' = LeaseHolders \ {c} /\ (Leased(c) => c \in LeaseHolders)
  BY <1>1 DEF LeaseHolders, Leased, Types
<1>4. \A b \in Clients \ {c} : /\ client'[b] = client[b] /\ wants'[b] = wants[b]
                               /\ leaseEpoch'[b] = leaseEpoch[b]
  BY <1>1 DEF Types
<1>5. CountOK' /\ inflight' \in Nat /\ inflight' <= inflight
  <2>1. CASE Leased(c)
    BY <1>1, <1>3, <1>4, <2>1, Returned DEF Types
  <2>2. CASE ~Leased(c)
    <3>1. inflight' = inflight /\ LeaseHolders' = LeaseHolders /\ c \notin LeaseHolders
      BY <1>1, <1>3, <2>2 DEF LeaseHolders
    <3>2. \A b \in LeaseHolders : wants'[b] = wants[b] /\ leaseEpoch'[b] = leaseEpoch[b]
      BY <1>4, <3>1 DEF LeaseHolders
    <3>3. CountOK'
      BY <1>1, <3>1, <3>2 DEF CountOK
    <3> QED
      BY <3>1, <3>3 DEF Types
  <2> QED
    BY <2>1, <2>2
<1>6. QueueOK' /\ queue' \in Seq(Clients)
  <2>1. CASE queue' = Without(queue, c)
    <3>1. queue \in Seq(Clients) /\ Distinct(queue)
      BY DEF Types, QueueOK, Waiting
    <3>2. /\ queue' \in Seq(Clients) /\ Distinct(queue')
          /\ Members(queue') = Members(queue) \ {c}
      BY <2>1, <3>1, Removed
    <3>3. \A b \in Members(queue) : b \in Clients /\ client[b] = "queued" /\ wants[b] \in Deployments
      BY <3>1 DEF QueueOK, Waiting, Members
    <3>4. \A b \in Members(queue') : client'[b] = "queued" /\ wants'[b] \in Deployments
      BY <1>4, <3>2, <3>3
    <3>5. queue = <<>> => queue' = <<>>
      <4> SUFFICES ASSUME queue = <<>>, queue' # <<>> PROVE FALSE
        OBVIOUS
      <4>1. Members(queue') = {}
        BY <3>2 DEF Members
      <4>2. 1 \in 1..Len(queue')
        BY <3>2
      <4> QED
        BY <4>1, <4>2 DEF Members
    <3> QED
      BY <1>2, <3>2, <3>4, <3>5 DEF QueueOK, Waiting, Members
  <2>2. CASE client[c] # "queued" /\ queue' = queue
    BY <1>2, <1>4, <2>2, OthersWait DEF Types
  <2> QED
    BY <1>1, <2>1, <2>2
<1>7. Types'
  <2>1. driver' \in {driver, "run"}
    BY <1>1 DEF Ensured, Notified
  <2> QED
    BY <1>1, <1>5, <1>6, <2>1 DEF Types, gates
<1>8. ServedOK'
  BY <1>1, <1>2, <1>3, <1>4, ServedKept DEF gates, LeaseHolders
<1>9. SwitchOK' /\ FenceOK' /\ FreshOK' /\ LockOK'
  BY <1>1, <1>2, <1>5, WokenSafe DEF Types
<1> QED
  BY <1>5, <1>6, <1>7, <1>8, <1>9

-----------------------------------------------------------------------------
(* The driver between two passes                                            *)

\* A step that leaves the callers alone and closes the gates only over an empty
\* queue
LEMMA CallersKept ==
  ASSUME MacInv, UNCHANGED <<requests, epoch>>, ~Admits' => ~Admits \/ queue = <<>>
  PROVE  QueueOK' /\ CountOK' /\ LeaseHolders' = LeaseHolders
<1>1. LeaseHolders' = LeaseHolders
  BY DEF requests, LeaseHolders, Leased
<1>2. QueueOK'
  BY DEF requests, MacInv, QueueOK, Waiting, Distinct
<1>3. CountOK'
  BY <1>1 DEF requests, MacInv, CountOK
<1> QED
  BY <1>1, <1>2, <1>3

\* What the driver does to the lock's queue outside its passes: nothing, or it leaves.
LEMMA DriverLeaves ==
  ASSUME MacInv, lock' = lock \/ lock' = Without(lock, "driver")
  PROVE  /\ lock' \in Locks /\ Distinct(lock') /\ Members(lock') \subseteq Members(lock)
         /\ lock' = Without(lock, "driver") => "driver" \notin Members(lock')
         /\ \A o \in Slots : Holds(o) => Holds(o)'
<1>1. lock \in Locks /\ Distinct(lock)
  BY DEF MacInv, Types, LockOK, Locks
<1>2. CASE lock' = Without(lock, "driver")
  <2>1. /\ lock' \in Locks /\ Distinct(lock') /\ Members(lock') = Members(lock) \ {"driver"}
        /\ (lock # <<>> /\ Head(lock) # "driver") => lock' # <<>> /\ Head(lock') = Head(lock)
    BY <1>1, <1>2, Removed DEF Locks
  <2> QED
    BY <2>1, MacResidencyAssumption DEF Holds
<1>3. CASE lock' = lock /\ lock' # Without(lock, "driver")
  BY <1>1, <1>3 DEF Holds
<1> QED
  BY <1>2, <1>3

\* A switch that goes on, or fails
LEMMA SwitchSafe ==
  ASSUME MacInv, DriverLocked \/ DriverUnloaded \/ DriverLoaded \/ DriverRaises
  PROVE  MacInv'
<1> USE DEF MacInv
<1>1. /\ driver \in {"lock", "unload", "load", "verify"}
      /\ driver' \in {"unload", "load", "verify", "clean"}
      /\ driver' # "clean" => lock' = lock /\ (driver = "lock" => Holds("driver"))
      /\ driver' = "clean" => lock' = Without(lock, "driver") /\ state' = state
      /\ state' \in {state, "unloading", "loading", "verifying"}
      /\ UNCHANGED <<requests, epoch, resident, target, gates, loading, op, drifts>>
  BY DEF DriverLocked, DriverUnloaded, DriverLoaded, DriverRaises, bounds
<1>2. loading # None /\ inflight = 0 /\ LeaseHolders = {}
  BY <1>1, NoneOut DEF SwitchOK, Switching
<1>3. loaded' \in SUBSET Deployments /\ faults' \in Nat
  <2>1. loading \in Deployments /\ loaded \in SUBSET Deployments /\ faults \in Nat
    BY <1>2 DEF Types
  <2>2. CASE DriverRaises
    <3>1. loaded' \subseteq loaded \cup {loading} /\ faults' \in {faults, faults + 1}
      BY <2>2 DEF DriverRaises
    <3> QED
      BY <2>1, <3>1
  <2> QED
    BY <2>1, <2>2 DEF DriverLocked, DriverUnloaded, DriverLoaded, bounds
<1>4. /\ lock' \in Locks /\ Distinct(lock') /\ Members(lock') \subseteq Members(lock)
      /\ lock' = Without(lock, "driver") => "driver" \notin Members(lock')
      /\ \A o \in Slots : Holds(o) => Holds(o)'
  BY <1>1, DriverLeaves
<1>5. Admits' = Admits /\ initialized' = initialized /\ stopping' = stopping
  BY <1>1 DEF Admits, gates
<1>6. QueueOK' /\ CountOK' /\ LeaseHolders' = LeaseHolders
  BY <1>1, <1>5, CallersKept
<1>7. Types'
  BY <1>1, <1>3, <1>4 DEF Types, requests, gates, Switching, Locks
<1>8. ServedOK'
  BY <1>1, <1>2, <1>6 DEF ServedOK, LeaseServed
<1>9. SwitchOK'
  BY <1>1, <1>5 DEF SwitchOK, Switching, requests
<1>10. FenceOK'
  BY <1>1, <1>5 DEF FenceOK, Fenced, requests
<1>11. FreshOK'
  BY <1>1, <1>5 DEF FreshOK
<1>12. LockOK'
  <2>1. driver' \in {"unload", "load", "verify"} => Holds("driver")'
    BY <1>1 DEF LockOK, Holds
  <2>2. "driver" \in Members(lock')
          => loading' # None /\ driver' \in {"lock", "unload", "load", "verify", "cancelled"}
    BY <1>1, <1>2, <1>4
  <2>3. \A o \in Slots : /\ op'[o].at \in Inside => Holds(o)'
                         /\ o \in Members(lock') => op'[o].at \in {"lock"} \cup Inside
    BY <1>1, <1>4 DEF LockOK
  <2> QED
    BY <1>4, <2>1, <2>2, <2>3 DEF LockOK
<1> QED
  BY <1>6, <1>7, <1>8, <1>9, <1>10, <1>11, <1>12

\* A cancelled driver ends; gates that are shut leave it no successor.
LEMMA CancelledSafe ==
  ASSUME MacInv, DriverCancelled
  PROVE  MacInv'
<1> USE DEF MacInv
<1>1. /\ driver = "cancelled" /\ lock' = Without(lock, "driver") /\ loading' = None
      /\ op' = DriverLost(op)
      /\ UNCHANGED <<requests, epoch, resident, state, target, gates, faults, drifts>>
  BY DEF DriverCancelled, bounds
<1>2. ~Admits /\ queue = <<>>
  BY <1>1 DEF SwitchOK, QueueOK
<1>3. driver' = "none"
  BY <1>2 DEF DriverCancelled
<1>4. /\ loaded' \in SUBSET Deployments
      /\ loaded' = loaded \/ loading # None
  <2>1. Holds("driver") => "driver" \in Members(lock)
    <3> SUFFICES ASSUME Holds("driver") PROVE "driver" \in Members(lock)
      OBVIOUS
    <3>1. lock # <<>> /\ lock[1] = "driver" /\ lock \in Locks
      BY DEF Holds, Types, Locks
    <3>2. 1 \in 1..Len(lock)
      BY <3>1 DEF Locks
    <3> QED
      BY <3>1, <3>2 DEF Members
  <2>2. "driver" \in Members(lock) => loading # None
    BY DEF LockOK
  <2>3. loaded \in SUBSET Deployments /\ loading \in Deployments \cup {None}
    BY DEF Types
  <2> QED
    BY <2>1, <2>2, <2>3 DEF DriverCancelled
<1>5. loading # None => LeaseHolders = {}
  BY NoneOut DEF SwitchOK
<1>6. /\ lock' \in Locks /\ Distinct(lock') /\ Members(lock') \subseteq Members(lock)
      /\ "driver" \notin Members(lock')
      /\ \A o \in Slots : Holds(o) => Holds(o)'
  BY <1>1, DriverLeaves
<1>7. Admits' = Admits /\ initialized' = initialized /\ stopping' = stopping
  BY <1>1 DEF Admits, gates
<1>8. QueueOK' /\ CountOK' /\ LeaseHolders' = LeaseHolders
  BY <1>1, <1>7, CallersKept
<1>9. /\ op' \in [Slots -> Operation]
      /\ \A o \in Slots : /\ op'[o].kind = op[o].kind
                          /\ IF op[o].at = "driver" THEN op'[o].at \in {"driverdone", "driverlost"}
                                                     ELSE op'[o].at = op[o].at
  BY <1>1, Lost
<1>10. Types'
  BY <1>1, <1>3, <1>4, <1>6, <1>9 DEF Types, requests, gates, Locks
<1>11. ServedOK'
  BY <1>1, <1>2, <1>4, <1>5, <1>7, <1>8 DEF ServedOK, LeaseServed, requests
<1>12. SwitchOK'
  BY <1>1, <1>3 DEF SwitchOK, Switching
<1>13. FenceOK'
  BY <1>1, <1>3, <1>7, <1>9 DEF FenceOK, Fenced, Inside, requests
<1>14. FreshOK'
  BY <1>1, <1>3, <1>7 DEF FreshOK, requests
<1>15. LockOK'
  BY <1>3, <1>6, <1>9 DEF LockOK, Inside
<1> QED
  BY <1>8, <1>10, <1>11, <1>12, <1>13, <1>14, <1>15

\* Every step of the driver keeps the invariant.
LEMMA DriverSafe ==
  ASSUME MacInv, DriverStep
  PROVE  MacInv'
<1>1. CASE DriverTurn \/ DriverPublish \/ DriverCleaned
  BY <1>1, Passes, PassSafe
<1> QED
  BY <1>1, SwitchSafe, CancelledSafe DEF DriverStep

-----------------------------------------------------------------------------
(* The operations                                                           *)

\* An operation's step takes leases away from callers, if anything.
CallersAfter ==
    /\ client' \in Callers /\ wants' \in [Clients -> Deployments \cup {None}]
    /\ leaseEpoch' \in [Clients -> Nat] /\ queue' \in Seq(Clients)
    /\ inflight' \in Nat /\ inflight' <= inflight
    /\ QueueOK' /\ CountOK'
    /\ \A c \in LeaseHolders' : c \in LeaseHolders /\ wants'[c] = wants[c]

\* It moves its own place in the lock's queue, nobody else's.
LockAfter(o) ==
    /\ lock' \in Locks /\ Distinct(lock')
    /\ "driver" \in Members(lock') => "driver" \in Members(lock)
    /\ Holds("driver") => Holds("driver")'
    /\ op'[o].at \in Inside => Holds(o)'
    /\ o \in Members(lock') => op'[o].at \in {"lock"} \cup Inside

\* It touches the engines and the resident only beneath no lease, and opens the
\* gates only over the resident the engines hold.
GatesAfter(o) ==
    /\ initialized' \in BOOLEAN /\ accepting' \in BOOLEAN /\ stopping' \in BOOLEAN
    /\ resident' \in Deployments \cup {None} /\ loaded' \in SUBSET Deployments
    /\ faults' \in Nat /\ op' \in [Slots -> Operation]
    /\ UNCHANGED <<epoch, loading, drifts>>
    /\ driver' \in {driver, Notified(driver)} \/ (driver # "none" /\ driver' = "cancelled")
    /\ driver' = "cancelled" => ~Admits' /\ (stopping' \/ inflight' = 0)
    /\ \/ LeaseHolders = {}
       \/ loaded' = loaded /\ (resident' = resident \/ stopping') /\ (stopping => stopping')
    /\ (drifts = 0 /\ Admits' /\ resident' # None /\ loading = None) => loaded' = {resident'}
    /\ (loading # None /\ Admits') => target' # None
    /\ (~initialized' /\ ~stopping' /\ state' = "idle") => driver' = "none" /\ inflight' = 0
    /\ Fenced(o)'

\* A step of the one operation keeps the invariant, if callers, lock and gates are
\* as they should be after it.
LEMMA OpSafe ==
  ASSUME MacInv, Solo, NEW o \in Slots, CallersAfter, LockAfter(o), GatesAfter(o)
  PROVE  MacInv'
<1> USE DEF MacInv
<1>1. /\ driver' = driver \/ (driver = "wait" /\ driver' = "run")
         \/ (driver # "none" /\ driver' = "cancelled")
      /\ driver' = "cancelled" => ~Admits' /\ (stopping' \/ inflight' = 0)
  BY DEF GatesAfter, Notified
<1>2. \A p \in Slots : p = o
  BY DEF Solo
<1>3. Types'
  BY <1>1 DEF CallersAfter, LockAfter, GatesAfter, Types, Callers, Locks
<1>4. ServedOK'
  <2>1. \A c \in LeaseHolders' : /\ ~stopping' => resident' = wants'[c]
                                 /\ drifts' = 0 => loaded' = {wants'[c]}
    BY DEF CallersAfter, GatesAfter, ServedOK, LeaseServed
  <2> QED
    BY <2>1 DEF GatesAfter, ServedOK, LeaseServed
<1>5. SwitchOK'
  <2>1. inflight = 0 => inflight' = 0
    BY DEF CallersAfter, Types
  <2> QED
    BY <1>1, <2>1 DEF GatesAfter, SwitchOK, Switching
<1>6. FenceOK'
  BY <1>2 DEF GatesAfter, FenceOK
<1>7. FreshOK'
  BY DEF GatesAfter, FreshOK
<1>8. LockOK'
  BY <1>1, <1>2 DEF GatesAfter, LockAfter, LockOK
<1> QED
  BY <1>3, <1>4, <1>5, <1>6, <1>7, <1>8 DEF CallersAfter

\* A step that leaves the callers and the epoch alone leaves them as they should
\* be.
LEMMA CallersStay ==
  ASSUME MacInv, UNCHANGED <<requests, epoch>>, ~Admits' => ~Admits \/ queue = <<>>
  PROVE  CallersAfter
<1>1. QueueOK' /\ CountOK' /\ LeaseHolders' = LeaseHolders
  BY CallersKept
<1> QED
  BY <1>1 DEF CallersAfter, MacInv, Types, Callers, requests

\* The waiters fail, and nothing else changes for a caller.
LEMMA WaitersFail ==
  ASSUME MacInv, ~Admits', queue' = <<>>, UNCHANGED <<wants, leaseEpoch, inflight, epoch>>,
         client' = [c \in Clients |-> IF c \in Members(queue) THEN "failed" ELSE client[c]]
  PROVE  CallersAfter
<1> USE DEF MacInv
<1>1. \A c \in Members(queue) : client[c] = "queued"
  BY DEF QueueOK, Waiting, Members
<1>2. LeaseHolders' = LeaseHolders
  BY <1>1 DEF LeaseHolders, Leased
<1>3. client' \in Callers /\ queue' \in Seq(Clients)
  BY DEF Types, Callers
<1>4. QueueOK'
  BY DEF QueueOK, Waiting, Distinct
<1>5. CountOK'
  BY <1>2 DEF CountOK
<1> QED
  BY <1>2, <1>3, <1>4, <1>5 DEF CallersAfter, Types

\* Setting a slot
LEMMA SlotSet ==
  ASSUME Types, NEW o \in Slots, NEW k \in Kinds \cup {"none", "init", "reconcile"},
         NEW a \in {"none", "drain", "driver", "driverdone", "driverlost", "lock"} \cup Inside,
         op' = At(o, k, a)
  PROVE  op' \in [Slots -> Operation] /\ op'[o].kind = k /\ op'[o].at = a
<1>1. PICK r : r = [kind |-> k, at |-> a, seen |-> {}]
  OBVIOUS
<1>2. r \in Operation /\ r.kind = k /\ r.at = a
  BY <1>1 DEF Operation
<1>3. op' = [op EXCEPT ![o] = r]
  BY <1>1 DEF At
<1> QED
  BY <1>2, <1>3 DEF Types

\* The slot of an operation that has ended is free.
LEMMA SlotDone ==
  ASSUME Types, NEW o \in Slots, op' = Done(o)
  PROVE  op' \in [Slots -> Operation] /\ op'[o].kind = "none" /\ op'[o].at = "none"
<1>1. op' = At(o, "none", "none")
  BY DEF Done, At, NoOp
<1> QED
  BY <1>1, SlotSet

\* Whose turn it is
LEMMA HeadIn ==
  ASSUME Types, NEW x, Holds(x)
  PROVE  x \in Members(lock)
<1>1. lock # <<>> /\ lock[1] = x /\ lock \in Locks
  BY DEF Holds, Types, Locks
<1>2. 1 \in 1..Len(lock)
  BY <1>1 DEF Locks
<1> QED
  BY <1>1, <1>2 DEF Members

\* An operation stays where it is in the lock's queue,
LEMMA LockStays ==
  ASSUME MacInv, NEW o \in Slots, lock' = lock,
         op'[o].at \in Inside => Holds(o),
         o \in Members(lock) => op'[o].at \in {"lock"} \cup Inside
  PROVE  LockAfter(o)
BY DEF MacInv, Types, LockOK, Locks, LockAfter, Holds

\* joins it,
LEMMA LockJoins ==
  ASSUME MacInv, NEW o \in Slots, o \notin Members(lock), lock' = Append(lock, o),
         op'[o].at = IF lock = <<>> THEN "work" ELSE "lock"
  PROVE  LockAfter(o)
<1>1. lock \in Locks /\ Distinct(lock)
  BY DEF MacInv, Types, LockOK, Locks
<1>2. /\ lock' \in Locks /\ Distinct(lock') /\ Members(lock') = Members(lock) \cup {o}
      /\ lock' # <<>> /\ Head(lock') = IF lock = <<>> THEN o ELSE Head(lock)
  BY <1>1, Appended DEF Locks
<1>3. "driver" # o
  BY MacResidencyAssumption
<1> QED
  BY <1>2, <1>3 DEF LockAfter, Holds, Inside

\* or leaves it.
LEMMA LockLeaves ==
  ASSUME MacInv, NEW o \in Slots,
         lock' = Without(lock, o) \/ (Holds(o) /\ lock' = Tail(lock)),
         op'[o].at \notin Inside
  PROVE  LockAfter(o)
<1>1. lock \in Locks /\ Distinct(lock)
  BY DEF MacInv, Types, LockOK, Locks
<1>2. "driver" # o
  BY MacResidencyAssumption
<1>3. CASE lock' = Without(lock, o)
  <2>1. /\ lock' \in Locks /\ Distinct(lock') /\ Members(lock') = Members(lock) \ {o}
        /\ (lock # <<>> /\ Head(lock) # o) => lock' # <<>> /\ Head(lock') = Head(lock)
    BY <1>1, <1>3, Removed DEF Locks
  <2> QED
    BY <1>2, <2>1 DEF LockAfter, Holds
<1>4. CASE Holds(o) /\ lock' = Tail(lock)
  <2>1. lock # <<>> /\ Head(lock) = o
    BY <1>4 DEF Holds
  <2>2. lock' \in Locks /\ Distinct(lock') /\ Members(lock') = Members(lock) \ {o}
    BY <1>1, <1>4, <2>1, Dropped DEF Locks
  <2> QED
    BY <1>2, <2>1, <2>2 DEF LockAfter, Holds
<1> QED
  BY <1>3, <1>4

\* An operation with no lease left to wait for goes on: it awaits the driver, or
\* asks for the lock.
LEMMA AdvanceSafe ==
  ASSUME MacInv, Solo, NEW o \in Slots, inflight = 0, op[o].kind \notin {"none", "audit"},
         op[o].at \in {"drain", "driverdone"}, PastDrain(o, op[o].kind, driver),
         driver' = Notified(driver),
         UNCHANGED <<requests, epoch, resident, target, gates, loading, loaded, bounds>>
  PROVE  MacInv'
<1> USE DEF MacInv
<1>1. PICK k \in Kinds \cup {"none", "init", "reconcile"} : k = op[o].kind
  BY DEF Types, Operation
<1>2. o \notin Members(lock)
  BY DEF LockOK, Inside
<1>3. Admits' = Admits /\ ~Admits /\ LeaseHolders = {}
  BY NoneOut DEF Admits, gates, FenceOK, Fenced
<1>4. CallersAfter
  BY <1>3, CallersStay
<1>5. /\ LockAfter(o) /\ op' \in [Slots -> Operation] /\ op'[o].kind = k
      /\ \/ driver # "none" /\ op'[o].at = "driver"
         \/ driver = "none" /\ op'[o].at \in {"work", "lock"}
      /\ state' \in {state, "unloading"}
  <2>1. CASE driver # "none"
    <3>1. lock' = lock /\ state' = state /\ op' = At(o, k, "driver")
      BY <1>1, <2>1 DEF PastDrain
    <3>2. op' \in [Slots -> Operation] /\ op'[o].kind = k /\ op'[o].at = "driver"
      BY <3>1, SlotSet
    <3> QED
      BY <1>2, <2>1, <3>1, <3>2, LockStays DEF Inside
  <2>2. CASE driver = "none"
    <3>1. PICK a \in {"work", "lock"} : a = IF lock = <<>> THEN "work" ELSE "lock"
      OBVIOUS
    <3>2. lock' = Append(lock, o) /\ state' \in {state, "unloading"} /\ op' = At(o, k, a)
      BY <1>1, <2>2, <3>1 DEF PastDrain, TakeLock
    <3>3. op' \in [Slots -> Operation] /\ op'[o].kind = k /\ op'[o].at = a
      BY <3>2, SlotSet DEF Inside
    <3> QED
      BY <1>2, <2>2, <3>1, <3>2, <3>3, LockJoins
  <2> QED
    BY <2>1, <2>2
<1>6. driver = "none" <=> driver' = "none"
  BY DEF Notified
<1>7. Fenced(o)'
  BY <1>1, <1>3, <1>5, <1>6 DEF FenceOK, Fenced, Inside, gates, requests
<1>8. (~initialized' /\ ~stopping' /\ state' = "idle") => driver' = "none" /\ inflight' = 0
  BY <1>5, <1>6 DEF FreshOK, gates, requests
<1>9. GatesAfter(o)
  BY <1>3, <1>5, <1>7, <1>8 DEF GatesAfter, Types, gates, bounds, requests
<1> QED
  BY <1>4, <1>5, <1>9, OpSafe

\* An operation goes on when the last lease is back, and when the driver has ended.
LEMMA DrainedSafe ==
  ASSUME MacInv, Solo, NEW o \in Slots, OpDrained(o) \/ OpAwaited(o)
  PROVE  MacInv'
<1>1. CASE OpDrained(o)
  <2>1. op[o].kind \notin {"none", "audit"}
    BY <1>1 DEF OpDrained, MacInv, FenceOK, Fenced
  <2> QED
    BY <1>1, <2>1, AdvanceSafe DEF OpDrained
<1>2. CASE OpAwaited(o)
  <2>1. op[o].kind \notin {"none", "audit"} /\ driver = "none" /\ inflight = 0
    BY <1>2 DEF OpAwaited, MacInv, FenceOK, Fenced
  <2>2. PastDrain(o, op[o].kind, driver)
    BY <1>2, <2>1 DEF OpAwaited, PastDrain
  <2> QED
    BY <1>2, <2>1, <2>2, AdvanceSafe DEF OpAwaited
<1> QED
  BY <1>1, <1>2

\* A step inside the lock that goes on
LEMMA InsideSafe ==
  ASSUME MacInv, Solo, NEW o \in Slots, Holds(o), op[o].at \in {"lock"} \cup Inside,
         op' \in [Slots -> Operation], op'[o].kind = op[o].kind, op'[o].at \in Inside,
         op[o].kind = "audit" => op'[o].at \in {"work", "compare"},
         op'[o].at = "compare" => op[o].kind = "audit",
         loaded' = loaded \/ (op[o].kind # "audit" /\ loaded' = {}),
         state' \in {state, "unloading"}, driver' \in {driver, Notified(driver)},
         UNCHANGED <<requests, epoch, resident, target, gates, loading, lock, bounds>>
  PROVE  MacInv'
<1> USE DEF MacInv
<1>1. Admits' = Admits
  BY DEF Admits, gates
<1>2. CallersAfter
  BY <1>1, CallersStay
<1>3. LockAfter(o)
  BY LockStays
<1>4. driver = "none" <=> driver' = "none"
  BY DEF Notified
<1>5. op[o].kind # "none" /\ (op[o].kind # "audit" => ~Admits /\ driver = "none" /\ inflight = 0)
  BY DEF FenceOK, Fenced, Inside
<1>6. Fenced(o)'
  BY <1>1, <1>4, <1>5 DEF FenceOK, Fenced, Inside, gates, requests
<1>7. LeaseHolders = {} \/ loaded' = loaded
  BY <1>5, NoneOut
<1>8. driver' = "cancelled" => driver = "cancelled"
  BY DEF Notified
<1>9. GatesAfter(o)
  <2>1. (drifts = 0 /\ Admits' /\ resident' # None /\ loading = None) => loaded' = {resident'}
    BY <1>1, <1>5 DEF ServedOK
  <2>2. (loading # None /\ Admits') => target' # None
    BY <1>1 DEF SwitchOK
  <2>3. (~initialized' /\ ~stopping' /\ state' = "idle") => driver' = "none" /\ inflight' = 0
    BY <1>4 DEF FreshOK, gates, requests
  <2>4. driver' = "cancelled" => ~Admits' /\ (stopping' \/ inflight' = 0)
    BY <1>1, <1>8 DEF SwitchOK, gates, requests
  <2>5. loaded' \in SUBSET Deployments
    BY DEF Types
  <2> QED
    BY <1>6, <1>7, <2>1, <2>2, <2>3, <2>4, <2>5 DEF GatesAfter, Types, gates, bounds
<1> QED
  BY <1>2, <1>3, <1>9, OpSafe

\* An operation that is at the head of the lock begins its work.
LEMMA LockedSafe ==
  ASSUME MacInv, Solo, NEW o \in Slots, OpLocked(o)
  PROVE  MacInv'
<1>1. PICK k \in Kinds \cup {"none", "init", "reconcile"} : k = op[o].kind
  BY DEF MacInv, Types, Operation
<1>2. op' \in [Slots -> Operation] /\ op'[o].kind = k /\ op'[o].at = "work"
  BY <1>1, SlotSet DEF OpLocked, MacInv, Inside
<1> QED
  BY <1>1, <1>2, InsideSafe DEF OpLocked, Inside

\* An operation that ends well
LEMMA ReopenSafe ==
  ASSUME MacInv, Solo, NEW o \in Slots, NEW r \in Deployments \cup {None}, Reopen(o, r),
         op[o].kind \notin {"none", "audit"}, op[o].at \in Inside,
         loaded' \in SUBSET Deployments, r # None => loaded' = {r}, UNCHANGED bounds
  PROVE  MacInv'
<1> USE DEF MacInv
<1>1. /\ resident' = r /\ target' = None /\ initialized' = TRUE /\ accepting' = TRUE
      /\ driver' = Notified(driver) /\ lock' = Tail(lock) /\ op' = Done(o)
      /\ UNCHANGED <<requests, epoch, stopping, loading>>
  BY DEF Reopen
<1>2. driver = "none" /\ inflight = 0 /\ ~Admits /\ LeaseHolders = {}
  BY NoneOut DEF FenceOK, Fenced, Inside
<1>3. loading = None /\ driver' = "none"
  BY <1>1, <1>2 DEF SwitchOK, Switching, Notified
<1>4. CallersAfter
  BY <1>1, <1>2, CallersStay
<1>5. op' \in [Slots -> Operation] /\ op'[o].kind = "none" /\ op'[o].at = "none"
  BY <1>1, SlotDone
<1>6. LockAfter(o)
  BY <1>1, <1>5, LockLeaves DEF LockOK, Inside
<1>7. Fenced(o)'
  BY <1>5 DEF Fenced, Inside
<1>8. GatesAfter(o)
  BY <1>1, <1>2, <1>3, <1>5, <1>7 DEF GatesAfter, Types, bounds
<1> QED
  BY <1>4, <1>6, <1>8, OpSafe

\* The work on the engines, successful: nobody holds a lease and no driver runs.
LEMMA WorkSafe ==
  ASSUME MacInv, Solo, NEW o \in Slots,
         OpUnloaded(o) \/ OpOperated(o) \/ OpReconciled(o) \/ OpRepaired(o)
  PROVE  MacInv'
<1> USE DEF MacInv
<1>1. op[o].kind \notin {"none", "audit"} /\ op[o].at \in Inside
  BY DEF OpUnloaded, OpOperated, OpReconciled, OpRepaired, Unloads, FenceOK, Fenced, Inside
<1>2. Holds(o)
  BY <1>1 DEF LockOK
<1>3. CASE OpUnloaded(o) /\ op[o].kind = "empty"
  <2>1. /\ op' = At(o, "empty", "operate") /\ loaded' = {}
        /\ UNCHANGED <<requests, epoch, resident, state, target, gates, driver, loading, lock, bounds>>
    BY <1>3 DEF OpUnloaded
  <2>2. "empty" \in Kinds \cup {"none", "init", "reconcile"}
    BY <1>3 DEF Types, Operation
  <2>3. op' \in [Slots -> Operation] /\ op'[o].kind = "empty" /\ op'[o].at = "operate"
    BY <2>1, <2>2, SlotSet DEF Inside
  <2> QED
    BY <1>1, <1>2, <1>3, <2>1, <2>3, InsideSafe DEF Inside
<1>4. CASE OpReconciled(o) /\ ~Matches(resident, loaded)
  <2>1. /\ op' = At(o, "reconcile", "repair") /\ loaded' = loaded /\ op[o].kind = "reconcile"
        /\ UNCHANGED <<requests, epoch, resident, state, target, gates, driver, loading, lock, bounds>>
    BY <1>4 DEF OpReconciled
  <2>2. op' \in [Slots -> Operation] /\ op'[o].kind = "reconcile" /\ op'[o].at = "repair"
    BY <2>1, SlotSet DEF Inside
  <2> QED
    BY <1>1, <1>2, <2>1, <2>2, InsideSafe DEF Inside
<1>5. CASE OpReconciled(o) /\ Matches(resident, loaded)
  <2>1. Reopen(o, resident) /\ loaded' = loaded /\ UNCHANGED bounds
    BY <1>5 DEF OpReconciled
  <2>2. resident # None => loaded = {resident}
    BY <1>5 DEF Matches
  <2> QED
    BY <1>1, <2>1, <2>2, ReopenSafe DEF Types
<1>6. CASE (OpUnloaded(o) /\ op[o].kind # "empty") \/ OpOperated(o) \/ OpRepaired(o)
  <2>1. Reopen(o, None) /\ loaded' = {} /\ UNCHANGED bounds
    BY <1>6 DEF OpUnloaded, OpOperated, OpRepaired
  <2> QED
    BY <1>1, <2>1, ReopenSafe
<1> QED
  BY <1>3, <1>4, <1>5, <1>6

\* A drain that takes too long: where the gates reopen, the leases it waited for
\* are on the resident.
LEMMA DrainTimeoutSafe ==
  ASSUME MacInv, Solo, NEW o \in Slots, OpDrainTimesOut(o)
  PROVE  MacInv'
<1> USE DEF MacInv
<1>1. /\ op[o].at = "drain" /\ inflight > 0 /\ op[o].kind # "shutdown"
      /\ faults' = faults + 1 /\ op' = Done(o)
      /\ accepting' \in BOOLEAN /\ initialized' \in BOOLEAN
      /\ \/ /\ initialized' = initialized
            /\ state' = IF resident = None THEN "idle" ELSE "ready"
         \/ initialized' = FALSE /\ state' = "degraded"
      /\ driver' \in {driver, Notified(driver)}
      /\ UNCHANGED <<requests, epoch, resident, target, stopping, loading, lock, loaded, drifts>>
  BY DEF OpDrainTimesOut, Types
<1>2. ~Admits /\ (stopping => ~Admits')
  BY <1>1 DEF FenceOK, Fenced, Admits
<1>3. loading = None /\ (driver = "cancelled" => stopping)
  BY <1>1, <1>2 DEF SwitchOK
<1>4. PICK c \in LeaseHolders : TRUE
  BY <1>1, Holders DEF CountOK
<1>5. stopping \/ (resident # None /\ (drifts = 0 => loaded = {resident}))
  BY <1>2, <1>4, MacResidencyAssumption DEF ServedOK, LeaseServed, CountOK
<1>6. CallersAfter
  BY <1>1, <1>2, CallersStay
<1>7. op' \in [Slots -> Operation] /\ op'[o].kind = "none" /\ op'[o].at = "none"
  BY <1>1, SlotDone
<1>8. LockAfter(o)
  <2>1. o \notin Members(lock)
    BY <1>1 DEF LockOK, Inside
  <2> QED
    BY <1>1, <1>7, <2>1, LockStays DEF Inside
<1>9. Fenced(o)' /\ (driver' = "cancelled" => stopping)
  BY <1>1, <1>2, <1>3, <1>7 DEF Fenced, Inside, Notified
<1>10. GatesAfter(o)
  BY <1>1, <1>2, <1>3, <1>5, <1>7, <1>9 DEF GatesAfter, Types
<1> QED
  BY <1>6, <1>8, <1>10, OpSafe

\* An operation that fails closed
LEMMA FailureSafe ==
  ASSUME MacInv, Solo, NEW o \in Slots, OpFails(o) \/ OpLeftResident(o)
  PROVE  MacInv'
<1> USE DEF MacInv
<1>1. /\ op[o].kind # "audit"
      /\ op[o].at \in {"driver", "driverdone", "driverlost", "lock", "work", "operate", "repair"}
      /\ initialized' = FALSE /\ accepting' = FALSE /\ state' = "degraded"
      /\ driver' = Notified(driver) \/ (op[o].at = "driver" /\ driver' = "cancelled")
      /\ loaded' \in SUBSET loaded /\ faults' \in {faults, faults + 1}
      /\ lock' = Without(lock, o) /\ op' = Done(o)
      /\ UNCHANGED <<requests, epoch, resident, target, stopping, loading, drifts>>
  BY DEF OpFails, OpLeftResident, FailClosed, bounds, FenceOK, Fenced
<1>2. inflight = 0 /\ LeaseHolders = {} /\ ~Admits' /\ ~Admits
  BY <1>1, NoneOut DEF FenceOK, Fenced, Admits
<1>3. CallersAfter
  BY <1>1, <1>2, CallersStay
<1>4. op' \in [Slots -> Operation] /\ op'[o].kind = "none" /\ op'[o].at = "none"
  BY <1>1, SlotDone
<1>5. LockAfter(o)
  BY <1>1, <1>4, LockLeaves DEF Inside
<1>6. Fenced(o)'
  BY <1>4 DEF Fenced, Inside
<1>7. driver' \in {driver, Notified(driver)} \/ (driver # "none" /\ driver' = "cancelled")
  BY <1>1 DEF FenceOK, Fenced
<1>8. inflight' = 0 /\ loaded' \in SUBSET Deployments /\ faults' \in Nat
  BY <1>1, <1>2 DEF requests, Types
<1>9. GatesAfter(o)
  BY <1>1, <1>2, <1>4, <1>6, <1>7, <1>8 DEF GatesAfter, Types
<1> QED
  BY <1>3, <1>5, <1>9, OpSafe

\* shutdown may end over leases, and then leaves the engines alone.
LEMMA ShutdownEndsSafe ==
  ASSUME MacInv, Solo, NEW o \in Slots, ShutdownEnds(o)
  PROVE  MacInv'
<1> USE DEF MacInv
<1>1. /\ op[o].kind = "shutdown"
      /\ loaded' = loaded \/ (op[o].at = "work" /\ loaded' \in SUBSET loaded)
      /\ resident' = None /\ target' = None /\ initialized' = FALSE /\ state' = "stopping"
      /\ driver' = driver \/ (driver # "none" /\ driver' = "cancelled")
      /\ lock' = Without(lock, o) /\ op' = Done(o)
      /\ UNCHANGED <<requests, epoch, accepting, stopping, loading, faults, drifts>>
  BY DEF ShutdownEnds, bounds
<1>2. stopping /\ ~Admits /\ ~Admits'
  BY <1>1 DEF FenceOK, Fenced, Admits
<1>3. LeaseHolders = {} \/ loaded' = loaded
  BY <1>1, NoneOut DEF FenceOK, Fenced
<1>4. CallersAfter
  BY <1>1, <1>2, CallersStay
<1>5. op' \in [Slots -> Operation] /\ op'[o].kind = "none" /\ op'[o].at = "none"
  BY <1>1, SlotDone
<1>6. LockAfter(o)
  BY <1>1, <1>5, LockLeaves DEF Inside
<1>7. Fenced(o)'
  BY <1>5 DEF Fenced, Inside
<1>8. loaded' \in SUBSET Deployments
  BY <1>1 DEF Types
<1>9. GatesAfter(o)
  BY <1>1, <1>2, <1>3, <1>5, <1>7, <1>8 DEF GatesAfter, Types
<1> QED
  BY <1>4, <1>6, <1>9, OpSafe

\* initialize and audit ask for the lock at once.
LEMMA TakeLockSafe ==
  ASSUME MacInv, Solo, NEW o \in Slots, Initialize(o) \/ BeginAudit(o)
  PROVE  MacInv'
<1> USE DEF MacInv
<1>1. PICK k \in Kinds \cup {"none", "init", "reconcile"} :
        /\ k \in {"init", "audit"} /\ TakeLock(o, k)
        /\ k = "init" => state = "idle" /\ ~initialized /\ ~stopping
  BY DEF Initialize, BeginAudit, MayBegin
<1>2. /\ op[o].kind = "none"
      /\ UNCHANGED <<requests, epoch, resident, target, gates, driver, loading, loaded, bounds>>
  BY DEF Initialize, BeginAudit, MayBegin, NoOp
<1>3. op[o].at = "none" /\ o \notin Members(lock)
  BY <1>2 DEF FenceOK, Fenced, LockOK, Inside
<1>4. PICK a \in {"work", "lock"} : a = IF lock = <<>> THEN "work" ELSE "lock"
  OBVIOUS
<1>5. lock' = Append(lock, o) /\ op' = At(o, k, a) /\ state' \in {state, "unloading"}
  BY <1>1, <1>4 DEF TakeLock
<1>6. op' \in [Slots -> Operation] /\ op'[o].kind = k /\ op'[o].at = a
  BY <1>5, SlotSet DEF Inside
<1>7. Admits' = Admits
  BY <1>2 DEF Admits, gates
<1>8. CallersAfter
  BY <1>2, <1>7, CallersStay
<1>9. LockAfter(o)
  BY <1>3, <1>4, <1>5, <1>6, LockJoins
<1>10. Fenced(o)'
  <2>1. k = "init" => driver = "none" /\ inflight = 0 /\ ~Admits
    BY <1>1 DEF FreshOK, Admits
  <2> QED
    BY <1>1, <1>2, <1>4, <1>6, <1>7, <2>1 DEF Fenced, Inside, gates, requests
<1>11. GatesAfter(o)
  <2>1. (drifts = 0 /\ Admits' /\ resident' # None /\ loading = None) => loaded' = {resident'}
    BY <1>2, <1>7 DEF ServedOK
  <2>2. (loading # None /\ Admits') => target' # None
    BY <1>2, <1>7 DEF SwitchOK
  <2>3. (~initialized' /\ ~stopping' /\ state' = "idle") => driver' = "none" /\ inflight' = 0
    BY <1>2, <1>5 DEF FreshOK, gates, requests
  <2>4. driver' = "cancelled" => ~Admits' /\ (stopping' \/ inflight' = 0)
    BY <1>2, <1>7 DEF SwitchOK, gates, requests
  <2> QED
    BY <1>2, <1>6, <1>10, <2>1, <2>2, <2>3, <2>4 DEF GatesAfter, Types, gates, bounds
<1> QED
  BY <1>8, <1>9, <1>11, OpSafe

\* An audit looks at the engines and changes nothing.
LEMMA InspectSafe ==
  ASSUME MacInv, Solo, NEW o \in Slots, AuditInspects(o)
  PROVE  MacInv'
<1> USE DEF MacInv
<1>1. op[o] \in Operation /\ loaded \in SUBSET Deployments
  BY DEF Types
<1>2. PICK r : r = [op[o] EXCEPT !.at = "compare", !.seen = loaded]
  OBVIOUS
<1>3. r \in Operation /\ r.kind = op[o].kind /\ r.at = "compare"
  BY <1>1, <1>2 DEF Operation, Inside
<1>4. op' = [op EXCEPT ![o] = r]
  BY <1>2 DEF AuditInspects, Types
<1>5. op' \in [Slots -> Operation] /\ op'[o].kind = "audit" /\ op'[o].at = "compare"
  BY <1>3, <1>4 DEF Types, AuditInspects
<1>6. op[o].kind = "audit" /\ op[o].at = "work" /\ Holds(o)
  BY DEF AuditInspects, LockOK, Inside
<1> QED
  BY <1>5, <1>6, InsideSafe DEF AuditInspects, Inside

\* An operation begins: it closes the gates over callers that CallersAfter describes.
LEMMA FenceSafe ==
  ASSUME MacInv, Solo, NEW o \in Slots, NEW k \in Kinds,
         k \in {"unload", "evict", "reconcile", "empty", "abort"},
         op[o].kind = "none", CallersAfter,
         state # "idle" \/ initialized \/ stopping,
         accepting' = FALSE, driver' = Notified(driver),
         IF inflight' > 0 THEN op' = At(o, k, "drain") /\ state' = "draining" /\ UNCHANGED lock
                          ELSE PastDrain(o, k, driver),
         UNCHANGED <<epoch, resident, target, initialized, stopping, loading, loaded, bounds>>
  PROVE  MacInv'
<1> USE DEF MacInv
<1>1. op[o].at = "none" /\ o \notin Members(lock)
  BY DEF FenceOK, Fenced, LockOK, Inside
<1>2. ~Admits'
  BY DEF Admits
<1>3. inflight' \in Nat
  BY DEF CallersAfter
<1>4. /\ LockAfter(o) /\ op' \in [Slots -> Operation] /\ op'[o].kind = k
      /\ \/ inflight' > 0 /\ op'[o].at = "drain"
         \/ inflight' = 0 /\ driver # "none" /\ op'[o].at = "driver"
         \/ inflight' = 0 /\ driver = "none" /\ op'[o].at \in {"work", "lock"}
      /\ state' \in {state, "unloading", "draining"}
  <2>1. CASE inflight' > 0
    <3>1. op' \in [Slots -> Operation] /\ op'[o].kind = k /\ op'[o].at = "drain"
      BY <2>1, SlotSet
    <3> QED
      BY <1>1, <2>1, <3>1, LockStays DEF Inside
  <2>2. CASE inflight' = 0 /\ driver # "none"
    <3>1. lock' = lock /\ state' = state /\ op' = At(o, k, "driver")
      BY <2>2 DEF PastDrain
    <3>2. op' \in [Slots -> Operation] /\ op'[o].kind = k /\ op'[o].at = "driver"
      BY <3>1, SlotSet
    <3> QED
      BY <1>1, <2>2, <3>1, <3>2, LockStays DEF Inside
  <2>3. CASE inflight' = 0 /\ driver = "none"
    <3>1. PICK a \in {"work", "lock"} : a = IF lock = <<>> THEN "work" ELSE "lock"
      OBVIOUS
    <3>2. lock' = Append(lock, o) /\ state' \in {state, "unloading"} /\ op' = At(o, k, a)
      BY <2>3, <3>1 DEF PastDrain, TakeLock
    <3>3. op' \in [Slots -> Operation] /\ op'[o].kind = k /\ op'[o].at = a
      BY <3>2, SlotSet DEF Inside
    <3> QED
      BY <1>1, <2>3, <3>1, <3>2, <3>3, LockJoins
  <2> QED
    BY <1>3, <2>1, <2>2, <2>3
<1>5. driver = "none" <=> driver' = "none"
  BY DEF Notified
<1>6. driver' = "cancelled" => stopping' \/ inflight' = 0
  <2> SUFFICES ASSUME driver' = "cancelled", ~stopping PROVE inflight' = 0
    OBVIOUS
  <2>1. inflight = 0
    BY DEF SwitchOK, Notified
  <2> QED
    BY <2>1 DEF CallersAfter
<1>7. Fenced(o)'
  BY <1>2, <1>4, <1>5 DEF Fenced, Inside
<1>8. (~initialized' /\ ~stopping' /\ state' = "idle") => driver' = "none" /\ inflight' = 0
  BY <1>4 DEF FreshOK
<1>9. GatesAfter(o)
  BY <1>2, <1>4, <1>6, <1>7, <1>8 DEF GatesAfter, Types, bounds
<1> QED
  BY <1>4, <1>9, OpSafe

\* An operation begins by closing the gates and failing the waiters.
LEMMA BeginSafe ==
  ASSUME MacInv, Solo, NEW o \in Slots, NEW k \in Kinds, Begin(o, k)
  PROVE  MacInv'
<1>1. /\ k \in {"unload", "evict", "reconcile", "empty"} /\ op[o].kind = "none"
      /\ state # "idle" \/ initialized \/ stopping
      /\ accepting' = FALSE /\ driver' = Notified(driver)
      /\ client' = [c \in Clients |-> IF c \in Members(queue) THEN "failed" ELSE client[c]]
      /\ queue' = <<>> /\ inflight' = inflight
      /\ IF inflight' > 0 THEN op' = At(o, k, "drain") /\ state' = "draining" /\ UNCHANGED lock
                          ELSE PastDrain(o, k, driver)
      /\ UNCHANGED <<wants, leaseEpoch, epoch, resident, target, initialized, stopping,
                     loading, loaded, bounds>>
  BY DEF Begin, MayBegin, Fence
<1>2. CallersAfter
  BY <1>1, WaitersFail DEF Admits
<1> QED
  BY <1>1, <1>2, FenceSafe

\* An abort gives its own lease back and fences.
LEMMA AbortSafe ==
  ASSUME MacInv, Solo, NEW o \in Slots, NEW c \in Clients, Abort(o, c)
  PROVE  MacInv'
<1> USE DEF MacInv
<1>1. c \in LeaseHolders /\ leaseEpoch[c] = epoch /\ client[c] = "holding"
  BY DEF Abort, LeaseHolders, Leased, CountOK
<1>2. /\ op[o].kind = "none" /\ "abort" \in Kinds
      /\ state # "idle" \/ initialized \/ stopping
      /\ wants' = [wants EXCEPT ![c] = None]
      /\ accepting' = FALSE /\ driver' = Notified(driver)
      /\ client' = [b \in Clients |-> IF b \in Members(queue) THEN "failed"
                                      ELSE [client EXCEPT ![c] = "idle"][b]]
      /\ queue' = <<>> /\ inflight' = Released(leaseEpoch[c])
      /\ leaseEpoch' = [leaseEpoch EXCEPT ![c] = 0]
      /\ IF inflight' > 0 THEN op' = At(o, "abort", "drain") /\ state' = "draining" /\ UNCHANGED lock
                          ELSE PastDrain(o, "abort", driver)
      /\ UNCHANGED <<epoch, resident, target, initialized, stopping,
                     loading, loaded, bounds>>
  BY <1>1 DEF Abort, MayBegin, Fence
<1>3. \A b \in Members(queue) : client[b] = "queued" /\ b # c
  BY <1>1 DEF QueueOK, Waiting, Members
<1>4. LeaseHolders' = LeaseHolders \ {c}
  BY <1>1, <1>2, <1>3 DEF LeaseHolders, Leased, Types
<1>5. \A b \in Clients \ {c} : wants'[b] = wants[b] /\ leaseEpoch'[b] = leaseEpoch[b]
  BY <1>2 DEF Types
<1>6. CountOK' /\ inflight' \in Nat /\ inflight' = inflight - 1
  BY <1>1, <1>2, <1>4, <1>5, Returned
<1>7. inflight > 0 /\ inflight' <= inflight
  BY <1>6 DEF Types
<1>8. CallersAfter
  <2>1. client' \in Callers /\ wants' \in [Clients -> Deployments \cup {None}]
    BY <1>2 DEF Callers, Types
  <2>2. queue' \in Seq(Clients) /\ QueueOK' /\ leaseEpoch' \in [Clients -> Nat]
    BY <1>2 DEF QueueOK, Waiting, Distinct, Types
  <2>3. \A b \in LeaseHolders' : b \in LeaseHolders /\ wants'[b] = wants[b]
    BY <1>4, <1>5 DEF LeaseHolders
  <2> QED
    BY <1>6, <1>7, <2>1, <2>2, <2>3 DEF CallersAfter
<1> QED
  BY <1>2, <1>7, <1>8, FenceSafe

\* A shutdown closes the gates, fails the waiters and cancels the driver.
LEMMA ShutdownSafe ==
  ASSUME MacInv, Solo, NEW o \in Slots, Shutdown(o)
  PROVE  MacInv'
<1> USE DEF MacInv
<1>1. /\ op[o].kind = "none" /\ "shutdown" \in Kinds
      /\ stopping' = TRUE /\ accepting' = FALSE /\ state' = "stopping"
      /\ client' = [c \in Clients |-> IF c \in Members(queue) THEN "failed" ELSE client[c]]
      /\ queue' = <<>>
      /\ driver' = IF driver = "none" THEN "none" ELSE "cancelled"
      /\ UNCHANGED <<wants, leaseEpoch, inflight, epoch, resident, target, initialized,
                     loading, loaded, faults, drifts>>
  BY DEF Shutdown, MayBegin, bounds
<1>2. op[o].at = "none" /\ o \notin Members(lock)
  BY <1>1 DEF FenceOK, Fenced, LockOK, Inside
<1>3. ~Admits'
  BY <1>1 DEF Admits
<1>4. CallersAfter
  BY <1>1, <1>3, WaitersFail
<1>5. /\ LockAfter(o) /\ op' \in [Slots -> Operation] /\ op'[o].kind = "shutdown"
      /\ \/ op'[o].at = "drain"
         \/ inflight = 0 /\ driver # "none" /\ op'[o].at = "driver"
         \/ inflight = 0 /\ driver = "none" /\ op'[o].at \in {"work", "lock"}
  <2>1. inflight \in Nat
    BY DEF Types
  <2>2. CASE inflight > 0
    <3>1. op' = At(o, "shutdown", "drain") /\ lock' = lock
      BY <2>2 DEF Shutdown
    <3>2. op' \in [Slots -> Operation] /\ op'[o].kind = "shutdown" /\ op'[o].at = "drain"
      BY <1>1, <3>1, SlotSet
    <3> QED
      BY <1>2, <3>1, <3>2, LockStays DEF Inside
  <2>3. CASE inflight = 0 /\ driver # "none"
    <3>1. op' = At(o, "shutdown", "driver") /\ lock' = lock
      BY <2>3 DEF Shutdown
    <3>2. op' \in [Slots -> Operation] /\ op'[o].kind = "shutdown" /\ op'[o].at = "driver"
      BY <1>1, <3>1, SlotSet
    <3> QED
      BY <1>2, <2>3, <3>1, <3>2, LockStays DEF Inside
  <2>4. CASE inflight = 0 /\ driver = "none"
    <3>1. PICK a \in {"work", "lock"} : a = IF lock = <<>> THEN "work" ELSE "lock"
      OBVIOUS
    <3>2. lock' = Append(lock, o) /\ op' = At(o, "shutdown", a)
      BY <2>4, <3>1 DEF Shutdown
    <3>3. op' \in [Slots -> Operation] /\ op'[o].kind = "shutdown" /\ op'[o].at = a
      BY <1>1, <3>2, SlotSet DEF Inside
    <3> QED
      BY <1>2, <2>4, <3>1, <3>2, <3>3, LockJoins
  <2> QED
    BY <2>1, <2>2, <2>3, <2>4
<1>6. Fenced(o)'
  BY <1>1, <1>3, <1>5 DEF Fenced, Inside
<1>7. GatesAfter(o)
  BY <1>1, <1>3, <1>5, <1>6 DEF GatesAfter, Types
<1> QED
  BY <1>4, <1>5, <1>7, OpSafe

\* audit's comparison: nothing, fail closed, or reconcile in the same task
LEMMA CompareSafe ==
  ASSUME MacInv, Solo, NEW o \in Slots, AuditCompares(o)
  PROVE  MacInv'
<1> USE DEF MacInv
<1>1. /\ op[o].at = "compare" /\ op[o].kind = "audit" /\ Holds(o)
      /\ UNCHANGED <<epoch, resident, target, loading, loaded, faults, drifts>>
  BY DEF AuditCompares, FenceOK, Fenced, LockOK, Inside, bounds
<1>3. CASE lock' = Tail(lock) /\ op' = Done(o) /\ UNCHANGED <<requests, state, gates, driver>>
  <2>1. Admits' = Admits
    BY <1>3 DEF Admits, gates
  <2>2. CallersAfter
    BY <1>1, <1>3, <2>1, CallersStay
  <2>3. op' \in [Slots -> Operation] /\ op'[o].kind = "none" /\ op'[o].at = "none"
    BY <1>3, SlotDone
  <2>4. LockAfter(o)
    BY <1>1, <1>3, <2>3, LockLeaves DEF Inside
  <2>5. Fenced(o)'
    BY <2>3 DEF Fenced, Inside
  <2>6. GatesAfter(o)
    <3>1. (drifts = 0 /\ Admits' /\ resident' # None /\ loading = None) => loaded' = {resident'}
      BY <1>1, <2>1 DEF ServedOK
    <3>2. (loading # None /\ Admits') => target' # None
      BY <1>1, <2>1 DEF SwitchOK
    <3>3. (~initialized' /\ ~stopping' /\ state' = "idle") => driver' = "none" /\ inflight' = 0
      BY <1>3 DEF FreshOK, gates, requests
    <3>4. driver' = "cancelled" => ~Admits' /\ (stopping' \/ inflight' = 0)
      BY <1>3, <2>1 DEF SwitchOK, gates, requests
    <3> QED
      BY <1>1, <1>3, <2>3, <2>5, <3>1, <3>2, <3>3, <3>4 DEF GatesAfter, Types, gates
  <2> QED
    BY <2>2, <2>4, <2>6, OpSafe
<1>4. CASE ~(lock' = Tail(lock) /\ op' = Done(o) /\ UNCHANGED <<requests, state, gates, driver>>)
  <2>1. /\ initialized' = FALSE /\ accepting' = FALSE /\ state' = "degraded"
        /\ client' = [c \in Clients |-> IF c \in Members(queue) THEN "failed" ELSE client[c]]
        /\ queue' = <<>> /\ driver' = Notified(driver)
        /\ UNCHANGED <<wants, leaseEpoch, inflight, stopping>>
        /\ \/ lock' = Tail(lock) /\ op' = Done(o)
           \/ /\ inflight = 0 /\ driver # "none"
              /\ lock' = Tail(lock) /\ op' = At(o, "reconcile", "driver")
           \/ /\ inflight = 0 /\ driver = "none"
              /\ lock' = Append(Tail(lock), o)
              /\ op' = At(o, "reconcile", IF Len(lock) = 1 THEN "work" ELSE "lock")
    BY <1>4 DEF AuditCompares, Types
  <2>2. ~Admits'
    BY <2>1 DEF Admits
  <2>3. CallersAfter
    BY <1>1, <2>1, <2>2, WaitersFail
  <2>4. /\ LockAfter(o) /\ op' \in [Slots -> Operation]
        /\ \/ op'[o].kind = "none" /\ op'[o].at = "none"
           \/ /\ op'[o].kind = "reconcile" /\ inflight = 0
              /\ \/ driver # "none" /\ op'[o].at = "driver"
                 \/ driver = "none" /\ op'[o].at \in {"work", "lock"}
    <3>1. CASE lock' = Tail(lock) /\ op' = Done(o)
      <4>1. op' \in [Slots -> Operation] /\ op'[o].kind = "none" /\ op'[o].at = "none"
        BY <3>1, SlotDone
      <4> QED
        BY <1>1, <3>1, <4>1, LockLeaves DEF Inside
    <3>2. CASE /\ inflight = 0 /\ driver # "none"
               /\ lock' = Tail(lock) /\ op' = At(o, "reconcile", "driver")
      <4>1. op' \in [Slots -> Operation] /\ op'[o].kind = "reconcile" /\ op'[o].at = "driver"
        BY <3>2, SlotSet
      <4> QED
        BY <1>1, <3>2, <4>1, LockLeaves DEF Inside
    <3>3. CASE /\ inflight = 0 /\ driver = "none"
               /\ lock' = Append(Tail(lock), o)
               /\ op' = At(o, "reconcile", IF Len(lock) = 1 THEN "work" ELSE "lock")
      <4>1. PICK a \in {"work", "lock"} : a = IF Len(lock) = 1 THEN "work" ELSE "lock"
        OBVIOUS
      <4>2. op' = At(o, "reconcile", a)
        BY <3>3, <4>1
      <4>3. op' \in [Slots -> Operation] /\ op'[o].kind = "reconcile" /\ op'[o].at = a
        BY <4>2, SlotSet DEF Inside
      <4>4. lock \in Locks /\ Distinct(lock) /\ lock # <<>> /\ Head(lock) = o
        BY <1>1 DEF Types, LockOK, Locks, Holds
      <4>5. PICK t : t = Tail(lock)
        OBVIOUS
      <4>6. /\ t \in Locks /\ Distinct(t) /\ Members(t) = Members(lock) \ {o}
            /\ Len(lock) = 1 <=> t = <<>>
        BY <4>4, <4>5, Dropped DEF Locks
      <4>7. /\ Append(t, o) \in Locks /\ Distinct(Append(t, o))
            /\ Members(Append(t, o)) = Members(t) \cup {o}
            /\ Append(t, o) # <<>>
            /\ Head(Append(t, o)) = IF t = <<>> THEN o ELSE Head(t)
        BY <4>6, Appended DEF Locks
      <4>8. lock' = Append(t, o)
        BY <3>3, <4>5
      <4>9. ~Holds("driver") /\ "driver" # o
        BY <4>4, MacResidencyAssumption DEF Holds
      <4>10. LockAfter(o)
        BY <4>1, <4>3, <4>6, <4>7, <4>8, <4>9 DEF LockAfter, Holds, Inside
      <4> QED
        BY <3>3, <4>3, <4>10
    <3> QED
      BY <2>1, <3>1, <3>2, <3>3
  <2>5. driver = "none" <=> driver' = "none"
    BY <2>1 DEF Notified
  <2>6. Fenced(o)'
    BY <2>1, <2>2, <2>4, <2>5 DEF Fenced, Inside
  <2>7. driver' = "cancelled" => stopping' \/ inflight' = 0
    BY <2>1 DEF SwitchOK, Notified
  <2>8. GatesAfter(o)
    BY <1>1, <2>1, <2>2, <2>4, <2>6, <2>7 DEF GatesAfter, Types
  <2> QED
    BY <2>3, <2>4, <2>8, OpSafe
<1> QED
  BY <1>3, <1>4

\* An audit that fails goes without a trace, or closes the gates and fails the
\* waiters.
LEMMA AuditFailsSafe ==
  ASSUME MacInv, Solo, NEW o \in Slots, AuditFails(o)
  PROVE  MacInv'
<1> USE DEF MacInv
<1>1. /\ lock' = Without(lock, o) /\ op' = Done(o) /\ faults' = faults + 1
      /\ UNCHANGED <<wants, leaseEpoch, inflight, epoch, resident, target, stopping,
                     loading, loaded, drifts>>
  BY DEF AuditFails
<1>2. \/ UNCHANGED <<client, queue, initialized, accepting, state, driver>>
      \/ /\ initialized' = FALSE /\ accepting' = FALSE /\ state' = "degraded"
         /\ client' = [c \in Clients |-> IF c \in Members(queue) THEN "failed" ELSE client[c]]
         /\ queue' = <<>> /\ driver' = Notified(driver)
  BY DEF AuditFails, FailClosed
<1>3. Admits' => Admits /\ initialized' = initialized
  BY <1>1, <1>2 DEF Admits
<1>4. CallersAfter
  <2>1. CASE UNCHANGED <<client, queue, initialized, accepting, state, driver>>
    <3>1. Admits' = Admits /\ UNCHANGED <<requests, epoch>>
      BY <1>1, <2>1 DEF Admits, requests
    <3> QED
      BY <3>1, CallersStay
  <2>2. CASE ~UNCHANGED <<client, queue, initialized, accepting, state, driver>>
    <3>1. ~Admits'
      BY <1>2, <2>2 DEF Admits
    <3> QED
      BY <1>1, <1>2, <2>2, <3>1, WaitersFail
  <2> QED
    BY <2>1, <2>2
<1>5. op' \in [Slots -> Operation] /\ op'[o].kind = "none" /\ op'[o].at = "none"
  BY <1>1, SlotDone
<1>6. LockAfter(o)
  BY <1>1, <1>5, LockLeaves DEF Inside
<1>7. Fenced(o)'
  BY <1>5 DEF Fenced, Inside
<1>8. GatesAfter(o)
  <2>1. driver' \in {driver, Notified(driver)} /\ initialized' \in BOOLEAN /\ accepting' \in BOOLEAN
    BY <1>2 DEF Types
  <2>2. (drifts = 0 /\ Admits' /\ resident' # None /\ loading = None) => loaded' = {resident'}
    BY <1>1, <1>3 DEF ServedOK
  <2>3. (loading # None /\ Admits') => target' # None
    BY <1>1, <1>3 DEF SwitchOK
  <2>4. (~initialized' /\ ~stopping' /\ state' = "idle") => driver' = "none" /\ inflight' = 0
    BY <1>1, <1>2 DEF FreshOK
  <2>5. driver' = "cancelled" => ~Admits' /\ (stopping' \/ inflight' = 0)
    BY <1>1, <1>3, <2>1 DEF SwitchOK, Notified
  <2> QED
    BY <1>1, <1>5, <1>7, <2>1, <2>2, <2>3, <2>4, <2>5 DEF GatesAfter, Types
<1> QED
  BY <1>4, <1>6, <1>8, OpSafe

\* A drift is nobody's step: it only ends what is promised of the engines.
LEMMA DriftSafe ==
  ASSUME MacInv, Drift
  PROVE  MacInv'
<1> USE DEF MacInv
<1>1. /\ drifts' = drifts + 1
      /\ UNCHANGED <<requests, epoch, resident, state, target, gates, driver, loading,
                     op, lock, faults>>
  BY DEF Drift
<1>2. drifts' \in Nat /\ drifts' # 0 /\ loaded' \in SUBSET Deployments
  BY DEF Drift, Types
<1>3. Admits' = Admits
  BY <1>1 DEF Admits, gates
<1>4. QueueOK' /\ CountOK' /\ LeaseHolders' = LeaseHolders
  BY <1>1, <1>3, CallersKept
<1>5. Types'
  BY <1>1, <1>2 DEF Types, requests, gates
<1>6. ServedOK'
  BY <1>1, <1>2, <1>4 DEF ServedOK, LeaseServed, requests, gates
<1>7. SwitchOK' /\ FenceOK' /\ FreshOK' /\ LockOK'
  BY <1>1, WokenSafe DEF Types, requests
<1> QED
  BY <1>4, <1>5, <1>6, <1>7

-----------------------------------------------------------------------------
(* The theorems                                                             *)

\* A coordinator that was just built satisfies the invariant.
LEMMA MacInit == Init => MacInv
<1> SUFFICES ASSUME Init PROVE MacInv
  OBVIOUS
<1> USE DEF Init
<1>1. Types
  <2>1. NoOp \in Operation
    BY DEF NoOp, Operation
  <2>2. op \in [Slots -> Operation]
    BY <2>1
  <2>3. lock \in Seq(Slots \cup {"driver"}) /\ queue \in Seq(Clients)
    OBVIOUS
  <2> QED
    BY <2>2, <2>3 DEF Types
<1>2. LeaseHolders = {}
  BY DEF LeaseHolders, Leased
<1>3. QueueOK
  BY DEF QueueOK, Waiting, Distinct
<1>4. CountOK /\ ServedOK
  BY <1>2, FS_EmptySet DEF CountOK, ServedOK, LeaseServed, Admits
<1>5. SwitchOK /\ FreshOK
  BY DEF SwitchOK, Switching, FreshOK
<1>6. FenceOK
  BY DEF FenceOK, Fenced, NoOp, Inside
<1>7. LockOK
  BY DEF LockOK, Distinct, Members, NoOp, Inside
<1> QED
  BY <1>1, <1>3, <1>4, <1>5, <1>6, <1>7 DEF MacInv

\* Every step keeps the invariant while one operation at a time is in progress.
LEMMA MacNext == Solo /\ MacInv /\ [Next]_vars => MacInv'
<1> SUFFICES ASSUME Solo, MacInv, [Next]_vars PROVE MacInv'
  OBVIOUS
<1>1. CASE UNCHANGED vars
  <2>1. /\ UNCHANGED <<requests, epoch, resident, state, target, gates, driver, loading,
                       op, lock, loaded, faults, drifts>>
        /\ Admits' = Admits
    BY <1>1 DEF vars, requests, gates, Admits
  <2>2. QueueOK' /\ CountOK' /\ LeaseHolders' = LeaseHolders
    BY <2>1, CallersKept
  <2>3. Types'
    BY <2>1 DEF MacInv, Types, requests, gates
  <2>4. ServedOK'
    BY <2>1, <2>2 DEF MacInv, ServedOK, LeaseServed, requests, gates
  <2>5. SwitchOK' /\ FenceOK' /\ FreshOK' /\ LockOK'
    BY <2>1, WokenSafe DEF MacInv, Types, requests
  <2> QED
    BY <2>2, <2>3, <2>4, <2>5 DEF MacInv
<1>2. ASSUME NEW c \in Clients,
             \/ \E d \in Deployments : AcquireWarm(c, d) \/ AcquireQueued(c, d)
             \/ Resume(c) \/ AbandonWait(c) \/ Release(c)
      PROVE  MacInv'
  BY <1>2, WarmSafe, QueuedSafe, ResumeSafe, LeaveSafe
<1>3. CASE DriverStep
  BY <1>3, DriverSafe
<1>4. ASSUME NEW o \in Slots, OpStep(o) PROVE MacInv'
  <2>1. CASE OpDrained(o) \/ OpAwaited(o) \/ OpLocked(o)
    BY <2>1, DrainedSafe, LockedSafe
  <2>2. CASE OpUnloaded(o) \/ OpOperated(o) \/ OpReconciled(o) \/ OpRepaired(o)
    BY <2>2, WorkSafe
  <2>3. CASE OpLeftResident(o) \/ OpFails(o) \/ ShutdownEnds(o)
    BY <2>3, FailureSafe, ShutdownEndsSafe
  <2>4. CASE AuditInspects(o) \/ AuditCompares(o) \/ AuditFails(o)
    BY <2>4, InspectSafe, CompareSafe, AuditFailsSafe
  <2> QED
    BY <1>4, <2>1, <2>2, <2>3, <2>4 DEF OpStep
<1>5. ASSUME NEW o \in Slots,
             \/ Initialize(o) \/ (\E k \in Kinds : Begin(o, k)) \/ (\E c \in Clients : Abort(o, c))
             \/ Shutdown(o) \/ BeginAudit(o) \/ OpDrainTimesOut(o)
      PROVE  MacInv'
  BY <1>5, TakeLockSafe, BeginSafe, AbortSafe, ShutdownSafe, DrainTimeoutSafe
<1>6. CASE Drift
  BY <1>6, DriftSafe
<1> QED
  BY <1>1, <1>2, <1>3, <1>4, <1>5, <1>6 DEF Next

\* The invariant contains what the leases and the maintenance are promised.
LEMMA MacImplies == MacInv => LeasesSound /\ MaintenanceAlone
<1> SUFFICES ASSUME MacInv PROVE LeasesSound /\ MaintenanceAlone
  OBVIOUS
<1>1. LeasesSound
  BY DEF MacInv, LeasesSound, ServedOK, InflightExact, CountOK
<1>2. MaintenanceAlone
  BY NoneOut DEF MacInv, MaintenanceAlone, FenceOK, Fenced
<1> QED
  BY <1>1, <1>2

\* For every number of callers and deployments, wherever one operation at a time is
\* in progress, and whatever fails, expires or is cancelled: a lease is on the
\* resident its caller asked for, the only model the engines hold unless they
\* drifted, and _inflight counts exactly the leases of the current epoch.
THEOREM LeasesServed == Solo => (Spec => []LeasesSound)
<1> SUFFICES ASSUME Solo PROVE Spec => []LeasesSound
  OBVIOUS
<1>1. MacInv /\ [Next]_vars => MacInv'
  BY MacNext
<1> QED
  BY <1>1, MacInit, MacImplies, PTL DEF Spec

\* Under the same proviso run_empty_maintenance is alone: no lease is out while it
\* empties the engines and operates on them.  MCMacBarrier shows the proviso is
\* needed.
THEOREM MaintenanceIsAlone == Solo => (Spec => []MaintenanceAlone)
<1> SUFFICES ASSUME Solo PROVE Spec => []MaintenanceAlone
  OBVIOUS
<1>1. MacInv /\ [Next]_vars => MacInv'
  BY MacNext
<1> QED
  BY <1>1, MacInit, MacImplies, PTL DEF Spec

\* Under the same proviso the coordinator never changes what an engine holds beneath
\* a lease: not in a transition, a cleanup, a cancelled driver's last step, an
\* unload, a repair, a maintenance operation or a shutdown.
THEOREM EnginesKept == Solo => (Spec => EnginesKeptForLeases)
<1> SUFFICES ASSUME Solo PROVE Spec => EnginesKeptForLeases
  OBVIOUS
<1>1. MacInv /\ [Next]_vars => MacInv'
  BY MacNext
<1>2. MacInv /\ [Next]_vars => [(loaded' # loaded /\ drifts' = drifts) => LeaseHolders = {}]_vars
  <2> SUFFICES ASSUME MacInv, Next, loaded' # loaded, drifts' = drifts
               PROVE  LeaseHolders = {}
    OBVIOUS
  <2> USE DEF MacInv
  <2>1. CASE DriverStep
    <3>1. CASE driver \in Switching
      BY <3>1, NoneOut DEF SwitchOK
    <3>2. CASE DriverCancelled
      <4>1. Holds("driver") \/ loading # None
        BY <3>2 DEF DriverCancelled
      <4>2. loading # None
        BY <4>1, HeadIn DEF LockOK
      <4> QED
        BY <4>2, NoneOut DEF SwitchOK
    <3>3. driver \in Switching \/ DriverCancelled
      BY <2>1 DEF DriverStep, DriverTurn, DriverLocked, DriverUnloaded, DriverLoaded,
         DriverPublish, DriverRaises, DriverCleaned, Switching
    <3> QED
      BY <3>1, <3>2, <3>3
  <2>2. ASSUME NEW o \in Slots, OpStep(o) PROVE LeaseHolders = {}
    <3>1. op[o].kind \notin {"none", "audit"} /\ op[o].at \notin {"none", "drain"}
      <4>1. OpUnloaded(o) \/ OpRepaired(o) \/ OpFails(o) \/ ShutdownEnds(o)
        BY <2>2 DEF OpStep, OpDrained, OpAwaited, OpLocked, OpOperated, OpReconciled,
           OpLeftResident, AuditInspects, AuditCompares, AuditFails
      <4> QED
        BY <4>1 DEF OpUnloaded, OpRepaired, OpFails, ShutdownEnds, Unloads, FenceOK, Fenced
    <3> QED
      BY <3>1, NoneOut DEF FenceOK, Fenced
  <2>3. ASSUME NEW o \in Slots,
               \/ Initialize(o) \/ (\E k \in Kinds : Begin(o, k))
               \/ (\E c \in Clients : Abort(o, c))
               \/ Shutdown(o) \/ BeginAudit(o) \/ OpDrainTimesOut(o)
        PROVE  FALSE
    BY <2>3 DEF Initialize, Begin, Abort, Shutdown, BeginAudit, OpDrainTimesOut
  <2>4. CASE Drift
    BY <2>4 DEF Drift, Types
  <2>5. ASSUME NEW c \in Clients,
               \/ \E d \in Deployments : AcquireWarm(c, d) \/ AcquireQueued(c, d)
               \/ Resume(c) \/ AbandonWait(c) \/ Release(c)
        PROVE  FALSE
    BY <2>5 DEF AcquireWarm, AcquireQueued, Resume, AbandonWait, Release
  <2> QED
    BY <2>1, <2>2, <2>3, <2>4, <2>5 DEF Next
<1> QED
  BY <1>1, <1>2, MacInit, PTL DEF Spec, EnginesKeptForLeases
=============================================================================
