------------------------ MODULE RecordsProofs ------------------------
(***************************************************************************)
(* The invariants of the locks, the adaptive loop, the reconciler's table, *)
(* the router and the replayed log, what the parts that judge say, and the *)
(* theorems of Records: the part that runs keeps its invariant, and the    *)
(* properties that the runs check follow from it.                          *)
(***************************************************************************)
EXTENDS RegistriesProofs

-----------------------------------------------------------------------------
(* Locks and the detector of deadlocks. *)

Busy(t) == doing[t].at # "working"
Keeps(t, l) == l \in holds[t] \/ (doing[t].lock = l /\ doing[t].at \in {"taken", "clearing", "unlocking"})
Works == [at : {"working", "acquiring", "taken", "clearing", "unlocking", "released"}, lock : LockNames]

\* What a thread does with a lock, what the wrapper says of it and what is recorded agree; what
\* it forgot to take back is recorded besides.
ThreadAgrees(t) ==
  /\ \A l \in holds[t] : owner[l] = t
  /\ Busy(t) => doing[t].lock \notin holds[t]
  /\ doing[t].at \in {"taken", "unlocking"} => inner[doing[t].lock] = t /\ owner[doing[t].lock] = NoThread
  /\ doing[t].at = "clearing" => owner[doing[t].lock] = t
  /\ holds[t] \subseteq graph[t] /\ (Busy(t) => doing[t].lock \in graph[t])
LockAgrees(l) ==
  /\ owner[l] # NoThread => inner[l] = owner[l]
  /\ inner[l] # NoThread => Keeps(inner[l], l)
  /\ owners[l] # NoThread => l \in graph[owners[l]]

ContentionInv ==
  /\ inner \in [LockNames -> Lockers \cup {NoThread}] /\ owner \in [LockNames -> Lockers \cup {NoThread}]
  /\ owners \in [LockNames -> Lockers \cup {NoThread}]
  /\ holds \in [Lockers -> SUBSET LockNames] /\ graph \in [Lockers -> SUBSET LockNames] /\ doing \in [Lockers -> Works]
  /\ \A t \in Lockers : ThreadAgrees(t)
  /\ \A l \in LockNames : LockAgrees(l)

\* There are finitely many threads, and a thread begins at rest.
LEMMA ContentionConstants == IsFiniteSet(Lockers) /\ LockNames # {} /\ NoThread \notin Lockers /\ Con!Resting \in Works
<1>1. IsFiniteSet(Lockers) /\ LockNames # {} /\ NoThread \notin Lockers
  BY RecordsAssumption DEF Con!ContentionAssumption, Con!IsFiniteSet, IsFiniteSet
<1> QED
  BY <1>1 DEF Con!Resting, Works

\* The invariant of contention holds initially.
LEMMA ContentionInit == Con!Init => ContentionInv
<1> SUFFICES ASSUME Con!Init PROVE ContentionInv
  OBVIOUS
<1>1. \A t \in Lockers : doing[t] = Con!Resting /\ doing[t].at = "working" /\ holds[t] = {} /\ graph[t] = {}
  BY DEF Con!Init, Con!Resting
<1>2. \A l \in LockNames : inner[l] = NoThread /\ owner[l] = NoThread /\ owners[l] = NoThread
  BY DEF Con!Init
<1>3. \A t \in Lockers : ThreadAgrees(t)
  BY <1>1 DEF ThreadAgrees, Busy
<1>4. \A l \in LockNames : LockAgrees(l)
  BY <1>2 DEF LockAgrees
<1>5. doing \in [Lockers -> Works]
  BY ContentionConstants DEF Con!Init
<1> QED
  BY <1>3, <1>4, <1>5 DEF ContentionInv, Con!Init

\* Locks that rest keep their invariant.
LEMMA ContentionRests == ContentionInv /\ UNCHANGED contentionVars => ContentionInv'
BY DEF ContentionInv, ThreadAgrees, LockAgrees, Keeps, Busy, contentionVars

\* A step of one thread with one lock.
LEMMA ThreadSteps ==
  ASSUME ContentionInv, NEW t \in Lockers, NEW k \in LockNames, NEW d \in Works,
         doing' = [doing EXCEPT ![t] = d],
         \A l \in LockNames : l # k => /\ inner'[l] = inner[l] /\ owner'[l] = owner[l] /\ owners'[l] = owners[l]
                                       /\ l \in holds'[t] <=> l \in holds[t]
                                       /\ l \in graph'[t] <=> l \in graph[t],
         \A u \in Lockers : u # t => holds'[u] = holds[u] /\ graph'[u] = graph[u],
         inner' \in [LockNames -> Lockers \cup {NoThread}], owner' \in [LockNames -> Lockers \cup {NoThread}],
         owners' \in [LockNames -> Lockers \cup {NoThread}],
         holds' \in [Lockers -> SUBSET LockNames], graph' \in [Lockers -> SUBSET LockNames],
         Busy(t) => doing[t].lock = k, d.at # "working" => d.lock = k,
         ThreadAgrees(t)', LockAgrees(k)',
         \A u \in Lockers : u # t => owner'[k] = owner[k] \/ k \notin holds[u],
         \A u \in Lockers : u # t /\ owner[k] = u => owner'[k] = u,
         \A u \in Lockers : u # t /\ inner[k] = u => inner'[k] = u /\ owner'[k] = owner[k]
  PROVE  ContentionInv'
<1>1. doing' \in [Lockers -> Works] /\ doing'[t] = d /\ \A u \in Lockers : u # t => doing'[u] = doing[u]
  BY DEF ContentionInv
<1>2. \A l \in LockNames : LockAgrees(l) /\ owner[l] \in Lockers \cup {NoThread} /\ inner[l] \in Lockers \cup {NoThread}
                           /\ owners[l] \in Lockers \cup {NoThread}
  BY DEF ContentionInv
<1>3. \A u \in Lockers : ThreadAgrees(u) /\ holds[u] \subseteq LockNames /\ doing[u] \in Works /\ doing[u].lock \in LockNames
  BY DEF ContentionInv, Works
<1>4. ASSUME NEW u \in Lockers PROVE ThreadAgrees(u)'
  <2>1. CASE u = t
    BY <2>1
  <2>2. CASE u # t
    <3>1. doing'[u] = doing[u] /\ holds'[u] = holds[u] /\ graph'[u] = graph[u] /\ ThreadAgrees(u)
      BY <1>1, <1>3, <2>2
    <3>2. \A l \in holds[u] : owner'[l] = u
      BY <1>3, <2>2, <3>1 DEF ThreadAgrees
    <3>3. Busy(u)' <=> Busy(u)
      BY <3>1 DEF Busy
    <3>4. doing[u].at \in {"taken", "unlocking"} => inner'[doing[u].lock] = u /\ owner'[doing[u].lock] = NoThread
      BY <1>3, <2>2, <3>1 DEF ThreadAgrees
    <3>5. doing[u].at = "clearing" => owner'[doing[u].lock] = u
      BY <1>3, <2>2, <3>1 DEF ThreadAgrees
    <3> QED
      BY <3>1, <3>2, <3>3, <3>4, <3>5 DEF ThreadAgrees, Busy
  <2> QED
    BY <2>1, <2>2
<1>5. ASSUME NEW l \in LockNames PROVE LockAgrees(l)'
  <2>1. CASE l = k
    BY <2>1
  <2>2. CASE l # k
    <3>1. LockAgrees(l) /\ inner'[l] = inner[l] /\ owner'[l] = owner[l] /\ owners'[l] = owners[l]
      BY <1>2, <2>2
    <3>2. inner[l] # NoThread => Keeps(inner[l], l)'
      <4> SUFFICES ASSUME NEW u \in Lockers, Keeps(u, l) PROVE Keeps(u, l)'
        BY <1>2, <3>1 DEF LockAgrees, Keeps
      <4>1. CASE u = t
        <5>1. l \in holds[t]
          BY <2>2, <4>1 DEF Keeps, Busy
        <5>2. l \in holds'[t]
          BY <2>2, <5>1
        <5> QED
          BY <4>1, <5>2 DEF Keeps
      <4>2. CASE u # t
        BY <1>1, <4>2 DEF Keeps
      <4> QED
        BY <4>1, <4>2
    <3>3. owners[l] # NoThread => l \in graph'[owners[l]]
      BY <1>2, <2>2, <3>1 DEF LockAgrees
    <3> QED
      BY <3>1, <3>2, <3>3 DEF LockAgrees, Keeps
  <2> QED
    BY <2>1, <2>2
<1> QED
  BY <1>1, <1>4, <1>5 DEF ContentionInv

\* What a thread and a lock are.
LEMMA ThreadIs ==
  ASSUME ContentionInv
  PROVE  /\ \A t \in Lockers : ThreadAgrees(t) /\ holds[t] \subseteq LockNames /\ graph[t] \subseteq LockNames
                               /\ doing[t] \in Works /\ doing[t].lock \in LockNames /\ t # NoThread
         /\ \A l \in LockNames : LockAgrees(l) /\ {inner[l], owner[l], owners[l]} \subseteq Lockers \cup {NoThread}
BY ContentionConstants DEF ContentionInv, Works

\* Recording that a lock is wanted keeps the invariant.
LEMMA RecordAcquireKeeps == ASSUME ContentionInv, NEW t \in Lockers, Con!RecordAcquire(t) PROVE ContentionInv'
<1>1. doing[t].at = "working" /\ inner' = inner /\ owner' = owner /\ holds' = holds
  BY DEF Con!RecordAcquire
<1>2. PICK k \in LockNames \ holds[t] :
        /\ doing' = [doing EXCEPT ![t] = [at |-> "acquiring", lock |-> k]]
        /\ graph' = [graph EXCEPT ![t] = graph[t] \cup {k}] /\ owners' = [owners EXCEPT ![k] = t]
  BY DEF Con!RecordAcquire, Con!Does
<1> DEFINE d == [at |-> "acquiring", lock |-> k]
<1>3. d \in Works /\ doing'[t] = d
  BY <1>2 DEF Works, ContentionInv
<1>4. /\ ThreadAgrees(t) /\ LockAgrees(k) /\ graph[t] \subseteq LockNames /\ holds[t] \subseteq LockNames
      /\ graph'[t] = graph[t] \cup {k} /\ owners'[k] = t /\ t # NoThread
      /\ graph' \in [Lockers -> SUBSET LockNames] /\ owners' \in [LockNames -> Lockers \cup {NoThread}]
      /\ \A u \in Lockers : u # t => graph'[u] = graph[u]
      /\ \A l \in LockNames : l # k => owners'[l] = owners[l]
  BY <1>2, ThreadIs DEF ContentionInv
<1>5. holds[t] \subseteq graph[t] /\ \A l \in holds[t] : owner[l] = t
  BY <1>1, <1>4 DEF ThreadAgrees, Busy
<1>6. ThreadAgrees(t)'
  BY <1>1, <1>3, <1>4, <1>5 DEF ThreadAgrees, Busy
<1>7. LockAgrees(k)'
  <2>1. inner[k] # NoThread => Keeps(inner[k], k)'
    <3> SUFFICES ASSUME NEW u \in Lockers, Keeps(u, k) PROVE Keeps(u, k)'
      BY <1>1, <1>4, ThreadIs DEF LockAgrees, Keeps
    <3>1. CASE u = t
      BY <1>1, <3>1 DEF Keeps
    <3>2. CASE u # t
      BY <1>1, <1>2, <3>2 DEF Keeps, ContentionInv
    <3> QED
      BY <3>1, <3>2
  <2> QED
    BY <1>1, <1>4, <2>1 DEF LockAgrees, Keeps
<1>8. /\ inner' \in [LockNames -> Lockers \cup {NoThread}] /\ owner' \in [LockNames -> Lockers \cup {NoThread}]
      /\ holds' \in [Lockers -> SUBSET LockNames]
  BY <1>1 DEF ContentionInv
<1>9. ~Busy(t) /\ d.lock = k
  BY <1>1 DEF Busy
<1> HIDE DEF d
<1>10. \A l \in LockNames : l # k => l \in graph'[t] <=> l \in graph[t]
  BY <1>4
<1> QED
  BY <1>1, <1>2, <1>3, <1>4, <1>6, <1>7, <1>8, <1>9, <1>10, ThreadSteps DEF d

\* Of one lock nobody else holds what this thread is about to change.
LEMMA AloneWith ==
  ASSUME ContentionInv, NEW t \in Lockers, NEW k \in LockNames, owner[k] \in {t, NoThread}
  PROVE  \A u \in Lockers : u # t => k \notin holds[u] /\ owner[k] # u
BY ThreadIs DEF ThreadAgrees

\* A step that leaves the records alone: the inner lock and the owner of this thread's lock change.
LEMMA LockSteps ==
  ASSUME ContentionInv, NEW t \in Lockers, NEW k \in LockNames, NEW d \in Works, Busy(t), doing[t].lock = k,
         NEW i \in {t, NoThread}, NEW o \in {t, NoThread},
         doing' = [doing EXCEPT ![t] = d], d.at # "working", d.lock = k,
         inner' = [inner EXCEPT ![k] = i], owner' = [owner EXCEPT ![k] = o],
         UNCHANGED <<holds, graph, owners>>,
         owner[k] \in {t, NoThread}, inner[k] \in {t, NoThread},
         o = NoThread \/ i = t,
         d.at \in {"taken", "unlocking"} => i = t /\ o = NoThread,
         d.at = "clearing" => o = t,
         i = t => d.at \in {"taken", "clearing", "unlocking"}
  PROVE  ContentionInv'
<1>1. /\ ThreadAgrees(t) /\ LockAgrees(k) /\ t # NoThread /\ owners[k] \in Lockers \cup {NoThread}
      /\ inner'[k] = i /\ owner'[k] = o /\ doing'[t] = d
      /\ \A l \in LockNames : l # k => inner'[l] = inner[l] /\ owner'[l] = owner[l]
      /\ inner' \in [LockNames -> Lockers \cup {NoThread}] /\ owner' \in [LockNames -> Lockers \cup {NoThread}]
      /\ holds' \in [Lockers -> SUBSET LockNames] /\ graph' \in [Lockers -> SUBSET LockNames]
      /\ owners' \in [LockNames -> Lockers \cup {NoThread}]
  BY ThreadIs DEF ContentionInv
<1>2. \A u \in Lockers : u # t => k \notin holds[u] /\ owner[k] # u
  BY AloneWith
<1>3. k \notin holds[t] /\ holds[t] \subseteq LockNames
  BY <1>1, ThreadIs DEF ThreadAgrees
<1>4. ThreadAgrees(t)'
  <2>1. \A l \in holds[t] : owner'[l] = t
    BY <1>1, <1>3 DEF ThreadAgrees
  <2>2. holds[t] \subseteq graph[t] /\ k \in graph[t]
    BY <1>1 DEF ThreadAgrees
  <2> QED
    BY <1>1, <1>3, <2>1, <2>2 DEF ThreadAgrees, Busy
<1>5. LockAgrees(k)'
  BY <1>1 DEF LockAgrees, Keeps
<1>6. \A u \in Lockers : u # t => inner[k] # u
  BY ContentionConstants
<1> QED
  BY <1>1, <1>2, <1>4, <1>5, <1>6, ThreadSteps

\* Taking a lock, timing out, clearing the record and unlocking keep the invariant.
LEMMA LockedSteps ==
  ASSUME ContentionInv, NEW t \in Lockers, Con!TakeLock(t) \/ Con!TimeOut(t) \/ Con!Clear(t) \/ Con!Unlock(t)
  PROVE  ContentionInv'
<1>1. PICK k \in LockNames : k = doing[t].lock
  BY ThreadIs
<1>2. /\ ThreadAgrees(t) /\ LockAgrees(k) /\ t # NoThread /\ {inner[k], owner[k], owners[k]} \subseteq Lockers \cup {NoThread}
      /\ inner = [inner EXCEPT ![k] = inner[k]] /\ owner = [owner EXCEPT ![k] = owner[k]] /\ UNCHANGED <<holds, graph, owners>>
  BY ThreadIs DEF ContentionInv, Con!TakeLock, Con!TimeOut, Con!Clear, Con!Unlock
<1>3. CASE Con!TakeLock(t)
  <2>1. doing' = [doing EXCEPT ![t] = [at |-> "taken", lock |-> k]] /\ inner' = [inner EXCEPT ![k] = t] /\ owner' = owner
        /\ inner[k] = NoThread /\ doing[t].at = "acquiring"
    BY <1>1, <1>3 DEF Con!TakeLock, Con!Does
  <2>2. owner[k] = NoThread
    BY <1>2, <2>1 DEF LockAgrees
  <2>3. owner' = [owner EXCEPT ![k] = NoThread]
    BY <1>2, <2>1, <2>2
  <2> DEFINE d == [at |-> "taken", lock |-> k]
  <2>4. d \in Works /\ d.at = "taken" /\ d.lock = k /\ doing' = [doing EXCEPT ![t] = d] /\ Busy(t)
    BY <2>1 DEF Works, Busy
  <2> HIDE DEF d
  <2>5. UNCHANGED <<holds, graph, owners>> /\ inner' = [inner EXCEPT ![k] = t] /\ inner[k] = NoThread /\ doing[t].lock = k
    BY <1>1, <1>2, <2>1
  <2> QED
    BY <2>2, <2>3, <2>4, <2>5, LockSteps
<1>4. CASE Con!TimeOut(t)
  <2>1. doing' = [doing EXCEPT ![t] = [at |-> "released", lock |-> k]] /\ inner' = inner /\ owner' = owner /\ doing[t].at = "acquiring"
    BY <1>1, <1>4 DEF Con!TimeOut, Con!Does
  <2> DEFINE d == [at |-> "released", lock |-> k]
  <2>2. d \in Works /\ d.at = "released" /\ d.lock = k /\ Busy(t) /\ doing'[t] = d /\ doing[t] \in Works
    BY <2>1, ThreadIs DEF Works, Busy, ContentionInv
  <2> HIDE DEF d
  <2>3. ThreadAgrees(t)'
    BY <1>1, <1>2, <2>1, <2>2 DEF ThreadAgrees, Busy
  <2>4. LockAgrees(k)'
    <3>1. inner[k] # NoThread => Keeps(inner[k], k)'
      <4> SUFFICES ASSUME NEW u \in Lockers, Keeps(u, k) PROVE Keeps(u, k)'
        BY <1>2, <2>1 DEF LockAgrees, Keeps
      <4>1. CASE u = t
        BY <1>2, <2>1, <4>1 DEF Keeps
      <4>2. CASE u # t
        BY <1>2, <2>1, <4>2 DEF Keeps, ContentionInv
      <4> QED
        BY <4>1, <4>2
    <3> QED
      BY <1>2, <2>1, <3>1 DEF LockAgrees, Keeps
  <2>5. doing' = [doing EXCEPT ![t] = d]
    BY <2>1 DEF d
  <2> QED
    BY <1>1, <1>2, <2>1, <2>2, <2>3, <2>4, <2>5, ThreadSteps DEF ContentionInv
<1>5. CASE Con!Clear(t)
  <2>1. doing' = [doing EXCEPT ![t] = [at |-> "unlocking", lock |-> k]] /\ inner' = inner /\ owner' = [owner EXCEPT ![k] = NoThread]
        /\ doing[t].at = "clearing"
    BY <1>1, <1>5 DEF Con!Clear, Con!Does
  <2>2. owner[k] = t /\ inner[k] = t /\ Busy(t)
    BY <1>1, <1>2, <2>1 DEF ThreadAgrees, LockAgrees, Busy
  <2>3. inner' = [inner EXCEPT ![k] = t]
    BY <1>2, <2>1, <2>2
  <2> DEFINE d == [at |-> "unlocking", lock |-> k]
  <2>4. d \in Works /\ d.at = "unlocking" /\ d.lock = k /\ doing' = [doing EXCEPT ![t] = d]
    BY <2>1 DEF Works
  <2> HIDE DEF d
  <2>5. UNCHANGED <<holds, graph, owners>> /\ owner' = [owner EXCEPT ![k] = NoThread] /\ doing[t].lock = k /\ t # NoThread
    BY <1>1, <1>2, <2>1
  <2> QED
    BY <2>2, <2>3, <2>4, <2>5, LockSteps
<1>6. CASE Con!Unlock(t)
  <2>1. doing' = [doing EXCEPT ![t] = [at |-> "released", lock |-> k]] /\ owner' = owner /\ inner' = [inner EXCEPT ![k] = NoThread]
        /\ doing[t].at = "unlocking"
    BY <1>1, <1>6 DEF Con!Unlock, Con!Does
  <2>2. owner[k] = NoThread /\ inner[k] = t /\ Busy(t)
    BY <1>1, <1>2, <2>1 DEF ThreadAgrees, Busy
  <2>3. owner' = [owner EXCEPT ![k] = NoThread]
    BY <1>2, <2>1, <2>2
  <2> DEFINE d == [at |-> "released", lock |-> k]
  <2>4. d \in Works /\ d.at = "released" /\ d.lock = k /\ doing' = [doing EXCEPT ![t] = d]
    BY <2>1 DEF Works
  <2> HIDE DEF d
  <2>5. UNCHANGED <<holds, graph, owners>> /\ inner' = [inner EXCEPT ![k] = NoThread] /\ doing[t].lock = k /\ t # NoThread
    BY <1>1, <1>2, <2>1
  <2> QED
    BY <2>2, <2>3, <2>4, <2>5, LockSteps
<1> QED
  BY <1>3, <1>4, <1>5, <1>6

\* Setting the owner keeps the invariant: the thread has the lock.
LEMMA SetOwnerKeeps == ASSUME ContentionInv, NEW t \in Lockers, Con!SetOwner(t) PROVE ContentionInv'
<1>1. PICK k \in LockNames : k = doing[t].lock
  BY ThreadIs
<1>2. /\ doing[t].at = "taken" /\ owner' = [owner EXCEPT ![k] = t] /\ holds' = [holds EXCEPT ![t] = holds[t] \cup {k}]
      /\ doing' = [doing EXCEPT ![t] = Con!Resting] /\ UNCHANGED <<inner, graph, owners>>
  BY <1>1 DEF Con!SetOwner, Con!Rests
<1>3. /\ ThreadAgrees(t) /\ LockAgrees(k) /\ t # NoThread /\ {inner[k], owner[k], owners[k]} \subseteq Lockers \cup {NoThread}
      /\ holds[t] \subseteq LockNames /\ Busy(t)
  BY <1>2, ThreadIs DEF Busy
<1>4. inner[k] = t /\ owner[k] = NoThread /\ k \notin holds[t] /\ holds[t] \cup {k} \subseteq graph[t]
  BY <1>1, <1>2, <1>3 DEF ThreadAgrees
<1> DEFINE d == Con!Resting
<1>5. d \in Works /\ d.at = "working"
  BY ContentionConstants DEF Con!Resting
<1> HIDE DEF d
<1>6. /\ doing'[t] = d /\ owner'[k] = t /\ holds'[t] = holds[t] \cup {k} /\ doing' = [doing EXCEPT ![t] = d]
      /\ holds' \in [Lockers -> SUBSET LockNames] /\ owner' \in [LockNames -> Lockers \cup {NoThread}]
      /\ \A l \in LockNames : l # k => owner'[l] = owner[l] /\ (l \in holds'[t] <=> l \in holds[t])
      /\ \A u \in Lockers : u # t => holds'[u] = holds[u]
  BY <1>2, <1>3 DEF ContentionInv, d
<1>7. ThreadAgrees(t)'
  <2>1. \A l \in holds'[t] : owner'[l] = t
    BY <1>3, <1>6 DEF ThreadAgrees
  <2> QED
    BY <1>2, <1>4, <1>5, <1>6, <2>1 DEF ThreadAgrees, Busy
<1>8. LockAgrees(k)'
  BY <1>2, <1>3, <1>4, <1>6 DEF LockAgrees, Keeps
<1>9. \A u \in Lockers : u # t => k \notin holds[u] /\ owner[k] # u /\ inner[k] # u
  BY <1>4, AloneWith
<1>10. /\ inner' \in [LockNames -> Lockers \cup {NoThread}] /\ owners' \in [LockNames -> Lockers \cup {NoThread}]
       /\ graph' \in [Lockers -> SUBSET LockNames] /\ inner' = inner /\ graph' = graph /\ owners' = owners
  BY <1>2 DEF ContentionInv
<1>11. \A l \in LockNames : l # k => /\ inner'[l] = inner[l] /\ owner'[l] = owner[l] /\ owners'[l] = owners[l]
                                     /\ l \in holds'[t] <=> l \in holds[t]
                                     /\ l \in graph'[t] <=> l \in graph[t]
  BY <1>6, <1>10
<1>12. \A u \in Lockers : u # t => holds'[u] = holds[u] /\ graph'[u] = graph[u]
  BY <1>6, <1>10
<1>13. /\ doing' = [doing EXCEPT ![t] = d] /\ (Busy(t) => doing[t].lock = k) /\ (d.at # "working" => d.lock = k)
       /\ holds' \in [Lockers -> SUBSET LockNames] /\ owner' \in [LockNames -> Lockers \cup {NoThread}]
  BY <1>1, <1>5, <1>6
<1>14. /\ \A u \in Lockers : u # t => owner'[k] = owner[k] \/ k \notin holds[u]
       /\ \A u \in Lockers : u # t /\ owner[k] = u => owner'[k] = u
       /\ \A u \in Lockers : u # t /\ inner[k] = u => inner'[k] = u /\ owner'[k] = owner[k]
  BY <1>9
<1> QED
  BY <1>5, <1>7, <1>8, <1>10, <1>11, <1>12, <1>13, <1>14, ThreadSteps

\* Beginning a release keeps the invariant.
LEMMA BeginReleaseKeeps == ASSUME ContentionInv, NEW t \in Lockers, Con!BeginRelease(t) PROVE ContentionInv'
<1>1. doing[t].at = "working" /\ UNCHANGED <<inner, owner, graph, owners>>
  BY DEF Con!BeginRelease
<1>2. PICK k \in holds[t] : holds' = [holds EXCEPT ![t] = holds[t] \ {k}] /\ doing' = [doing EXCEPT ![t] = [at |-> "clearing", lock |-> k]]
  BY DEF Con!BeginRelease, Con!Does
<1> DEFINE d == [at |-> "clearing", lock |-> k]
<1>3. /\ ThreadAgrees(t) /\ t # NoThread /\ holds[t] \subseteq LockNames /\ k \in LockNames /\ LockAgrees(k)
      /\ {inner[k], owner[k], owners[k]} \subseteq Lockers \cup {NoThread} /\ ~Busy(t)
  BY <1>1, ThreadIs DEF Busy
<1>4. owner[k] = t /\ inner[k] = t /\ holds[t] \subseteq graph[t]
  BY <1>3 DEF ThreadAgrees, LockAgrees
<1>5. d \in Works /\ d.at = "clearing" /\ d.lock = k
  BY <1>3 DEF Works
<1>6. doing' = [doing EXCEPT ![t] = d]
  BY <1>2
<1> HIDE DEF d
<1>7. /\ doing'[t] = d /\ holds'[t] = holds[t] \ {k} /\ holds' \in [Lockers -> SUBSET LockNames]
      /\ \A l \in LockNames : l # k => (l \in holds'[t] <=> l \in holds[t])
      /\ \A u \in Lockers : u # t => holds'[u] = holds[u]
  BY <1>2, <1>3, <1>6 DEF ContentionInv
<1>8. ThreadAgrees(t)'
  BY <1>1, <1>3, <1>4, <1>5, <1>7 DEF ThreadAgrees, Busy
<1>9. LockAgrees(k)'
  BY <1>1, <1>3, <1>4, <1>5, <1>7 DEF LockAgrees, Keeps
<1>10. \A u \in Lockers : u # t => k \notin holds[u] /\ owner[k] # u /\ inner[k] # u
  BY <1>3, <1>4, AloneWith
<1>11. /\ inner' \in [LockNames -> Lockers \cup {NoThread}] /\ owners' \in [LockNames -> Lockers \cup {NoThread}]
       /\ owner' \in [LockNames -> Lockers \cup {NoThread}]
       /\ graph' \in [Lockers -> SUBSET LockNames] /\ inner' = inner /\ graph' = graph /\ owners' = owners /\ owner' = owner
  BY <1>1 DEF ContentionInv
<1> QED
  BY <1>3, <1>5, <1>6, <1>7, <1>8, <1>9, <1>10, <1>11, ThreadSteps

\* Recording a release keeps the invariant.
LEMMA RecordReleaseKeeps == ASSUME ContentionInv, NEW t \in Lockers, Con!RecordRelease(t) PROVE ContentionInv'
<1>1. PICK k \in LockNames : k = doing[t].lock
  BY ThreadIs
<1>2. /\ doing[t].at = "released" /\ graph' = [graph EXCEPT ![t] = graph[t] \ {k}] /\ owners' = [owners EXCEPT ![k] = NoThread]
      /\ doing' = [doing EXCEPT ![t] = Con!Resting] /\ UNCHANGED <<inner, owner, holds>>
  BY <1>1 DEF Con!RecordRelease, Con!Rests
<1>3. /\ ThreadAgrees(t) /\ LockAgrees(k) /\ t # NoThread /\ {inner[k], owner[k], owners[k]} \subseteq Lockers \cup {NoThread}
      /\ holds[t] \subseteq LockNames /\ graph[t] \subseteq LockNames /\ Busy(t)
  BY <1>2, ThreadIs DEF Busy
<1>4. k \notin holds[t] /\ holds[t] \cup {k} \subseteq graph[t]
  BY <1>1, <1>3 DEF ThreadAgrees
<1> DEFINE d == Con!Resting
<1>5. d \in Works /\ d.at = "working"
  BY ContentionConstants DEF Con!Resting
<1> HIDE DEF d
<1>6. /\ doing'[t] = d /\ graph'[t] = graph[t] \ {k} /\ owners'[k] = NoThread /\ doing' = [doing EXCEPT ![t] = d]
      /\ graph' \in [Lockers -> SUBSET LockNames] /\ owners' \in [LockNames -> Lockers \cup {NoThread}]
      /\ \A l \in LockNames : l # k => owners'[l] = owners[l] /\ (l \in graph'[t] <=> l \in graph[t])
      /\ \A u \in Lockers : u # t => graph'[u] = graph[u] /\ doing'[u] = doing[u]
  BY <1>2, <1>3 DEF ContentionInv, d
<1>7. ThreadAgrees(t)'
  <2>1. holds[t] \subseteq graph'[t]
    BY <1>4, <1>6
  <2> QED
    BY <1>2, <1>3, <1>5, <1>6, <2>1 DEF ThreadAgrees, Busy
<1>8. LockAgrees(k)'
  <2>1. inner[k] # NoThread => Keeps(inner[k], k)'
    <3> SUFFICES ASSUME NEW u \in Lockers, Keeps(u, k) PROVE Keeps(u, k)'
      BY <1>2, <1>3 DEF LockAgrees, Keeps
    <3>1. CASE u = t
      BY <1>2, <1>4, <3>1 DEF Keeps
    <3>2. CASE u # t
      BY <1>2, <1>6, <3>2 DEF Keeps
    <3> QED
      BY <3>1, <3>2
  <2> QED
    BY <1>2, <1>3, <1>6, <2>1 DEF LockAgrees, Keeps
<1>9. /\ inner' \in [LockNames -> Lockers \cup {NoThread}] /\ owner' \in [LockNames -> Lockers \cup {NoThread}]
      /\ holds' \in [Lockers -> SUBSET LockNames] /\ inner' = inner /\ owner' = owner /\ holds' = holds
  BY <1>2 DEF ContentionInv
<1>10. \A l \in LockNames : l # k => /\ inner'[l] = inner[l] /\ owner'[l] = owner[l] /\ owners'[l] = owners[l]
                                     /\ l \in holds'[t] <=> l \in holds[t]
                                     /\ l \in graph'[t] <=> l \in graph[t]
  BY <1>6, <1>9
<1>11. \A u \in Lockers : u # t => holds'[u] = holds[u] /\ graph'[u] = graph[u]
  BY <1>6, <1>9
<1>12. /\ doing' = [doing EXCEPT ![t] = d] /\ (Busy(t) => doing[t].lock = k) /\ (d.at # "working" => d.lock = k)
       /\ graph' \in [Lockers -> SUBSET LockNames] /\ owners' \in [LockNames -> Lockers \cup {NoThread}]
  BY <1>1, <1>5, <1>6
<1>13. /\ \A u \in Lockers : u # t => owner'[k] = owner[k] \/ k \notin holds[u]
       /\ \A u \in Lockers : u # t /\ owner[k] = u => owner'[k] = u
       /\ \A u \in Lockers : u # t /\ inner[k] = u => inner'[k] = u /\ owner'[k] = owner[k]
  BY <1>9
<1> QED
  BY <1>5, <1>7, <1>8, <1>9, <1>10, <1>11, <1>12, <1>13, ThreadSteps

\* A release that is not recorded keeps the invariant.
LEMMA ForgetKeeps == ASSUME ContentionInv, NEW t \in Lockers, Con!Forget(t) PROVE ContentionInv'
<1>1. PICK k \in LockNames : k = doing[t].lock
  BY ThreadIs
<1> DEFINE d == Con!Resting
<1>2. doing[t].at = "released" /\ UNCHANGED <<inner, owner, holds, graph, owners>> /\ doing' = [doing EXCEPT ![t] = d]
  BY DEF Con!Forget, Con!Rests
<1>3. ThreadAgrees(t) /\ LockAgrees(k) /\ {inner[k], owner[k], owners[k]} \subseteq Lockers \cup {NoThread}
  BY ThreadIs
<1>4. d \in Works /\ d.at = "working"
  BY ContentionConstants DEF Con!Resting
<1> HIDE DEF d
<1>5. doing'[t] = d /\ \A u \in Lockers : u # t => doing'[u] = doing[u]
  BY <1>2, <1>4 DEF ContentionInv
<1>6. ThreadAgrees(t)'
  BY <1>2, <1>3, <1>4, <1>5 DEF ThreadAgrees, Busy
<1>7. LockAgrees(k)'
  <2>1. inner[k] # NoThread => Keeps(inner[k], k)'
    <3> SUFFICES ASSUME NEW u \in Lockers, Keeps(u, k) PROVE Keeps(u, k)'
      BY <1>2, <1>3 DEF LockAgrees, Keeps
    <3>1. CASE u = t
      BY <1>2, <3>1 DEF Keeps
    <3>2. CASE u # t
      BY <1>2, <1>5, <3>2 DEF Keeps
    <3> QED
      BY <3>1, <3>2
  <2> QED
    BY <1>2, <1>3, <2>1 DEF LockAgrees, Keeps
<1>8. /\ inner' \in [LockNames -> Lockers \cup {NoThread}] /\ owner' \in [LockNames -> Lockers \cup {NoThread}]
      /\ owners' \in [LockNames -> Lockers \cup {NoThread}]
      /\ holds' \in [Lockers -> SUBSET LockNames] /\ graph' \in [Lockers -> SUBSET LockNames]
  BY <1>2 DEF ContentionInv
<1> QED
  BY <1>1, <1>2, <1>4, <1>6, <1>7, <1>8, ThreadSteps

\* Every step of a thread keeps the invariant of contention.
LEMMA ContentionSteps == ContentionInv /\ Con!Next => ContentionInv'
BY RecordAcquireKeeps, LockedSteps, SetOwnerKeeps, BeginReleaseKeeps, RecordReleaseKeeps, ForgetKeeps DEF Con!Next

-----------------------------------------------------------------------------
\* Threads that are recorded for one another and up to date: if each is the last recorded for the
\* lock it acquires, each waits for another of them.
LEMMA AlarmIsTrue == ContentionInv => Con!AlarmIsReal
<1> SUFFICES ASSUME ContentionInv, NEW cycle \in Con!Cycles, \A t \in cycle : Con!UpToDate(t) PROVE Con!Deadlocked
  BY DEF Con!AlarmIsReal
<1>1. cycle \in (SUBSET Lockers) \ {{}} /\ \A t \in cycle : \E u \in cycle : Con!Blames(t, u)
  BY DEF Con!Cycles
\* Of them a lock is held by the thread that keeps it, and recorded for those that hold or acquire it.
<1>2. \A t \in cycle, l \in LockNames : /\ l \in holds[t] => inner[l] = t
                                        /\ l \in graph[t] => l \in holds[t] \/ (doing[t].at = "acquiring" /\ doing[t].lock = l)
  <2> TAKE t \in cycle, l \in LockNames
  <2>1. ThreadAgrees(t) /\ LockAgrees(l) /\ t # NoThread
    BY <1>1, ThreadIs
  <2>2. l \in graph[t] => l \in holds[t] \/ doing[t] = [at |-> "acquiring", lock |-> l]
    BY DEF Con!UpToDate
  <2> QED
    BY <2>1, <2>2 DEF ThreadAgrees, LockAgrees
<1> DEFINE Last == {u \in cycle : doing[u].at = "acquiring" /\ owners[doing[u].lock] = u}
\* Who is blamed is waited for, or is the last recorded for the lock it acquires.
<1>3. ASSUME NEW t \in cycle, NEW u \in cycle, Con!Blames(t, u)
      PROVE  Con!WaitsFor(t, u) \/ u \in Last
  <2>1. PICK l \in graph[t] : owners[l] = u /\ u # t
    BY <1>3 DEF Con!Blames
  <2>2. t \in Lockers /\ u \in Lockers /\ l \in LockNames /\ LockAgrees(l) /\ u # NoThread
    BY <1>1, <2>1, ThreadIs
  <2>3. l \in graph[u]
    BY <2>1, <2>2 DEF LockAgrees
  <2>4. CASE doing[u].at = "acquiring" /\ doing[u].lock = l
    BY <2>1, <2>4
  <2>5. CASE l \in holds[u]
    <3>1. inner[l] = u /\ l \notin holds[t]
      BY <1>2, <2>1, <2>2, <2>5
    <3> QED
      BY <1>2, <2>1, <2>2, <3>1 DEF Con!WaitsFor
  <2> QED
    BY <1>2, <2>2, <2>3, <2>4, <2>5
\* Each of the last recorded is waited for by another of them: who it blames.
<1>4. \A t \in Last : \E u \in Last : Con!WaitsFor(u, t)
  <2> SUFFICES ASSUME NEW t \in Last PROVE \E u \in Last : Con!WaitsFor(u, t)
    OBVIOUS
  <2>1. PICK u \in cycle : Con!Blames(t, u)
    BY <1>1
  <2>2. PICK l \in graph[t] : owners[l] = u /\ u # t
    BY <2>1 DEF Con!Blames
  <2>3. t \in Lockers /\ u \in Lockers /\ l \in LockNames /\ LockAgrees(l) /\ u # NoThread
    BY <1>1, <2>2, ThreadIs
  <2>4. l \in holds[t] /\ inner[l] = t
    BY <1>2, <2>2, <2>3
  <2>5. l \in graph[u] /\ l \notin holds[u]
    BY <1>2, <2>2, <2>3, <2>4 DEF LockAgrees
  <2>6. doing[u].at = "acquiring" /\ doing[u].lock = l
    BY <1>2, <2>3, <2>5
  <2> QED
    BY <2>2, <2>4, <2>6 DEF Con!WaitsFor
<1> DEFINE waiter == [t \in Last |-> CHOOSE u \in Last : Con!WaitsFor(u, t)]
<1>5. \A t \in Last : waiter[t] \in Last /\ Con!WaitsFor(waiter[t], t)
  BY <1>4
<1>6. IsFiniteSet(Last)
  BY <1>1, FS_Subset, ContentionConstants
<1>7. CASE Last # {}
  <2>1. waiter \in [Last -> Last]
    BY <1>5
  <2>2. \A s, t \in Last : waiter[s] = waiter[t] => s = t
    <3> SUFFICES ASSUME NEW s \in Last, NEW t \in Last, waiter[s] = waiter[t] PROVE s = t
      OBVIOUS
    <3>1. Con!WaitsFor(waiter[s], s) /\ Con!WaitsFor(waiter[t], t)
      BY <1>5
    <3> HIDE DEF waiter, Last
    <3>2. inner[doing[waiter[s]].lock] = s /\ inner[doing[waiter[t]].lock] = t
      BY <3>1 DEF Con!WaitsFor
    <3> QED
      BY <3>2
  <2> HIDE DEF waiter, Last
  <2>3. waiter \in Injection(Last, Last)
    BY <2>1, <2>2, Fun_IsInj
  <2>4. waiter \in Surjection(Last, Last)
    BY <1>6, <2>3, FS_Injection
  <2>5. \A u \in Last : \E t \in Last : waiter[t] = u
    BY <2>4 DEF Surjection
  <2>6. \A u \in Last : \E t \in Last : Con!WaitsFor(u, t)
    BY <1>5, <2>5
  <2>7. Last \in (SUBSET Lockers) \ {{}}
    BY <1>1, <1>7 DEF Last
  <2> QED
    BY <2>6, <2>7 DEF Con!Deadlocked
<1>8. CASE Last = {}
  <2>1. \A t \in cycle : \E u \in cycle : Con!WaitsFor(t, u)
    BY <1>1, <1>3, <1>8
  <2> QED
    BY <1>1, <2>1 DEF Con!Deadlocked
<1> QED
  BY <1>7, <1>8

\* The invariant gives the types, and a lock's owner holds it.
LEMMA ContentionOwes == ContentionInv => Con!TypeOK /\ Con!OwnerIsHolder
<1> SUFFICES ASSUME ContentionInv PROVE Con!TypeOK /\ Con!OwnerIsHolder
  OBVIOUS
<1>1. Con!OwnerIsHolder
  BY ThreadIs DEF Con!OwnerIsHolder, ThreadAgrees, LockAgrees
<1> QED
  BY <1>1 DEF ContentionInv, Con!TypeOK, Works

-----------------------------------------------------------------------------
(* The adaptive loop. *)

Calls == [capability : LoopCapabilities, success : BOOLEAN]
NoneTwice == /\ \A i, j \in DOMAIN did : did[i].capability = did[j].capability => i = j
             /\ \A i, j \in DOMAIN todo : todo[i] = todo[j] => i = j
             /\ \A i \in DOMAIN did, j \in DOMAIN todo : did[i].capability # todo[j]
AllFailed == \A i \in DOMAIN did : ~did[i].success

LoopInv ==
  /\ todo \in Seq(LoopCapabilities) /\ did \in Seq(Calls) /\ tries \in 0..MaxRecovers /\ trace.success \in BOOLEAN
  /\ pc \in {"idle", "act", "verify", "recover"} /\ NoneTwice
  /\ pc = "act" => did = <<>>
  /\ pc = "verify" => Len(did) <= 1
  /\ pc = "recover" => AllFailed
  /\ pc = "idle" => (trace.success <=> ~AllFailed)

\* The bounds of the adaptive loop are numbers.
LEMMA LoopConstants == MaxRecovers \in Nat /\ MaxAlternatives \in Nat /\ MaxQueries \in Nat /\ Verifying \in BOOLEAN
BY RecordsAssumption DEF Adaptive!AdaptiveAssumption

\* The invariant of the loop holds initially.
LEMMA LoopInit == Adaptive!Init => LoopInv
<1> SUFFICES ASSUME Adaptive!Init PROVE LoopInv
  OBVIOUS
<1>1. todo \in Seq(LoopCapabilities) /\ did \in Seq(Calls) /\ DOMAIN did = {} /\ DOMAIN todo = {}
  BY EmptySeq DEF Adaptive!Init
<1>2. trace.success = FALSE /\ pc = "idle" /\ tries \in 0..MaxRecovers
  BY LoopConstants DEF Adaptive!Init, Adaptive!NoTrace
<1> QED
  BY <1>1, <1>2 DEF LoopInv, NoneTwice, AllFailed

\* A loop that rests keeps its invariant.
LEMMA LoopRests == LoopInv /\ UNCHANGED loopVars => LoopInv'
BY DEF LoopInv, NoneTwice, AllFailed, loopVars

\* The first capability that is left is called, whatever it answers.
LEMMA CallKeepsOnce ==
  ASSUME LoopInv, todo # <<>>, NEW ok \in BOOLEAN, todo' = Tail(todo),
         did' = Append(did, [capability |-> Head(todo), success |-> ok])
  PROVE  /\ todo' \in Seq(LoopCapabilities) /\ did' \in Seq(Calls) /\ Len(did') = Len(did) + 1 /\ NoneTwice'
         /\ (AllFailed /\ ~ok => AllFailed') /\ (ok => ~AllFailed')
<1> DEFINE n == Len(did)
<1> DEFINE m == Len(todo)
<1> DEFINE c == [capability |-> Head(todo), success |-> ok]
<1>1. /\ todo \in Seq(LoopCapabilities) /\ did \in Seq(Calls) /\ n \in Nat /\ m \in Nat \ {0} /\ DOMAIN did = 1..n /\ DOMAIN todo = 1..m
      /\ NoneTwice
  BY LenProperties, EmptySeq DEF LoopInv
<1>2. /\ Head(todo) \in LoopCapabilities /\ Head(todo) = todo[1] /\ Tail(todo) \in Seq(LoopCapabilities) /\ Len(Tail(todo)) = m - 1
      /\ \A j \in 1..(m - 1) : Tail(todo)[j] = todo[j + 1]
  BY <1>1, HeadTailProperties
<1>3. c \in Calls /\ c.capability = Head(todo) /\ c.success = ok
  BY <1>2 DEF Calls
<1> HIDE DEF c
<1>4. did' = Append(did, c)
  BY DEF c
<1>5. /\ did' \in Seq(Calls) /\ Len(did') = n + 1 /\ did'[n + 1] = c /\ \A i \in 1..n : did'[i] = did[i]
  BY <1>1, <1>3, <1>4, AppendProperties
<1> HIDE DEF n, m
<1>6. DOMAIN did' = 1..n \cup {n + 1} /\ DOMAIN todo' = 1..(m - 1) /\ todo' \in Seq(LoopCapabilities)
  <2>1. DOMAIN did' = 1..(n + 1)
    BY <1>5, LenProperties
  <2>2. DOMAIN todo' = 1..(m - 1) /\ todo' \in Seq(LoopCapabilities)
    BY <1>2, LenProperties
  <2> QED
    BY <1>1, <2>1, <2>2
<1>7. 1 \in 1..m /\ \A j \in 1..(m - 1) : j + 1 \in 1..m /\ todo'[j] = todo[j + 1] /\ todo[j + 1] # todo[1] /\ 1 # j + 1
  <2>1. 1 \in 1..m /\ \A j \in 1..(m - 1) : j + 1 \in 1..m /\ j + 1 # 1
    BY <1>1
  <2> QED
    BY <1>1, <1>2, <2>1 DEF NoneTwice
<1>0. /\ \A i, j \in 1..n : did[i].capability = did[j].capability => i = j
      /\ \A i, j \in 1..m : todo[i] = todo[j] => i = j
      /\ \A i \in 1..n, j \in 1..m : did[i].capability # todo[j]
  BY <1>1 DEF NoneTwice
<1>8. n + 1 \notin 1..n
  BY <1>1
<1>9. ASSUME NEW i \in 1..n \cup {n + 1}, NEW j \in 1..n \cup {n + 1}, did'[i].capability = did'[j].capability PROVE i = j
  <2>1. \A k \in 1..n : did'[k].capability # todo[1]
    <3> TAKE k \in 1..n
    <3>1. did'[k] = did[k] /\ 1 \in 1..m
      BY <1>5, <1>7
    <3>2. did[k].capability # todo[1]
      BY <1>0, <3>1
    <3> QED
      BY <3>1, <3>2
  <2>2. did'[n + 1].capability = todo[1]
    BY <1>2, <1>3, <1>5
  <2>3. CASE i \in 1..n /\ j \in 1..n
    BY <1>1, <1>5, <1>9, <2>3 DEF NoneTwice
  <2>4. CASE i = n + 1 /\ j \in 1..n
    BY <1>9, <2>1, <2>2, <2>4
  <2>5. CASE i \in 1..n /\ j = n + 1
    BY <1>9, <2>1, <2>2, <2>5
  <2> QED
    BY <2>3, <2>4, <2>5
<1>10. ASSUME NEW i \in 1..(m - 1), NEW j \in 1..(m - 1), todo'[i] = todo'[j] PROVE i = j
  <2>1. todo[i + 1] = todo[j + 1] /\ i + 1 \in 1..m /\ j + 1 \in 1..m
    BY <1>7, <1>10
  <2>2. i + 1 = j + 1
    BY <1>1, <2>1 DEF NoneTwice
  <2> QED
    BY <1>1, <2>2
<1>11. ASSUME NEW i \in 1..n \cup {n + 1}, NEW j \in 1..(m - 1) PROVE did'[i].capability # todo'[j]
  <2>1. todo'[j] = todo[j + 1] /\ j + 1 \in 1..m /\ todo[j + 1] # todo[1]
    BY <1>7
  <2>2. CASE i \in 1..n
    <3>1. did'[i] = did[i]
      BY <1>5, <2>2
    <3>2. did[i].capability # todo[j + 1]
      BY <1>0, <2>1, <2>2
    <3> QED
      BY <2>1, <3>1, <3>2
  <2>3. CASE i = n + 1
    BY <1>2, <1>3, <1>5, <2>1, <2>3
  <2> QED
    BY <2>2, <2>3
<1>12. NoneTwice'
  <2>1. \A i, j \in DOMAIN did' : did'[i].capability = did'[j].capability => i = j
    BY <1>6, <1>9
  <2>2. \A i, j \in DOMAIN todo' : todo'[i] = todo'[j] => i = j
    BY <1>6, <1>10
  <2>3. \A i \in DOMAIN did', j \in DOMAIN todo' : did'[i].capability # todo'[j]
    BY <1>6, <1>11
  <2> QED
    BY <2>1, <2>2, <2>3 DEF NoneTwice
<1>13. /\ AllFailed /\ ~ok => AllFailed'
       /\ ok => ~AllFailed'
  <2>1. n + 1 \in DOMAIN did' /\ did'[n + 1].success = ok
    BY <1>3, <1>5, <1>6
  <2>2. \A i \in 1..n : did'[i] = did[i] /\ i \in DOMAIN did
    BY <1>1, <1>5
  <2> QED
    BY <1>6, <2>1, <2>2 DEF AllFailed
<1>14. Len(did') = Len(did) + 1
  BY <1>5 DEF n
<1> QED
  BY <1>5, <1>6, <1>12, <1>13, <1>14

\* A decision keeps the invariant of the loop.
LEMMA DecideKeeps == ASSUME LoopInv, Adaptive!Decide PROVE LoopInv'
<1>1. PICK s \in Adaptive!Suggested : todo' = s
  BY DEF Adaptive!Decide
<1>2. todo' \in Seq(LoopCapabilities) /\ \A i, j \in DOMAIN todo' : todo'[i] = todo'[j] => i = j
  <2>1. PICK n \in 0..(MaxAlternatives + 1) : s \in [1..n -> LoopCapabilities]
    BY <1>1 DEF Adaptive!Suggested
  <2>2. n \in Nat
    BY LoopConstants
  <2>3. s \in Seq(LoopCapabilities)
    BY <2>1, <2>2, SeqDef
  <2> QED
    BY <1>1, <2>3 DEF Adaptive!Suggested
<1>3. did' = <<>> /\ tries' = 0 /\ pc' = "act" /\ trace'.success = FALSE
  BY DEF Adaptive!Decide, Adaptive!NoTrace
<1>4. did' \in Seq(Calls) /\ DOMAIN did' = {} /\ 0 \in 0..MaxRecovers
  BY <1>3, EmptySeq, LoopConstants
<1> QED
  BY <1>2, <1>3, <1>4 DEF LoopInv, NoneTwice

\* Acting keeps the invariant: the call is made once.
LEMMA ActKeeps == ASSUME LoopInv, Adaptive!Act PROVE LoopInv'
<1>1. pc = "act" /\ pc' = "verify" /\ did = <<>> /\ UNCHANGED <<tries, trace>>
  BY DEF Adaptive!Act, LoopInv
<1>2. Len(did) = 0
  BY <1>1, EmptySeq
<1>3. CASE UNCHANGED <<todo, did>>
  BY <1>1, <1>2, <1>3 DEF LoopInv, NoneTwice
<1>4. CASE todo # <<>> /\ todo' = Tail(todo) /\ \E ok \in BOOLEAN : did' = Append(did, [capability |-> Head(todo), success |-> ok])
  <2>1. PICK ok \in BOOLEAN : did' = Append(did, [capability |-> Head(todo), success |-> ok])
    BY <1>4
  <2>2. todo' \in Seq(LoopCapabilities) /\ did' \in Seq(Calls) /\ Len(did') = Len(did) + 1 /\ NoneTwice'
    BY <1>4, <2>1, CallKeepsOnce
  <2>3. Len(did') <= 1
    BY <1>2, <2>2
  <2> QED
    BY <1>1, <2>2, <2>3 DEF LoopInv
<1> QED
  BY <1>3, <1>4 DEF Adaptive!Act

\* The answer of the verification keeps the invariant.
LEMMA VerifyKeeps == ASSUME LoopInv, Adaptive!VerifyAnswers PROVE LoopInv'
<1>1. pc = "verify" /\ UNCHANGED <<todo, tries, did>> /\ did \in Seq(Calls) /\ Len(did) \in Nat /\ Len(did) <= 1 /\ DOMAIN did = 1..Len(did)
  BY LenProperties DEF Adaptive!VerifyAnswers, LoopInv
<1>2. Adaptive!Succeeded \in BOOLEAN /\ (Adaptive!Succeeded <=> ~AllFailed)
  <2>1. CASE Len(did) = 0
    <3>1. did = <<>> /\ DOMAIN did = {}
      BY <1>1, <2>1, EmptySeq
    <3> QED
      BY <3>1 DEF Adaptive!Succeeded, AllFailed
  <2>2. CASE Len(did) = 1
    <3>1. did # <<>> /\ DOMAIN did = {1} /\ did[1] \in Calls
      BY <1>1, <2>2, EmptySeq, ElementOfSeq
    <3> QED
      BY <2>2, <3>1 DEF Adaptive!Succeeded, AllFailed, Calls
  <2> QED
    BY <1>1, <2>1, <2>2
<1>3. NoneTwice' /\ (AllFailed' <=> AllFailed)
  BY <1>1 DEF LoopInv, NoneTwice, AllFailed
<1>4. CASE Adaptive!Succeeded
  <2>1. pc' = "idle" /\ trace' = Adaptive!Success
    BY <1>4 DEF Adaptive!VerifyAnswers, Adaptive!Answer
  <2>2. trace'.success = TRUE
    BY <2>1 DEF Adaptive!Success
  <2> QED
    BY <1>1, <1>2, <1>3, <1>4, <2>1, <2>2 DEF LoopInv
<1>5. CASE ~Adaptive!Succeeded /\ ~Verifying
  <2>1. pc' = "idle" /\ trace' = Adaptive!NoTrace
    BY <1>5 DEF Adaptive!VerifyAnswers, Adaptive!Answer
  <2> QED
    BY <1>1, <1>2, <1>3, <1>5, <2>1 DEF LoopInv, Adaptive!NoTrace
<1>6. CASE ~Adaptive!Succeeded /\ Verifying
  <2>1. pc' = "recover" /\ trace' = trace
    BY <1>6 DEF Adaptive!VerifyAnswers
  <2> QED
    BY <1>1, <1>2, <1>3, <1>6, <2>1 DEF LoopInv
<1> QED
  BY <1>4, <1>5, <1>6

\* A recovery keeps the invariant: everything tried so far failed.
LEMMA RecoverKeeps == ASSUME LoopInv, Adaptive!Recover PROVE LoopInv'
<1>1. pc = "recover" /\ AllFailed
  BY DEF Adaptive!Recover, LoopInv
<1>2. CASE todo = <<>> \/ tries = MaxRecovers
  <2>1. pc' = "idle" /\ trace' = Adaptive!NoTrace /\ UNCHANGED <<todo, tries, did>>
    BY <1>2 DEF Adaptive!Recover, Adaptive!Answer
  <2> QED
    BY <1>1, <2>1 DEF LoopInv, NoneTwice, AllFailed, Adaptive!NoTrace
<1>3. CASE ~(todo = <<>> \/ tries = MaxRecovers)
  <2>1. PICK ok \in BOOLEAN :
          /\ tries' = tries + 1 /\ did' = Append(did, [capability |-> Head(todo), success |-> ok])
          /\ todo' = Tail(todo)
          /\ IF ok THEN Adaptive!Answer([success |-> TRUE, by |-> Head(todo)]) ELSE UNCHANGED <<pc, trace>>
    BY <1>3 DEF Adaptive!Recover
  <2>2. /\ todo' \in Seq(LoopCapabilities) /\ did' \in Seq(Calls) /\ NoneTwice'
        /\ (AllFailed /\ ~ok => AllFailed') /\ (ok => ~AllFailed')
    BY <1>3, <2>1, CallKeepsOnce
  <2>3. tries' \in 0..MaxRecovers
    BY <1>3, <2>1, LoopConstants DEF LoopInv
  <2>4. CASE ok
    <3>1. pc' = "idle" /\ trace'.success = TRUE
      BY <2>1, <2>4 DEF Adaptive!Answer
    <3> QED
      BY <2>2, <2>3, <2>4, <3>1 DEF LoopInv
  <2>5. CASE ~ok
    <3>1. pc' = "recover" /\ trace' = trace
      BY <1>1, <2>1, <2>5
    <3> QED
      BY <1>1, <2>2, <2>3, <2>5, <3>1 DEF LoopInv
  <2> QED
    BY <2>4, <2>5
<1> QED
  BY <1>2, <1>3

\* An exception keeps the invariant.
LEMMA RaiseKeeps == ASSUME LoopInv, Adaptive!Raise PROVE LoopInv'
<1>1. todo # <<>> /\ todo' = Tail(todo) /\ pc' = "idle" /\ trace' = Adaptive!NoTrace /\ UNCHANGED <<tries, did>> /\ pc \in {"act", "recover"}
  BY DEF Adaptive!Raise, Adaptive!Answer
<1>2. AllFailed
  <2>1. did = <<>> => DOMAIN did = {}
    BY EmptySeq
  <2> QED
    BY <1>1, <2>1 DEF LoopInv, AllFailed
<1>3. AllFailed'
  BY <1>1, <1>2 DEF AllFailed
<1> DEFINE all == Append(did, [capability |-> Head(todo), success |-> FALSE])
<1>4. todo \in Seq(LoopCapabilities) /\ DOMAIN todo = 1..Len(todo) /\ Len(todo) \in Nat \ {0} /\ NoneTwice
  BY <1>1, LenProperties, EmptySeq DEF LoopInv
<1>5. todo' \in Seq(LoopCapabilities) /\ DOMAIN todo' = 1..(Len(todo) - 1) /\ \A j \in 1..(Len(todo) - 1) : todo'[j] = todo[j + 1]
  <2>1. Tail(todo) \in Seq(LoopCapabilities) /\ Len(Tail(todo)) = Len(todo) - 1 /\ \A j \in 1..(Len(todo) - 1) : Tail(todo)[j] = todo[j + 1]
    BY <1>1, <1>4, HeadTailProperties
  <2> QED
    BY <1>1, <2>1, LenProperties
<1>6. \A j \in 1..(Len(todo) - 1) : j + 1 \in 1..Len(todo)
  BY <1>4
<1>7. ASSUME NEW i \in 1..(Len(todo) - 1), NEW j \in 1..(Len(todo) - 1), todo'[i] = todo'[j] PROVE i = j
  <2>1. todo[i + 1] = todo[j + 1] /\ i + 1 \in DOMAIN todo /\ j + 1 \in DOMAIN todo
    BY <1>4, <1>5, <1>6, <1>7
  <2>2. i + 1 = j + 1
    BY <1>4, <2>1 DEF NoneTwice
  <2> QED
    BY <1>4, <2>2
<1>8. NoneTwice'
  <2>1. \A i \in DOMAIN did, j \in 1..(Len(todo) - 1) : did[i].capability # todo'[j]
    BY <1>4, <1>5, <1>6 DEF NoneTwice
  <2> QED
    BY <1>1, <1>4, <1>5, <1>7, <2>1 DEF NoneTwice
<1> QED
  BY <1>1, <1>3, <1>5, <1>8 DEF LoopInv, Adaptive!NoTrace

\* Every step of the loop keeps its invariant.
LEMMA LoopSteps == LoopInv /\ Adaptive!Next => LoopInv'
BY DecideKeeps, ActKeeps, VerifyKeeps, RecoverKeeps, RaiseKeeps DEF Adaptive!Next

\* The invariant gives the types and a report that matches what was done.
LEMMA LoopOwes == LoopInv => Adaptive!TypeOK /\ Adaptive!ReportMatchesEffects
BY DEF LoopInv, NoneTwice, AllFailed, Adaptive!TypeOK, Adaptive!ReportMatchesEffects

-----------------------------------------------------------------------------
(* The reconciler's table. *)

TableInv ==
  /\ Table!TypeOK
  /\ happened /\ type = "filesystem.write" => target = "expected"
  /\ happened /\ type = "filesystem.delete" => target = "missing"
  /\ verdict = Table!Pending \/ verdict = Table!AnalyzeEvidence(type, evidence)

\* Evidence has one of three verdicts.
LEMMA VerdictIs ==
  ASSUME NEW t \in Table!OperationTypes, NEW e \in Table!Evidence
  PROVE  Table!AnalyzeEvidence(t, e) \in {Table!MarkCompleted, Table!Retry, Table!RequireUser}
BY DEF Table!AnalyzeEvidence, Table!AnalyzeByType, Table!AnalyzeFilesystemWrite, Table!AnalyzeFilesystemDelete,
       Table!AnalyzeShellExecute, Table!AnalyzeGitOperation, Table!AnalyzeMcpTool, Table!AnalyzeModelCall,
       Table!AnalyzePhaseOperation

\* Verdicts have a decision and a status.
LEMMA VerdictTypes ==
  {Table!MarkCompleted, Table!Retry, Table!RequireUser, Table!Pending} \subseteq
    [decision : Table!Decisions, status : {"unknown", "reconciled_completed", "reconciled_not_executed", "requires_decision"}]
BY DEF Table!MarkCompleted, Table!Retry, Table!RequireUser, Table!Pending, Table!Verdict, Table!Decisions

\* What is collected is evidence.
LEMMA CollectedIs ==
  ASSUME NEW t \in Table!OperationTypes, NEW g \in Table!TargetStates
  PROVE  Table!CollectEvidence(t, g) \in Table!Evidence
<1>1. Table!NoEvidence \in Table!Evidence /\ \A b \in BOOLEAN : Table!YesNo(b) \in {"yes", "no", "absent"}
  BY DEF Table!NoEvidence, Table!Evidence, Table!YesNo
<1>2. CASE t = "filesystem.write" /\ g = "undecodable"
  BY <1>1, <1>2 DEF Table!CollectEvidence, Table!Evidence
<1>3. CASE t = "filesystem.write" /\ g # "undecodable"
  BY <1>1, <1>3 DEF Table!CollectEvidence, Table!Evidence
<1>4. CASE t = "filesystem.read"
  BY <1>1, <1>4 DEF Table!CollectEvidence, Table!Evidence
<1>5. CASE t = "filesystem.delete"
  BY <1>1, <1>5 DEF Table!CollectEvidence, Table!Evidence
<1>6. CASE t \notin {"filesystem.write", "filesystem.read", "filesystem.delete"}
  BY <1>1, <1>6 DEF Table!CollectEvidence
<1> QED
  BY <1>2, <1>3, <1>4, <1>5, <1>6

\* The invariant of the reconciler's table holds initially.
LEMMA TableInit == Table!Init => TableInv
<1> SUFFICES ASSUME Table!Init PROVE TableInv
  OBVIOUS
<1>1. evidence \in Table!Evidence
  BY DEF Table!Init, Table!NoEvidence, Table!Evidence
<1>2. type \in Table!OperationTypes /\ happened \in BOOLEAN /\ verdict = Table!Pending
  BY DEF Table!Init
<1>3. /\ target \in Table!TargetStates
      /\ happened /\ type = "filesystem.write" => target = "expected"
      /\ happened /\ type = "filesystem.delete" => target = "missing"
  BY DEF Table!Init, Table!TargetStates
<1> QED
  BY <1>1, <1>2, <1>3, VerdictTypes DEF TableInv, Table!TypeOK

\* A table that rests keeps its invariant.
LEMMA TableRests == TableInv /\ UNCHANGED tableVars => TableInv'
BY DEF TableInv, Table!TypeOK, tableVars

\* Every step of the reconciler keeps the invariant.
LEMMA TableSteps == TableInv /\ Table!Next => TableInv'
<1> SUFFICES ASSUME TableInv, Table!Next PROVE TableInv'
  OBVIOUS
<1>1. UNCHANGED <<type, target, happened>> /\ verdict' = Table!AnalyzeEvidence(type, evidence')
  BY DEF Table!Next, Table!ReconcileByDefault, Table!ReconcileWith
<1>2. evidence' \in Table!Evidence
  <2>1. CASE Table!ReconcileByDefault
    BY <2>1, CollectedIs DEF Table!ReconcileByDefault, TableInv, Table!TypeOK
  <2>2. ASSUME NEW e \in [Table!KeysOf(type) -> {"yes", "no", "absent"}], Table!ReconcileWith(e) PROVE evidence' \in Table!Evidence
    <3>1. evidence' = [k \in Table!EvidenceKeys |-> IF k \in Table!KeysOf(type) THEN e[k] ELSE "absent"]
      BY <2>2 DEF Table!ReconcileWith
    <3>2. \A k \in Table!KeysOf(type) : e[k] \in {"yes", "no", "absent"}
      OBVIOUS
    <3> HIDE DEF Table!KeysOf
    <3> QED
      BY <3>1, <3>2 DEF Table!Evidence
  <2> QED
    BY <2>1, <2>2 DEF Table!Next
<1>3. verdict' \in {Table!MarkCompleted, Table!Retry, Table!RequireUser}
  BY <1>1, <1>2, VerdictIs DEF TableInv, Table!TypeOK
<1> QED
  BY <1>1, <1>2, <1>3, VerdictTypes DEF TableInv, Table!TypeOK

\* No verdict is another.
LEMMA VerdictsDiffer ==
  /\ Table!Retry # Table!MarkCompleted /\ Table!Retry # Table!RequireUser /\ Table!MarkCompleted # Table!RequireUser
  /\ Table!Pending # Table!Retry
BY DEF Table!MarkCompleted, Table!Retry, Table!RequireUser, Table!Pending, Table!Verdict

\* The invariant gives the types, a default verdict that is true, and no retry on silence.
LEMMA ReconcilingOwes == TableInv => Table!TypeOK /\ Table!DefaultVerdictIsTrue /\ Table!RetryRespectsIdempotency
<1> SUFFICES ASSUME TableInv PROVE Table!DefaultVerdictIsTrue /\ Table!RetryRespectsIdempotency
  BY DEF TableInv
<1>1. Table!RetryRespectsIdempotency
  <2> SUFFICES ASSUME verdict = Table!Retry, Table!DetermineRetryPolicy(type) \in {"unsafe_retry", "user_decision"}
               PROVE  evidence["side_effects_detected"] = "no"
    BY DEF Table!RetryRespectsIdempotency
  <2>1. verdict = Table!AnalyzeEvidence(type, evidence) /\ type \in Table!OperationTypes
    BY VerdictsDiffer DEF TableInv, Table!TypeOK
  <2>2. type \in {"shell.execute", "mcp.tool", "capability"}
    BY <2>1 DEF Table!OperationTypes, Table!DetermineRetryPolicy, Table!Classify
  <2>3. Table!AnalyzeByType(type, evidence) = Table!Retry
    BY <2>1, VerdictsDiffer DEF Table!AnalyzeEvidence
  <2>4. CASE type = "shell.execute"
    <3>1. Table!AnalyzeByType(type, evidence) = Table!AnalyzeShellExecute(evidence)
      BY <2>4 DEF Table!AnalyzeByType, Table!PhaseTypes
    <3> QED
      BY <2>3, <3>1, VerdictsDiffer DEF Table!AnalyzeShellExecute
  <2>5. CASE type = "mcp.tool"
    BY <2>3, <2>5, VerdictsDiffer DEF Table!AnalyzeByType, Table!AnalyzeMcpTool, Table!PhaseTypes
  <2>6. CASE type = "capability"
    BY <2>3, <2>6, VerdictsDiffer DEF Table!AnalyzeByType, Table!PhaseTypes
  <2> QED
    BY <2>2, <2>4, <2>5, <2>6
<1>2. Table!DefaultVerdictIsTrue
  <2> SUFFICES ASSUME Table!Default, type \in {"filesystem.write", "filesystem.delete"}
               PROVE  /\ verdict = Table!MarkCompleted => target = IF type = "filesystem.write" THEN "expected" ELSE "missing"
                      /\ verdict = Table!Retry => ~happened
    BY DEF Table!DefaultVerdictIsTrue
  <2> DEFINE e == Table!CollectEvidence(type, target)
  <2>1. verdict = Table!AnalyzeEvidence(type, e) /\ target \in Table!TargetStates
    BY DEF TableInv, Table!Default, Table!TypeOK
  <2>2. CASE type = "filesystem.delete"
    <3>1. e = [Table!NoEvidence EXCEPT !["file_exists"] = Table!YesNo(target # "missing"), !["delete_completed"] = Table!YesNo(target = "missing")]
      BY <2>2 DEF Table!CollectEvidence, Table!YesNo
    <3> HIDE DEF e
    <3>2. /\ e["collection_error"] = "absent" /\ e["file_exists"] = Table!YesNo(target # "missing")
          /\ e["delete_completed"] = Table!YesNo(target = "missing")
      BY <3>1 DEF Table!NoEvidence, Table!EvidenceKeys
    <3>3. verdict = Table!AnalyzeFilesystemDelete(e)
      BY <2>1, <2>2, <3>2 DEF Table!AnalyzeEvidence, Table!AnalyzeByType, Table!PhaseTypes
    <3>4. verdict = IF target = "missing" THEN Table!MarkCompleted ELSE Table!Retry
      BY <3>2, <3>3 DEF Table!AnalyzeFilesystemDelete, Table!Got, Table!YesNo
    <3> QED
      BY <2>2, <3>4, VerdictsDiffer DEF TableInv
  <2>3. CASE type = "filesystem.write" /\ target = "undecodable"
    <3>1. e = [Table!NoEvidence EXCEPT !["collection_error"] = "yes"]
      BY <2>3 DEF Table!CollectEvidence
    <3>2. e["collection_error"] = "yes"
      BY <3>1 DEF Table!NoEvidence, Table!EvidenceKeys
    <3> HIDE DEF e
    <3>3. verdict = Table!RequireUser
      BY <2>1, <3>2 DEF Table!AnalyzeEvidence
    <3> QED
      BY <3>3, VerdictsDiffer
  <2>4. CASE type = "filesystem.write" /\ target # "undecodable"
    <3>1. e = [Table!NoEvidence EXCEPT !["file_exists"] = Table!YesNo(target # "missing"), !["content_matches"] = Table!YesNo(target = "expected"),
                                       !["write_completed"] = Table!YesNo(target # "missing" /\ target # "unreadable")]
      BY <2>4 DEF Table!CollectEvidence
    <3> HIDE DEF e
    <3>2. /\ e["collection_error"] = "absent" /\ e["file_exists"] = Table!YesNo(target # "missing")
          /\ e["content_matches"] = Table!YesNo(target = "expected")
          /\ e["write_completed"] = Table!YesNo(target # "missing" /\ target # "unreadable")
      BY <3>1 DEF Table!NoEvidence, Table!EvidenceKeys
    <3>3. verdict = Table!AnalyzeFilesystemWrite(e)
      BY <2>1, <2>4, <3>2 DEF Table!AnalyzeEvidence, Table!AnalyzeByType, Table!PhaseTypes
    <3>4. /\ Table!Got(e, "file_exists", "no") = "yes" <=> target # "missing"
          /\ Table!Got(e, "content_matches", "no") = "yes" <=> target = "expected"
          /\ Table!Got(e, "write_completed", "no") = "yes" <=> target # "missing" /\ target # "unreadable"
      BY <3>2 DEF Table!Got, Table!YesNo
    <3>5. CASE target = "missing"
      <4>1. verdict = Table!Retry
        BY <3>3, <3>4, <3>5 DEF Table!AnalyzeFilesystemWrite
      <4> QED
        BY <2>4, <3>5, <4>1, VerdictsDiffer DEF TableInv
    <3>6. CASE target = "expected"
      <4>1. verdict = Table!MarkCompleted
        BY <3>3, <3>4, <3>6 DEF Table!AnalyzeFilesystemWrite
      <4> QED
        BY <2>4, <3>6, <4>1, VerdictsDiffer
    <3>7. CASE target \notin {"missing", "expected"}
      <4>1. verdict = Table!RequireUser
        BY <3>3, <3>4, <3>7 DEF Table!AnalyzeFilesystemWrite
      <4> QED
        BY <4>1, VerdictsDiffer
    <3> QED
      BY <3>5, <3>6, <3>7
  <2> QED
    BY <2>2, <2>3, <2>4
<1> QED
  BY <1>1, <1>2

-----------------------------------------------------------------------------
(* The router of capabilities. *)

RouterInv ==
  /\ Router!TypeOK /\ history \in [Router!Registered -> Seq(BOOLEAN)]
  /\ result.op = "fallback" =>
       \A c \in result.ran : c # result.asked /\ Router!SameType(c, result.asked) /\ Router!Available(c)

\* There is a capability, and the history has a bound.
LEMMA RouterConstants ==
  /\ RouterIds \in Seq(Router!Registered) /\ RouterIds # <<>> /\ MaxHistory \in Nat
  /\ Len(RouterIds) \in Nat \ {0} /\ DOMAIN RouterIds = 1..Len(RouterIds)
<1>1. RouterIds \in Seq(Router!Registered) /\ RouterIds # <<>> /\ MaxHistory \in Nat
  BY RecordsAssumption DEF Router!CapabilitiesAssumption
<1>2. Len(RouterIds) \in Nat /\ DOMAIN RouterIds = 1..Len(RouterIds) /\ Len(RouterIds) # 0
  BY <1>1, LenProperties, EmptySeq
<1> QED
  BY <1>1, <1>2

\* Every capability has its place in the order of registration.
LEMMA PlaceIs ==
  ASSUME NEW c \in Router!Registered
  PROVE  Router!Place(c) \in 1..Len(RouterIds) /\ RouterIds[Router!Place(c)] = c
<1>1. \E i \in DOMAIN RouterIds : RouterIds[i] = c
  BY DEF Router!Registered
<1>2. Router!Place(c) \in DOMAIN RouterIds /\ RouterIds[Router!Place(c)] = c
  BY <1>1 DEF Router!Place
<1> QED
  BY <1>2, RouterConstants

\* The instance counts as FiniteSets does.
LEMMA RouterCardinality == \A S : Router!Cardinality(S) = Cardinality(S)
BY DEF Router!Cardinality, Cardinality

\* What cannot run has no points, everything else has some.
LEMMA ScoreIs ==
  ASSUME history \in [Router!Registered -> Seq(BOOLEAN)], NEW c \in Router!Registered
  PROVE  /\ Router!Score(c) \in Int
         /\ (Router!Available(c) => Router!Score(c) > 0) /\ (~Router!Available(c) => Router!Score(c) = 0)
<1> DEFINE n == Len(history[c])
<1> DEFINE s == Router!Successes(c)
<1> DEFINE rate == (1800 * s) \div n
<1>1. n \in Nat /\ DOMAIN history[c] = 1..n /\ (history[c] # <<>> => n > 0)
  BY LenProperties, EmptySeq
<1>2. s \in Nat
  <2>1. IsFiniteSet(1..n)
    BY <1>1, FS_Interval
  <2>2. IsFiniteSet({i \in DOMAIN history[c] : history[c][i]})
    BY <1>1, <2>1, FS_Subset
  <2> QED
    BY <2>2, FS_CardinalityType, RouterCardinality DEF Router!Successes
<1>3. n > 0 => rate \in Nat
  <2>1. ASSUME NEW x \in Nat, NEW y \in Nat, y > 0 PROVE x \div y \in Nat
    BY <2>1
  <2> DEFINE z == 1800 * s
  <2>2. n \in Nat /\ z \in Nat
    BY <1>1, <1>2
  <2> HIDE DEF s, n, z
  <2>3. n > 0 => z \div n \in Nat
    BY <2>1, <2>2
  <2> QED
    BY <2>3 DEF z
<1>4. Router!Experience(c) \in Nat
  <2>1. CASE history[c] = <<>>
    BY <2>1 DEF Router!Experience
  <2>2. CASE history[c] # <<>>
    <3>1. rate \in Nat
      BY <1>1, <1>3, <2>2
    <3>2. Router!Experience(c) = rate + (IF c \in recent THEN 600 ELSE 0)
      BY <2>2 DEF Router!Experience
    <3> HIDE DEF rate
    <3> QED
      BY <3>1, <3>2
  <2> QED
    BY <2>1, <2>2
<1> DEFINE e == Router!Experience(c)
<1>5. e \in Nat
  BY <1>4
<1>6. Router!Score(c) = IF Router!Available(c) THEN 6000 + (IF Router!Healthy(c) THEN 3000 ELSE 0) + e ELSE 0
  BY DEF Router!Score
<1> HIDE DEF e
<1> QED
  BY <1>5, <1>6

Beats(c, d) == Router!Score(c) > Router!Score(d) \/ (Router!Score(c) = Router!Score(d) /\ Router!Place(c) < Router!Place(d))

\* Among the capabilities that are found one beats the others.  The proof looks for
\* the first place up to which there is no such one.
LEMMA BestIs ==
  ASSUME history \in [Router!Registered -> Seq(BOOLEAN)], NEW cs \in SUBSET Router!Registered, cs # {}
  PROVE  Router!Best(cs) \in cs /\ \A d \in cs \ {Router!Best(cs)} : Beats(Router!Best(cs), d)
<1> DEFINE size == Len(RouterIds)
<1> DEFINE upto(n) == {c \in cs : Router!Place(c) <= n}
<1> DEFINE Won(n) == \E c \in upto(n) : \A d \in upto(n) \ {c} : Beats(c, d)
<1> DEFINE Lost == {n \in Nat : upto(n) # {} /\ ~Won(n)}
<1>1. \A c \in cs : Router!Place(c) \in 1..size /\ RouterIds[Router!Place(c)] = c /\ Router!Score(c) \in Int
  BY PlaceIs, ScoreIs
<1>2. Lost = {}
  <2> SUFFICES ASSUME Lost # {} PROVE FALSE
    OBVIOUS
  <2>1. Lost \in SUBSET Nat
    OBVIOUS
  <2> HIDE DEF Lost
  <2>2. PICK n \in Lost : \A m \in Lost : n <= m
    BY <2>1, LeastNatural
  <2>3. n \in Nat /\ upto(n) # {} /\ ~Won(n)
    BY <2>2 DEF Lost
  <2>4. n # 0
    <3> SUFFICES ASSUME n = 0 PROVE FALSE
      OBVIOUS
    <3>1. PICK c \in cs : Router!Place(c) <= 0
      BY <2>3
    <3> QED
      BY <1>1, <3>1
  <2>5. n - 1 \in Nat /\ n - 1 \notin Lost
    BY <2>2, <2>3, <2>4
  <2>6. upto(n - 1) # {} => Won(n - 1)
    BY <2>5 DEF Lost
  <2>7. CASE \A c \in cs : Router!Place(c) # n
    <3>1. ASSUME NEW c \in cs PROVE Router!Place(c) <= n <=> Router!Place(c) <= n - 1
      <4> DEFINE p == Router!Place(c)
      <4>1. p \in Int /\ p # n
        BY <1>1, <2>7
      <4> HIDE DEF p
      <4>2. p <= n <=> p <= n - 1
        BY <2>3, <4>1
      <4> QED
        BY <4>2 DEF p
    <3>2. upto(n) = upto(n - 1)
      BY <3>1
    <3> HIDE DEF upto
    <3> QED
      BY <2>3, <2>6, <3>2
  <2>8. CASE \E c \in cs : Router!Place(c) = n
    <3>1. PICK new \in cs : Router!Place(new) = n
      BY <2>8
    <3>2. upto(n) = upto(n - 1) \cup {new}
      <4>1. \A c \in cs : Router!Place(c) = n => c = new
        BY <1>1, <3>1
      <4>2. ASSUME NEW c \in cs PROVE Router!Place(c) <= n <=> (Router!Place(c) <= n - 1 \/ c = new)
        <5> DEFINE p == Router!Place(c)
        <5>1. p \in Int /\ (p = n <=> c = new)
          BY <1>1, <3>1, <4>1
        <5> HIDE DEF p
        <5>2. p <= n <=> (p <= n - 1 \/ c = new)
          BY <2>3, <5>1
        <5> QED
          BY <5>2 DEF p
      <4> QED
        BY <4>2
    <3>3. CASE upto(n - 1) = {}
      BY <2>3, <3>2, <3>3
    <3>4. CASE upto(n - 1) # {}
      <4>1. PICK old \in upto(n - 1) : \A d \in upto(n - 1) \ {old} : Beats(old, d)
        BY <2>6, <3>4
      <4>2. old \in cs /\ Router!Place(old) <= n - 1 /\ Router!Place(old) < n
        BY <1>1, <2>3, <4>1
      <4>3. \A d \in upto(n - 1) : d \in cs
        OBVIOUS
      <4>4. CASE Router!Score(new) > Router!Score(old)
        <5>1. \A d \in upto(n - 1) : Beats(new, d)
          <6> TAKE d \in upto(n - 1)
          <6>1. CASE d = old
            BY <4>4, <6>1 DEF Beats
          <6>2. CASE d # old
            <7>1. Beats(old, d)
              BY <4>1, <6>2
            <7>2. Router!Score(old) \in Int /\ Router!Score(d) \in Int /\ Router!Score(new) \in Int
              BY <1>1, <3>1, <4>2, <4>3
            <7> QED
              BY <4>4, <7>1, <7>2 DEF Beats
          <6> QED
            BY <6>1, <6>2
        <5> HIDE DEF upto
        <5>2. new \in upto(n) /\ \A d \in upto(n) \ {new} : Beats(new, d)
          BY <3>2, <5>1
        <5> QED
          BY <2>3, <5>2
      <4>5. CASE ~(Router!Score(new) > Router!Score(old))
        <5>1. Beats(old, new)
          BY <1>1, <3>1, <4>2, <4>5 DEF Beats
        <5> HIDE DEF upto
        <5>2. old \in upto(n) /\ \A d \in upto(n) \ {old} : Beats(old, d)
          BY <3>2, <4>1, <5>1
        <5> QED
          BY <2>3, <5>2
      <4> QED
        BY <4>4, <4>5
    <3> QED
      BY <3>3, <3>4
  <2> QED
    BY <2>7, <2>8
<1>3. size \in Nat /\ upto(size) = cs
  BY <1>1, RouterConstants
<1>4. \E c \in cs : \A d \in cs \ {c} : Beats(c, d)
  <2>1. upto(size) # {} => Won(size)
    BY <1>2, <1>3
  <2> HIDE DEF upto
  <2> QED
    BY <1>3, <2>1
<1>5. \E c \in cs : \A d \in cs \ {c} : Router!Score(c) > Router!Score(d)
                                       \/ (Router!Score(c) = Router!Score(d) /\ Router!Place(c) < Router!Place(d))
  BY <1>4 DEF Beats
<1> QED
  BY <1>5 DEF Router!Best, Beats

\* A run that is recorded keeps the histories and the fallback apart from what failed.
LEMMA RouterExecuteKeeps ==
  ASSUME RouterInv, NEW op, NEW asked, NEW c \in Router!Registered, Router!ExecuteWithFallbacks(op, asked, c),
         op = "fallback" => c # asked /\ Router!SameType(c, asked) /\ Router!Available(c)
  PROVE  RouterInv'
<1>1. PICK ok \in Router!Outcomes(c) :
         /\ history' = [history EXCEPT ![c] = Append(@, ok)]
         /\ result' = [op |-> op, asked |-> asked, ran |-> {c}, success |-> ok, fallback |-> op = "fallback"]
  BY DEF Router!ExecuteWithFallbacks
<1>2. ok \in BOOLEAN
  BY <1>1 DEF Router!Outcomes
<1>3. /\ usable \subseteq Router!Registered /\ responds \in [Router!Registered -> BOOLEAN] /\ recent \subseteq Router!Registered
      /\ \A d \in Router!Registered : history[d] \in Seq(BOOLEAN) /\ Len(history[d]) <= MaxHistory
      /\ history \in [Router!Registered -> Seq(BOOLEAN)]
  BY DEF RouterInv, Router!TypeOK
<1>4. Len(history[c]) < MaxHistory /\ usable' = usable /\ responds' = responds /\ recent' = recent \cup {c}
  BY DEF Router!ExecuteWithFallbacks
<1>5. Append(history[c], ok) \in Seq(BOOLEAN) /\ Len(Append(history[c], ok)) = Len(history[c]) + 1
  BY <1>2, <1>3, AppendProperties
<1>6. history' \in [Router!Registered -> Seq(BOOLEAN)]
  BY <1>1, <1>3, <1>5
<1>7. \A d \in Router!Registered : Len(history'[d]) <= MaxHistory
  <2> TAKE d \in Router!Registered
  <2>1. CASE d = c
    <3>1. Len(history'[d]) = Len(history[c]) + 1 /\ Len(history[c]) \in Nat
      BY <1>1, <1>3, <1>5, <2>1, LenProperties
    <3> QED
      BY <1>4, <3>1, RouterConstants
  <2>2. CASE d # c
    BY <1>1, <1>3, <2>2
  <2> QED
    BY <2>1, <2>2
<1>8. Router!TypeOK'
  BY <1>1, <1>3, <1>4, <1>7 DEF Router!TypeOK
<1>9. result'.op = "fallback" =>
        \A d \in result'.ran : d # result'.asked /\ Router!SameType(d, result'.asked) /\ Router!Available(d)
  BY <1>1
<1> QED
  BY <1>1, <1>4, <1>6, <1>8 DEF RouterInv, Router!SameType, Router!Available

\* A refusal keeps the invariant of the router.
LEMMA RefuseKeeps ==
  ASSUME RouterInv, NEW op, NEW c, NEW fallback, Router!Refuse(op, c, fallback)
  PROVE  RouterInv'
BY DEF RouterInv, Router!Refuse, Router!TypeOK

\* What the world and the clock change leaves no answer that could be wrong about it.
LEMMA ChangedKeeps ==
  ASSUME RouterInv, result' = Router!NoResult, usable' \subseteq Router!Registered,
         responds' \in [Router!Registered -> BOOLEAN], recent' \subseteq Router!Registered,
         history' \in [Router!Registered -> Seq(BOOLEAN)], \A c \in Router!Registered : Len(history'[c]) <= MaxHistory
  PROVE  RouterInv'
BY DEF RouterInv, Router!TypeOK, Router!NoResult

\* Routing keeps the invariant, with and without a fallback.
LEMMA RouteKeeps == ASSUME RouterInv, NEW c \in Router!Registered, Router!Route(c) PROVE RouterInv'
<1>1. CASE Router!ExecuteWithFallbacks("route", c, c)
  BY <1>1, RouterExecuteKeeps
<1>2. CASE \E configured \in BOOLEAN : Router!Refuse("route", c, configured)
  BY <1>2, RefuseKeeps
<1> QED
  BY <1>1, <1>2 DEF Router!Route

\* Routing to an alternative keeps the invariant.
LEMMA RouteFallbackKeeps == ASSUME RouterInv, NEW c \in Router!Registered, Router!RouteFallback(c) PROVE RouterInv'
<1>1. CASE Router!Alternatives(c) = {}
  BY <1>1, RefuseKeeps DEF Router!RouteFallback
<1>2. CASE Router!Alternatives(c) # {}
  <2> DEFINE best == Router!Best(Router!Alternatives(c))
  <2>1. Router!Alternatives(c) \in SUBSET Router!Registered
    BY DEF Router!Alternatives
  <2>2. best \in Router!Alternatives(c)
    BY <1>2, <2>1, BestIs DEF RouterInv
  <2>3. best \in Router!Registered /\ best # c /\ Router!SameType(c, best) /\ Router!Available(best)
    BY <2>2 DEF Router!Alternatives
  <2>4. Router!SameType(best, c)
    BY <2>3 DEF Router!SameType
  <2>5. Router!ExecuteWithFallbacks("fallback", c, best)
    BY <1>2 DEF Router!RouteFallback
  <2> HIDE DEF best
  <2> QED
    BY <2>3, <2>4, <2>5, RouterExecuteKeeps
<1> QED
  BY <1>1, <1>2

\* What changes around the router keeps its invariant.
LEMMA WorldKeeps ==
  ASSUME RouterInv,
         \/ \E c \in Router!Registered : Router!Change(c)
         \/ \E cs \in {Router!Registered} \cup {{c} : c \in Router!Registered} : Router!ClearHistory(cs)
         \/ Router!Age
  PROVE  RouterInv'
<1>1. /\ usable \subseteq Router!Registered /\ responds \in [Router!Registered -> BOOLEAN] /\ recent \subseteq Router!Registered
      /\ \A d \in Router!Registered : Len(history[d]) <= MaxHistory
      /\ history \in [Router!Registered -> Seq(BOOLEAN)]
  BY DEF RouterInv, Router!TypeOK
<1>2. ASSUME NEW c \in Router!Registered, Router!Change(c) PROVE RouterInv'
  <2>1. /\ usable' \subseteq Router!Registered /\ responds' \in [Router!Registered -> BOOLEAN]
        /\ recent' = recent /\ history' = history /\ result' = Router!NoResult
    BY <1>1, <1>2 DEF Router!Change, Router!SymDiff
  <2> QED
    BY <1>1, <2>1, ChangedKeeps
<1>3. ASSUME NEW cs, Router!ClearHistory(cs) PROVE RouterInv'
  <2>1. /\ usable' = usable /\ responds' = responds /\ recent' \subseteq Router!Registered /\ result' = Router!NoResult
        /\ history' = [c \in Router!Registered |-> IF c \in cs THEN <<>> ELSE history[c]]
    BY <1>1, <1>3 DEF Router!ClearHistory
  <2>2. <<>> \in Seq(BOOLEAN) /\ Len(<<>>) = 0
    BY EmptySeq
  <2>3. history' \in [Router!Registered -> Seq(BOOLEAN)]
    BY <1>1, <2>1, <2>2
  <2>4. \A c \in Router!Registered : Len(history'[c]) <= MaxHistory
    BY <1>1, <2>1, <2>2, RouterConstants
  <2> QED
    BY <1>1, <2>1, <2>3, <2>4, ChangedKeeps
<1>4. CASE Router!Age
  <2>1. usable' = usable /\ responds' = responds /\ recent' = {} /\ history' = history /\ result' = Router!NoResult
    BY <1>4 DEF Router!Age
  <2> QED
    BY <1>1, <2>1, ChangedKeeps
<1> QED
  BY <1>2, <1>3, <1>4

\* Every step of the router keeps its invariant.
LEMMA RouterSteps == RouterInv /\ Router!Next => RouterInv'
<1> SUFFICES ASSUME RouterInv, Router!Next PROVE RouterInv'
  OBVIOUS
<1>1. ASSUME NEW cs \in (SUBSET Router!Registered) \ {{}}, Router!RouteByQuery(cs) PROVE RouterInv'
  <2> DEFINE best == Router!Best(cs)
  <2>1. cs \in SUBSET Router!Registered /\ cs # {}
    OBVIOUS
  <2>2. best \in cs
    BY <2>1, BestIs DEF RouterInv
  <2>3. best \in Router!Registered
    BY <2>1, <2>2
  <2>4. Router!ExecuteWithFallbacks("query", best, best)
    BY <1>1 DEF Router!RouteByQuery
  <2> HIDE DEF best
  <2> QED
    BY <2>3, <2>4, RouterExecuteKeeps
<1> QED
  BY <1>1, RouteKeeps, RouteFallbackKeeps, WorldKeeps DEF Router!Next

\* The invariant of the router holds initially.
LEMMA RouterInit == Router!Init => RouterInv
<1> SUFFICES ASSUME Router!Init PROVE RouterInv
  OBVIOUS
<1>1. <<>> \in Seq(BOOLEAN) /\ Len(<<>>) = 0
  BY EmptySeq
<1>2. history \in [Router!Registered -> Seq(BOOLEAN)] /\ \A c \in Router!Registered : Len(history[c]) <= MaxHistory
  BY <1>1, RouterConstants DEF Router!Init
<1>3. responds \in [Router!Registered -> BOOLEAN] /\ usable \subseteq Router!Registered /\ recent \subseteq Router!Registered
  BY DEF Router!Init
<1>4. result.op = "none" /\ result.success = FALSE
  BY DEF Router!Init, Router!NoResult
<1> QED
  BY <1>2, <1>3, <1>4 DEF RouterInv, Router!TypeOK

\* A router that rests keeps its invariant.
LEMMA RouterRests == RouterInv /\ UNCHANGED routerVars => RouterInv'
BY DEF RouterInv, routerVars, Router!TypeOK, Router!SameType, Router!Available

\* What cannot run is never the best while another match can.
LEMMA RouterOwes == RouterInv => Router!TypeOK /\ Router!ChoiceIsSound
<1> SUFFICES ASSUME RouterInv PROVE Router!TypeOK /\ Router!ChoiceIsSound
  OBVIOUS
<1>1. ASSUME NEW cs \in (SUBSET Router!Registered) \ {{}}, NEW c \in cs, Router!Available(c)
      PROVE  Router!Available(Router!Best(cs))
  <2> DEFINE best == Router!Best(cs)
  <2>1. best \in cs /\ \A d \in cs \ {best} : Beats(best, d)
    BY BestIs DEF RouterInv
  <2> HIDE DEF best
  <2>2. \A d \in cs : /\ Router!Score(d) \in Int
                      /\ (Router!Available(d) => Router!Score(d) > 0) /\ (~Router!Available(d) => Router!Score(d) = 0)
    BY ScoreIs DEF RouterInv
  <2>3. CASE c # best
    <3>1. Beats(best, c)
      BY <2>1, <2>3
    <3>2. Router!Score(best) > 0
      BY <1>1, <2>1, <2>2, <3>1 DEF Beats
    <3>3. Router!Available(best)
      BY <2>1, <2>2, <3>2
    <3> QED
      BY <3>3 DEF best
  <2> QED
    BY <1>1, <2>3 DEF best
<1> QED
  BY <1>1 DEF RouterInv, Router!ChoiceIsSound

-----------------------------------------------------------------------------
(* The parts that judge. *)

\* A judgement is the answer to a question that may be asked.
JudgementInv == /\ judgement # <<>> => judgement[1] = Answer
                /\ (part \in Judging => input \in Questions[part])

\* What a verdict that allows says of the invocation, whatever the policy.
LEMMA AllowedIs ==
  ASSUME NEW v \in Kernel!Invocations
  PROVE  /\ Kernel!Evaluate(v).allowed <=>
              /\ ~v.banned /\ Kernel!SandboxAllows(v) /\ Kernel!Policies[v.policy][v.capability] = "allow"
              /\ ~(Kernel!Risk[Kernel!AssessInvocation(v)] > Kernel!Risk[v.max_risk])
         /\ (Kernel!Evaluate(v).allowed => Kernel!Evaluate(v).audit = {"permission_granted"})
<1> DEFINE permission == Kernel!Policies[v.policy][v.capability]
<1> DEFINE risky == Kernel!Risk[Kernel!AssessInvocation(v)] > Kernel!Risk[v.max_risk]
<1> DEFINE d == Kernel!Evaluate(v)
<1>1. CASE v.banned
  <2>1. d = Kernel!Decision(FALSE, "deny", "denied_capabilities", {"permission_denied"})
    BY <1>1 DEF Kernel!Evaluate
  <2>2. d.allowed = FALSE
    BY <2>1 DEF Kernel!Decision
  <2> QED
    BY <1>1, <2>2
<1>2. CASE ~v.banned /\ ~Kernel!SandboxAllows(v)
  <2>1. d = Kernel!Decision(FALSE, "deny", "sandbox", {"policy_violation"})
    BY <1>2 DEF Kernel!Evaluate
  <2>2. d.allowed = FALSE
    BY <2>1 DEF Kernel!Decision
  <2> QED
    BY <1>2, <2>2
<1>3. CASE ~v.banned /\ Kernel!SandboxAllows(v)
  <2>1. d = CASE permission = "deny" -> Kernel!Decision(FALSE, "deny", "capability_permission", {})
              [] permission = "ask"  -> Kernel!Decision(FALSE, "ask", "capability_permission", {})
              [] permission = "allow" /\ risky -> Kernel!Decision(FALSE, "deny", "risk_limit", {})
              [] OTHER -> Kernel!Decision(TRUE, "allow", "capability_permission", {"permission_granted"})
    BY <1>3 DEF Kernel!Evaluate
  <2>2. permission \in {"allow", "ask", "deny"}
    <3>1. v.policy \in {"default", "restrictive", "permissive"} /\ v.capability \in Kernel!Capabilities
      BY DEF Kernel!Invocations, Kernel!Policies
    <3>2. \A p \in {Kernel!DefaultPolicy, Kernel!RestrictivePolicy, Kernel!PermissivePolicy} :
            \A c \in Kernel!Capabilities : p[c] \in {"allow", "ask", "deny"}
      BY DEF Kernel!DefaultPolicy, Kernel!RestrictivePolicy, Kernel!PermissivePolicy
    <3>3. Kernel!Policies[v.policy] \in {Kernel!DefaultPolicy, Kernel!RestrictivePolicy, Kernel!PermissivePolicy}
      BY <3>1 DEF Kernel!Policies
    <3> QED
      BY <3>1, <3>2, <3>3
  <2> HIDE DEF risky, permission
  <2> HIDE DEF d
  <2>3. d.allowed <=> (permission = "allow" /\ ~risky)
    <3>1. CASE permission = "deny"
      <4>1. d = Kernel!Decision(FALSE, "deny", "capability_permission", {})
        BY <2>1, <3>1
      <4> QED
        BY <3>1, <4>1 DEF Kernel!Decision
    <3>2. CASE permission = "ask"
      <4>1. d = Kernel!Decision(FALSE, "ask", "capability_permission", {})
        BY <2>1, <3>2
      <4> QED
        BY <3>2, <4>1 DEF Kernel!Decision
    <3>3. CASE permission = "allow" /\ risky
      <4>1. d = Kernel!Decision(FALSE, "deny", "risk_limit", {})
        BY <2>1, <3>3
      <4> QED
        BY <3>3, <4>1 DEF Kernel!Decision
    <3>4. CASE permission = "allow" /\ ~risky
      <4>1. d = Kernel!Decision(TRUE, "allow", "capability_permission", {"permission_granted"})
        BY <2>1, <3>4
      <4> QED
        BY <3>4, <4>1 DEF Kernel!Decision
    <3> QED
      BY <2>2, <3>1, <3>2, <3>3, <3>4
  <2>4. permission = "allow" /\ ~risky => d.audit = {"permission_granted"}
    BY <2>1 DEF Kernel!Decision
  <2> QED
    BY <1>3, <2>3, <2>4 DEF risky, permission, d
<1> QED
  BY <1>1, <1>2, <1>3

\* What a stricter policy allows a looser one allows.
LEMMA PoliciesAreOrdered ==
  ASSUME NEW c \in Kernel!Capabilities
  PROVE  /\ Kernel!RestrictivePolicy[c] = "allow" => Kernel!DefaultPolicy[c] = "allow"
         /\ Kernel!DefaultPolicy[c] = "allow" => Kernel!PermissivePolicy[c] = "allow"
BY DEF Kernel!RestrictivePolicy, Kernel!DefaultPolicy, Kernel!PermissivePolicy, Kernel!Reading, Kernel!Asked

\* What a policy allows is never of a high risk by itself.
LEMMA AllowedRisk ==
  ASSUME NEW c \in Kernel!Capabilities,
         Kernel!DefaultPolicy[c] = "allow" \/ Kernel!RestrictivePolicy[c] = "allow" \/ Kernel!PermissivePolicy[c] = "allow"
  PROVE  c # "shell.execute" /\ Kernel!CapabilityRisks[c] \in {"low", "medium"}
<1>1. c # "shell.execute"
  BY DEF Kernel!RestrictivePolicy, Kernel!DefaultPolicy, Kernel!PermissivePolicy, Kernel!Reading, Kernel!Asked
<1> QED
  BY <1>1 DEF Kernel!CapabilityRisks

\* What the kernel allows is within its limits and allowed by every looser policy.
LEMMA PolicyHolds == ASSUME NEW v \in Kernel!Invocations PROVE Kernel!PolicyIsCoherent(v)
<1> DEFINE c == v.capability
<1>1. /\ v.policy \in {"default", "restrictive", "permissive"} /\ c \in Kernel!Capabilities
      /\ v.path \in {"ordinary", "parent", "system", "prefix"} /\ v.command \in {"plain", "install", "chained", "pattern"}
      /\ v.max_risk \in {"low", "medium", "high", "critical"} /\ v.network \in BOOLEAN /\ v.banned \in BOOLEAN
  BY DEF Kernel!Invocations, Kernel!Policies, Kernel!Risk
<1>2. /\ Kernel!Policies["default"] = Kernel!DefaultPolicy /\ Kernel!Policies["restrictive"] = Kernel!RestrictivePolicy
      /\ Kernel!Policies["permissive"] = Kernel!PermissivePolicy
  BY DEF Kernel!Policies
<1>3. ASSUME v.max_risk = "medium", ~v.banned, v.path = "ordinary", v.network, Kernel!Policies[v.policy][c] = "allow"
      PROVE  Kernel!Evaluate(v).allowed /\ Kernel!Evaluate(v).audit = {"permission_granted"}
  <2>1. c # "shell.execute" /\ Kernel!CapabilityRisks[c] \in {"low", "medium"}
    BY <1>1, <1>2, <1>3, AllowedRisk
  <2>2. Kernel!SandboxAllows(v)
    BY <1>3, <2>1 DEF Kernel!SandboxAllows
  <2>3. Kernel!AssessInvocation(v) \in {"low", "medium"}
    BY <1>3, <2>1 DEF Kernel!AssessInvocation, Kernel!AssessPath, Kernel!Higher, Kernel!Risk
  <2>4. ~(Kernel!Risk[Kernel!AssessInvocation(v)] > Kernel!Risk[v.max_risk])
    <3> DEFINE a == Kernel!AssessInvocation(v)
    <3>1. a \in {"low", "medium"}
      BY <2>3
    <3> HIDE DEF a
    <3>2. Kernel!Risk[a] <= 1 /\ Kernel!Risk["medium"] = 1 /\ Kernel!Risk[a] \in Int
      BY <3>1 DEF Kernel!Risk
    <3>3. ~(Kernel!Risk[a] > Kernel!Risk["medium"])
      BY <3>2
    <3> QED
      BY <1>3, <3>3 DEF a
  <2> QED
    BY <1>3, <2>2, <2>4, AllowedIs
<1>4. ASSUME Kernel!Evaluate(v).allowed
      PROVE  ~v.banned /\ Kernel!SandboxAllows(v) /\ Kernel!Risk[Kernel!AssessInvocation(v)] <= Kernel!Risk[v.max_risk]
  <2> DEFINE a == Kernel!AssessInvocation(v)
  <2>1. a \in {"low", "medium", "high", "critical"}
    <3>1. Kernel!CapabilityRisks[c] \in {"low", "medium", "high"}
      BY <1>1 DEF Kernel!CapabilityRisks
    <3>2. Kernel!AssessPath(v.path) \in {"low", "medium", "high", "critical"}
      BY <1>1 DEF Kernel!AssessPath
    <3>3. Kernel!AssessCommand(v.command) \in {"low", "medium", "high", "critical"}
      BY <1>1 DEF Kernel!AssessCommand
    <3> QED
      BY <3>1, <3>2, <3>3 DEF Kernel!AssessInvocation, Kernel!Higher
  <2>2. ~v.banned /\ Kernel!SandboxAllows(v) /\ ~(Kernel!Risk[a] > Kernel!Risk[v.max_risk])
    BY <1>4, AllowedIs
  <2> HIDE DEF a
  <2>3. Kernel!Risk[a] \in Int /\ Kernel!Risk[v.max_risk] \in Int
    BY <1>1, <2>1 DEF Kernel!Risk
  <2>4. Kernel!Risk[a] <= Kernel!Risk[v.max_risk]
    BY <2>2, <2>3
  <2> QED
    BY <2>2, <2>4 DEF a
\* A verdict under another policy differs by what that policy says.
<1>5. ASSUME NEW p \in {"default", "permissive"}, Kernel!Evaluate(v).allowed, Kernel!Policies[p][c] = "allow"
      PROVE  Kernel!Evaluate([v EXCEPT !.policy = p]).allowed
  <2>1. PICK w \in Kernel!Invocations : w = [v EXCEPT !.policy = p]
    BY <1>1, <1>5 DEF Kernel!Invocations, Kernel!Policies
  <2>2. /\ w.policy = p /\ w.capability = c /\ w.path = v.path /\ w.command = v.command /\ w.max_risk = v.max_risk
        /\ w.network = v.network /\ w.banned = v.banned
    BY <2>1 DEF Kernel!Invocations
  <2>3. Kernel!SandboxAllows(w) = Kernel!SandboxAllows(v)
    BY <2>2 DEF Kernel!SandboxAllows
  <2>4. Kernel!AssessInvocation(w) = Kernel!AssessInvocation(v)
    BY <2>2 DEF Kernel!AssessInvocation
  <2>5. /\ ~v.banned /\ Kernel!SandboxAllows(v)
        /\ ~(Kernel!Risk[Kernel!AssessInvocation(v)] > Kernel!Risk[v.max_risk])
    BY <1>5, AllowedIs
  <2>6. Kernel!Evaluate(w).allowed
    BY <1>5, <2>2, <2>3, <2>4, <2>5, AllowedIs
  <2> QED
    BY <2>1, <2>6
<1>6. Kernel!Evaluate(v).allowed => Kernel!Policies[v.policy][c] = "allow"
  BY AllowedIs
<1>7. v.policy = "restrictive" /\ Kernel!Evaluate(v).allowed => Kernel!Evaluate([v EXCEPT !.policy = "default"]).allowed
  BY <1>1, <1>2, <1>5, <1>6, PoliciesAreOrdered
<1>8. v.policy = "default" /\ Kernel!Evaluate(v).allowed => Kernel!Evaluate([v EXCEPT !.policy = "permissive"]).allowed
  BY <1>1, <1>2, <1>5, <1>6, PoliciesAreOrdered
<1> QED
  BY <1>3, <1>4, <1>7, <1>8 DEF Kernel!PolicyIsCoherent

-----------------------------------------------------------------------------
\* A qualified release.
LEMMA ReleaseHolds == ASSUME NEW b \in Rel!Builds PROVE Rel!QualifiedIsSound(b, Rel!ReleaseDecision(b))
<1> SUFFICES ASSUME Rel!ReleaseDecision(b) = "QUALIFIED"
             PROVE  /\ b.version = "same" /\ b.wheel \cap {"bad", "forbidden_file"} = {} /\ "bad" \notin b.sdist
                    /\ b.broken \subseteq {"metadata", "replay", "mcp"}
  BY DEF Rel!QualifiedIsSound
<1>1. \A n \in 1..20 : Rel!RunAllTests(b)[n] # "fail"
  BY DEF Rel!ReleaseDecision
<1>2. \A i \in 1..2 : Rel!Artifacts(b)[i] # "invalid"
  BY <1>1 DEF Rel!ReleaseDecision
<1>3. \A n \in 1..20 : Rel!Invariant(b, n) # "fail"
  BY <1>1 DEF Rel!RunAllTests
<1>4. b.version = "same"
  BY <1>3 DEF Rel!Invariant, Rel!Imports, Rel!SkippedWithout, Rel!IsConsistent
<1>5. \A n \in {1, 5, 9, 10, 11, 12, 13, 16, 18} : Rel!Imports[n] \notin b.broken
  <2>1. DOMAIN Rel!Imports = {1, 5, 9, 10, 11, 12, 13, 16, 18}
    BY DEF Rel!Imports
  <2>2. {1, 5, 9, 10, 11, 12, 13, 16, 18} \subseteq 1..20
    OBVIOUS
  <2>3. ASSUME NEW n \in DOMAIN Rel!Imports PROVE Rel!Invariant(b, n) = IF Rel!Imports[n] \in b.broken THEN "fail" ELSE "pass"
    <3>1. n \notin DOMAIN Rel!SkippedWithout /\ n # 3
      BY <2>1 DEF Rel!SkippedWithout
    <3> QED
      BY <3>1 DEF Rel!Invariant
  <2> QED
    BY <1>3, <2>1, <2>2, <2>3
<1>6. b.broken \subseteq {"metadata", "replay", "mcp"}
  <2>1. b.broken \subseteq Rel!Parts
    BY DEF Rel!Builds
  <2>2. {"package", "modules", "policy", "approval", "durable", "detector", "bus", "config"} \cap b.broken = {}
    BY <1>5 DEF Rel!Imports
  <2> QED
    BY <2>1, <2>2 DEF Rel!Parts
<1>7. Rel!ValidateWheel(b) # "invalid" /\ Rel!ValidateSdist(b) # "invalid"
  <2>1. Rel!Artifacts(b)[1] = Rel!ValidateWheel(b) /\ Rel!Artifacts(b)[2] = Rel!ValidateSdist(b)
    BY DEF Rel!Artifacts
  <2> QED
    BY <1>2, <2>1
<1>8. b.wheel \cap {"bad", "forbidden_file"} = {}
  BY <1>7 DEF Rel!ValidateWheel, Rel!ArtifactStatus
<1>9. "bad" \notin b.sdist
  BY <1>7 DEF Rel!ValidateSdist, Rel!ArtifactStatus
<1> QED
  BY <1>4, <1>6, <1>8, <1>9

-----------------------------------------------------------------------------
\* A review that passes.
LEMMA ReviewHolds == ASSUME NEW e \in Rev!ReviewEvidence PROVE Rev!ReviewIsEarned(e, Rev!ReviewStatus(e))
<1> DEFINE results == Rev!CriterionResults(e)
<1>1. ASSUME NEW c \in Rev!Criteria
      PROVE  (IF c \in e.raises THEN Rev!Inconclusive ELSE Rev!Evaluate(c, e)) \in results
  BY DEF Rev!CriterionResults
<1>2. /\ e.requirements \in {{"none"}} \cup SUBSET Rev!Requirements /\ e.verification \in {"none", "passed", "failed"}
      /\ e.regression \in {"none", "no_baseline", "clean", "regressed"} /\ e.events \in SUBSET {"deny", "injection", "audit"}
      /\ e.diff \in {{"none"}} \cup SUBSET Rev!DiffFlags /\ e.tests \in SUBSET {"deleted", "weakened"}
      /\ e.scope \in {"none", "inside", "outside"} /\ e.raises \in SUBSET Rev!Criteria
  BY DEF Rev!ReviewEvidence
<1>3. Rev!ReviewStatus(e) = Rev!AggregateStatus(results)
  BY DEF Rev!ReviewStatus
<1> HIDE DEF results
<1>4. Rev!ReviewStatus(e) \in {"pass", "pass_with_warnings"} => \A r \in results : r.status # "fail"
  BY <1>3 DEF Rev!AggregateStatus
<1>5. Rev!ReviewStatus(e) = "pass" => \A r \in results : r.status \notin {"fail", "warning", "inconclusive"}
  BY <1>3 DEF Rev!AggregateStatus
<1>6. \A r \in results : r.status # "fail" =>
        /\ (r = Rev!VerificationCriterion(e) => e.verification # "failed")
        /\ (r = Rev!RegressionCriterion(e) => e.regression # "regressed")
  BY DEF Rev!VerificationCriterion, Rev!RegressionCriterion, Rev!Result
<1>7. Rev!SecurityCriterion(e).status # "fail" => e.events = {}
  BY DEF Rev!SecurityCriterion, Rev!Result
<1>8. Rev!DiffQualityCriterion(e).status # "fail" => "secret" \notin e.diff
  <2> SUFFICES ASSUME "secret" \in e.diff PROVE Rev!DiffQualityCriterion(e).status = "fail"
    OBVIOUS
  <2> DEFINE found == {Rev!DiffFinding(flag) : flag \in e.diff}
  <2> DEFINE severities == {f.severity : f \in found}
  <2>1. Rev!DiffFinding("secret") = Rev!Finding("security", "critical") /\ Rev!Finding("security", "critical").severity = "critical"
    BY DEF Rev!DiffFinding, Rev!Finding
  <2>2. "critical" \in severities
    BY <2>1
  <2>3. e.diff # {"none"} /\ e.diff # {}
    OBVIOUS
  <2>4. Rev!DiffQualityCriterion(e) = Rev!Result("fail", "medium", found)
    BY <2>2, <2>3 DEF Rev!DiffQualityCriterion
  <2> QED
    BY <2>4 DEF Rev!Result
<1>9. Rev!TestDeletionCriterion(e).status # "fail" => e.diff = {"none"} \/ e.tests = {}
  BY DEF Rev!TestDeletionCriterion, Rev!Result
<1>12. ASSUME NEW c \in Rev!Criteria, c \notin e.raises PROVE Rev!Evaluate(c, e) \in results
  BY <1>1, <1>12
<1>13. /\ ("verification" \notin e.raises => Rev!VerificationCriterion(e) \in results)
       /\ ("regression" \notin e.raises => Rev!RegressionCriterion(e) \in results)
       /\ ("security" \notin e.raises => Rev!SecurityCriterion(e) \in results)
       /\ ("diff" \notin e.raises => Rev!DiffQualityCriterion(e) \in results)
       /\ ("tests" \notin e.raises => Rev!TestDeletionCriterion(e) \in results)
  BY <1>12 DEF Rev!Evaluate, Rev!Criteria
<1>14. e.raises # {} => Rev!Inconclusive \in results
  BY <1>1, <1>2
<1>15. e.raises = Rev!Criteria => \A r \in results : r = Rev!Inconclusive
  BY DEF Rev!CriterionResults, results
<1>10. ASSUME Rev!ReviewStatus(e) \in {"pass", "pass_with_warnings"}
       PROVE  /\ "verification" \in e.raises \/ e.verification # "failed"
              /\ "regression" \in e.raises \/ e.regression # "regressed"
              /\ "security" \in e.raises \/ e.events = {}
              /\ "diff" \in e.raises \/ "secret" \notin e.diff
              /\ "tests" \in e.raises \/ e.diff = {"none"} \/ e.tests = {}
              /\ Rev!Criteria \ e.raises # {}
  <2>1. \A r \in results : r.status # "fail"
    BY <1>4, <1>10
  <2>2. ~(\A r \in results : r.status = "inconclusive")
    BY <1>3, <1>10 DEF Rev!AggregateStatus
  <2>3. e.raises # Rev!Criteria
    BY <1>15, <2>2 DEF Rev!Inconclusive
  <2> QED
    BY <1>2, <1>6, <1>7, <1>8, <1>9, <1>13, <2>1, <2>3
<1>11. ASSUME Rev!ReviewStatus(e) = "pass"
       PROVE  /\ e.requirements \cap {"none", "unsatisfied", "unverified"} = {} /\ e.verification = "passed"
              /\ e.regression = "clean" /\ e.events = {} /\ e.diff = {} /\ e.tests = {} /\ e.scope = "inside"
              /\ e.raises = {}
  <2>12. e.raises = {}
    BY <1>5, <1>11, <1>14 DEF Rev!Inconclusive
  <2>1. /\ e.verification # "failed" /\ e.regression # "regressed" /\ e.events = {}
        /\ (e.diff # {"none"} => e.tests = {})
    BY <1>10, <1>11, <2>12
  <2>13. {Rev!RequirementCriterion(e), Rev!VerificationCriterion(e), Rev!RegressionCriterion(e), Rev!SecurityCriterion(e),
          Rev!DiffQualityCriterion(e), Rev!ScopeCriterion(e), Rev!TestDeletionCriterion(e)} \subseteq results
    BY <1>12, <2>12 DEF Rev!Evaluate, Rev!Criteria
  <2>2. Rev!RequirementCriterion(e).status \notin {"fail", "warning", "inconclusive"}
    BY <2>13, <1>5, <1>11
  <2>3. e.requirements \cap {"none", "unsatisfied", "unverified"} = {}
    BY <1>2, <2>2 DEF Rev!RequirementCriterion, Rev!Result, Rev!Inconclusive, Rev!Requirements
  <2>4. Rev!VerificationCriterion(e).status # "inconclusive"
    BY <2>13, <1>5, <1>11
  <2>5. e.verification = "passed"
    BY <1>2, <2>1, <2>4 DEF Rev!VerificationCriterion, Rev!Inconclusive
  <2>6. Rev!RegressionCriterion(e).status # "inconclusive"
    BY <2>13, <1>5, <1>11
  <2>7. e.regression = "clean"
    BY <1>2, <2>1, <2>6 DEF Rev!RegressionCriterion, Rev!Inconclusive
  <2>8. Rev!ScopeCriterion(e).status \notin {"warning", "inconclusive"}
    BY <2>13, <1>5, <1>11
  <2>9. e.scope = "inside"
    BY <1>2, <2>8 DEF Rev!ScopeCriterion, Rev!Inconclusive, Rev!Result
  <2>10. Rev!DiffQualityCriterion(e).status \notin {"fail", "warning", "inconclusive"}
    BY <2>13, <1>5, <1>11
  <2>11. e.diff = {}
    BY <2>10 DEF Rev!DiffQualityCriterion, Rev!Inconclusive, Rev!Result
  <2> QED
    BY <2>1, <2>3, <2>5, <2>7, <2>9, <2>11, <2>12
<1> QED
  BY <1>10, <1>11 DEF Rev!ReviewIsEarned

-----------------------------------------------------------------------------
\* The criteria of every scenario.
Named(s) == Val!Scenarios[s].named
Total(s) == Val!Scenarios[s].unnamed + Val!Scenarios[s].test + Val!Scenarios[s].docstring + Val!Scenarios[s].plain

\* The ten scenarios.
LEMMA ScenarioNames ==
  DOMAIN Val!Scenarios = {"file", "debugging", "refactoring", "testing", "git", "dependencies", "security", "api", "docs",
                          "recovery"}
<1>1. /\ DOMAIN Val!FirstScenarios = {"file", "debugging", "refactoring"} /\ DOMAIN Val!TestAndGitScenarios = {"testing", "git"}
      /\ DOMAIN Val!PackageScenarios = {"dependencies", "security"} /\ DOMAIN Val!ApiAndDocsScenarios = {"api", "docs"}
      /\ DOMAIN Val!RecoveryScenario = {"recovery"}
  BY DEF Val!FirstScenarios, Val!TestAndGitScenarios, Val!PackageScenarios, Val!ApiAndDocsScenarios, Val!RecoveryScenario
<1> QED
  BY <1>1 DEF Val!Scenarios

\* What each scenario asks for.
LEMMA ScenarioIs ==
  /\ Val!Scenarios["file"] = Val!Criteria({"calculator.py"}, 4, 0, 1, 2)
  /\ Val!Scenarios["debugging"] = Val!Criteria({}, 0, 0, 0, 4)
  /\ Val!Scenarios["refactoring"] = Val!Criteria({}, 3, 0, 0, 3)
  /\ Val!Scenarios["testing"] = Val!Criteria({"test_string_utils.py"}, 0, 5, 0, 1)
  /\ Val!Scenarios["git"] = Val!Criteria({}, 0, 0, 0, 6)
  /\ Val!Scenarios["dependencies"] = Val!Criteria({"requirements.txt"}, 0, 1, 0, 3)
  /\ Val!Scenarios["security"] = Val!Criteria({}, 0, 0, 0, 5)
  /\ Val!Scenarios["api"] = Val!Criteria({"models.py", "routes.py", "main.py"}, 0, 0, 0, 3)
  /\ Val!Scenarios["docs"] = Val!Criteria({"README.md"}, 0, 0, 0, 5)
  /\ Val!Scenarios["recovery"] = Val!Criteria({"data_pipeline.py"}, 0, 0, 0, 7)
<1>1. /\ DOMAIN Val!FirstScenarios = {"file", "debugging", "refactoring"} /\ DOMAIN Val!TestAndGitScenarios = {"testing", "git"}
      /\ DOMAIN Val!PackageScenarios = {"dependencies", "security"} /\ DOMAIN Val!ApiAndDocsScenarios = {"api", "docs"}
      /\ DOMAIN Val!RecoveryScenario = {"recovery"}
  BY DEF Val!FirstScenarios, Val!TestAndGitScenarios, Val!PackageScenarios, Val!ApiAndDocsScenarios, Val!RecoveryScenario
<1>2. /\ \A s \in DOMAIN Val!FirstScenarios : Val!Scenarios[s] = Val!FirstScenarios[s]
      /\ \A s \in DOMAIN Val!TestAndGitScenarios : Val!Scenarios[s] = Val!TestAndGitScenarios[s]
      /\ \A s \in DOMAIN Val!PackageScenarios : Val!Scenarios[s] = Val!PackageScenarios[s]
      /\ \A s \in DOMAIN Val!ApiAndDocsScenarios : Val!Scenarios[s] = Val!ApiAndDocsScenarios[s]
      /\ \A s \in DOMAIN Val!RecoveryScenario : Val!Scenarios[s] = Val!RecoveryScenario[s]
  BY <1>1 DEF Val!Scenarios
<1>3. /\ Val!FirstScenarios["file"] = Val!Criteria({"calculator.py"}, 4, 0, 1, 2)
      /\ Val!FirstScenarios["debugging"] = Val!Criteria({}, 0, 0, 0, 4)
      /\ Val!FirstScenarios["refactoring"] = Val!Criteria({}, 3, 0, 0, 3)
  BY DEF Val!FirstScenarios
<1>4. /\ Val!TestAndGitScenarios["testing"] = Val!Criteria({"test_string_utils.py"}, 0, 5, 0, 1)
      /\ Val!TestAndGitScenarios["git"] = Val!Criteria({}, 0, 0, 0, 6)
      /\ Val!RecoveryScenario["recovery"] = Val!Criteria({"data_pipeline.py"}, 0, 0, 0, 7)
  BY DEF Val!TestAndGitScenarios, Val!RecoveryScenario
<1>5. /\ Val!PackageScenarios["dependencies"] = Val!Criteria({"requirements.txt"}, 0, 1, 0, 3)
      /\ Val!PackageScenarios["security"] = Val!Criteria({}, 0, 0, 0, 5)
  BY DEF Val!PackageScenarios
<1>6. /\ Val!ApiAndDocsScenarios["api"] = Val!Criteria({"models.py", "routes.py", "main.py"}, 0, 0, 0, 3)
      /\ Val!ApiAndDocsScenarios["docs"] = Val!Criteria({"README.md"}, 0, 0, 0, 5)
  BY DEF Val!ApiAndDocsScenarios
<1> QED
  BY <1>1, <1>2, <1>3, <1>4, <1>5, <1>6

\* How many files the scenarios name.
LEMMA NamedFiles ==
  /\ Val!Cardinality({}) = 0
  /\ \A f : Val!Cardinality({f}) = 1
  /\ Val!Cardinality({"models.py", "routes.py", "main.py"}) = 3
<1>1. \A S : Val!Cardinality(S) = Cardinality(S)
  BY DEF Val!Cardinality, Cardinality
<1>2. IsFiniteSet({"models.py"}) /\ Cardinality({"models.py"}) = 1
  BY FS_Singleton
<1>3. {"models.py", "routes.py"} = {"models.py"} \cup {"routes.py"} /\ "routes.py" \notin {"models.py"}
  OBVIOUS
<1>4. IsFiniteSet({"models.py", "routes.py"}) /\ Cardinality({"models.py", "routes.py"}) = 2
  BY <1>2, <1>3, FS_AddElement
<1>5. {"models.py", "routes.py", "main.py"} = {"models.py", "routes.py"} \cup {"main.py"} /\ "main.py" \notin {"models.py", "routes.py"}
  OBVIOUS
<1>6. Cardinality({"models.py", "routes.py", "main.py"}) = 3
  BY <1>4, <1>5, FS_AddElement
<1> QED
  BY <1>1, <1>6, FS_EmptySet, FS_Singleton

\* Nine criteria in ten are all there are of a short list: one missing file or one
\* error is too many.
LEMMA ValidationHolds ==
  ASSUME NEW a \in Val!Answers, NEW s \in DOMAIN Val!Scenarios
  PROVE  Val!PassedIsClean(a, s, Val!RunScenario(a, s))
<1> SUFFICES ASSUME Val!RunScenario(a, s) = "passed"
             PROVE  a.ends = "answers" /\ a.output /\ ~a.errors /\ (Named(s) # {} => a.files = "all")
  BY DEF Val!PassedIsClean, Named
<1>1. /\ a.ends \in {"answers", "timeout", "raises"} /\ a.files \in {"none", "some", "all"} /\ a.test_file \in BOOLEAN
      /\ a.docstring \in BOOLEAN /\ a.errors \in BOOLEAN /\ a.output \in BOOLEAN
  BY DEF Val!Answers
<1>2. a.ends = "answers" /\ Val!Violations(a, s) \cap Val!Blocking = {} /\ Val!Verify(a, s).status = "passed"
  BY <1>1 DEF Val!RunScenario
<1>3. a.output
  <2> SUFFICES ASSUME ~a.output PROVE FALSE
    OBVIOUS
  <2>1. Val!Broken(a, s, "output_format")
    BY DEF Val!Broken
  <2>2. "output_format" \in Val!Violations(a, s) \cap Val!Blocking
    BY <2>1 DEF Val!Violations, Val!Blocking, Val!Clauses
  <2> QED
    BY <1>2, <2>2
<1>4. 10 * Val!Met(a, s) >= 9 * Val!Asked(s)
  BY <1>2 DEF Val!Verify
<1> DEFINE n == Val!NamedMet(a, s)
<1> DEFINE t == Val!TestMet(a, s)
<1> DEFINE d == Val!DocstringMet(a, s)
<1> DEFINE p == Val!PlainMet(a, s)
<1>5. Val!Met(a, s) = n + t + d + p
  BY DEF Val!Met
<1>6. ASSUME NEW named, NEW k \in Nat, Val!Cardinality(named) = k,
             NEW unnamed \in Nat, NEW test \in Nat, NEW docs \in Nat, NEW plain \in Nat,
             Val!Scenarios[s] = Val!Criteria(named, unnamed, test, docs, plain), s # "dependencies"
      PROVE  /\ Named(s) = named
             /\ t = (IF a.test_file THEN test ELSE 0) /\ d = (IF a.docstring THEN docs ELSE 0)
             /\ p = (IF a.errors THEN 0 ELSE plain)
             /\ Val!Asked(s) = k + unnamed + test + docs + plain
             /\ n = (IF a.files = "all" THEN k ELSE IF a.files = "some" /\ k > 0 THEN k - 1 ELSE 0)
  <2>1. /\ Val!Scenarios[s].named = named /\ Val!Scenarios[s].unnamed = unnamed /\ Val!Scenarios[s].test = test
        /\ Val!Scenarios[s].docstring = docs /\ Val!Scenarios[s].plain = plain
    BY <1>6 DEF Val!Criteria
  <2>2. Named(s) = named
    BY <2>1 DEF Named
  <2>3. t = (IF a.test_file THEN test ELSE 0) /\ d = (IF a.docstring THEN docs ELSE 0) /\ p = (IF a.errors THEN 0 ELSE plain)
    BY <2>1 DEF Val!TestMet, Val!DocstringMet, Val!PlainMet
  <2>4. s \notin Val!Twice
    BY <1>6 DEF Val!Twice
  <2>5. Val!Asked(s) = k * 1 + unnamed + test + docs + plain
    BY <1>6, <2>1, <2>4 DEF Val!Asked
  <2>6. n = (CASE a.files = "all" -> k [] a.files = "some" /\ k > 0 -> k - 1 [] OTHER -> 0) * 1
    BY <1>6, <2>1, <2>4 DEF Val!NamedMet
  <2>7. n = (IF a.files = "all" THEN k ELSE IF a.files = "some" /\ k > 0 THEN k - 1 ELSE 0)
    BY <1>1, <1>6, <2>6
  <2> QED
    BY <1>6, <2>2, <2>3, <2>5, <2>7
<1>7. ASSUME s = "dependencies", Val!Scenarios[s] = Val!Criteria({"requirements.txt"}, 0, 1, 0, 3),
             Val!Cardinality({"requirements.txt"}) = 1
      PROVE  /\ Named(s) = {"requirements.txt"} /\ t = (IF a.test_file THEN 1 ELSE 0) /\ d = (IF a.docstring THEN 0 ELSE 0)
             /\ p = (IF a.errors THEN 0 ELSE 3) /\ Val!Asked(s) = 6 /\ n = (IF a.files = "all" THEN 2 ELSE 0)
  <2>1. /\ Val!Scenarios[s].named = {"requirements.txt"} /\ Val!Scenarios[s].unnamed = 0 /\ Val!Scenarios[s].test = 1
        /\ Val!Scenarios[s].docstring = 0 /\ Val!Scenarios[s].plain = 3
    BY <1>7 DEF Val!Criteria
  <2>2. Named(s) = {"requirements.txt"}
    BY <2>1 DEF Named
  <2>3. t = (IF a.test_file THEN 1 ELSE 0) /\ d = (IF a.docstring THEN 0 ELSE 0) /\ p = (IF a.errors THEN 0 ELSE 3)
    BY <2>1 DEF Val!TestMet, Val!DocstringMet, Val!PlainMet
  <2>4. s \in Val!Twice
    BY <1>7 DEF Val!Twice
  <2>5. Val!Asked(s) = 1 * 2 + 0 + 1 + 0 + 3
    BY <1>7, <2>1, <2>4 DEF Val!Asked
  <2>6. n = (CASE a.files = "all" -> 1 [] a.files = "some" /\ 1 > 0 -> 1 - 1 [] OTHER -> 0) * 2
    BY <1>7, <2>1, <2>4 DEF Val!NamedMet
  <2>7. n = (IF a.files = "all" THEN 2 ELSE 0)
    BY <1>1, <2>6
  <2> QED
    BY <2>2, <2>3, <2>5, <2>7
<1> HIDE DEF n, t, d, p
<1>8. CASE s = "file"
  <2>1. Val!Scenarios[s] = Val!Criteria({"calculator.py"}, 4, 0, 1, 2) /\ Val!Cardinality({"calculator.py"}) = 1
    BY <1>8, ScenarioIs, NamedFiles
  <2>2. s # "dependencies"
    BY <1>8
  <2>3. /\ Named(s) = {"calculator.py"} /\ t = (IF a.test_file THEN 0 ELSE 0) /\ d = (IF a.docstring THEN 1 ELSE 0)
        /\ p = (IF a.errors THEN 0 ELSE 2) /\ Val!Asked(s) = 1 + 4 + 0 + 1 + 2
        /\ n = (IF a.files = "all" THEN 1 ELSE IF a.files = "some" /\ 1 > 0 THEN 1 - 1 ELSE 0)
    BY <1>6, <2>1, <2>2
  <2> QED
    BY <1>2, <1>3, <1>4, <1>5, <2>3
<1>9. CASE s = "debugging"
  <2>1. Val!Scenarios[s] = Val!Criteria({}, 0, 0, 0, 4) /\ Val!Cardinality({}) = 0
    BY <1>9, ScenarioIs, NamedFiles
  <2>2. s # "dependencies"
    BY <1>9
  <2>3. /\ Named(s) = {} /\ t = (IF a.test_file THEN 0 ELSE 0) /\ d = (IF a.docstring THEN 0 ELSE 0)
        /\ p = (IF a.errors THEN 0 ELSE 4) /\ Val!Asked(s) = 0 + 0 + 0 + 0 + 4
        /\ n = (IF a.files = "all" THEN 0 ELSE IF a.files = "some" /\ 0 > 0 THEN 0 - 1 ELSE 0)
    BY <1>6, <2>1, <2>2
  <2> QED
    BY <1>2, <1>3, <1>4, <1>5, <2>3
<1>10. CASE s = "refactoring"
  <2>1. Val!Scenarios[s] = Val!Criteria({}, 3, 0, 0, 3) /\ Val!Cardinality({}) = 0
    BY <1>10, ScenarioIs, NamedFiles
  <2>2. s # "dependencies"
    BY <1>10
  <2>3. /\ Named(s) = {} /\ t = (IF a.test_file THEN 0 ELSE 0) /\ d = (IF a.docstring THEN 0 ELSE 0)
        /\ p = (IF a.errors THEN 0 ELSE 3) /\ Val!Asked(s) = 0 + 3 + 0 + 0 + 3
        /\ n = (IF a.files = "all" THEN 0 ELSE IF a.files = "some" /\ 0 > 0 THEN 0 - 1 ELSE 0)
    BY <1>6, <2>1, <2>2
  <2> QED
    BY <1>2, <1>3, <1>4, <1>5, <2>3
<1>11. CASE s = "testing"
  <2>1. Val!Scenarios[s] = Val!Criteria({"test_string_utils.py"}, 0, 5, 0, 1) /\ Val!Cardinality({"test_string_utils.py"}) = 1
    BY <1>11, ScenarioIs, NamedFiles
  <2>2. s # "dependencies"
    BY <1>11
  <2>3. /\ Named(s) = {"test_string_utils.py"} /\ t = (IF a.test_file THEN 5 ELSE 0) /\ d = (IF a.docstring THEN 0 ELSE 0)
        /\ p = (IF a.errors THEN 0 ELSE 1) /\ Val!Asked(s) = 1 + 0 + 5 + 0 + 1
        /\ n = (IF a.files = "all" THEN 1 ELSE IF a.files = "some" /\ 1 > 0 THEN 1 - 1 ELSE 0)
    BY <1>6, <2>1, <2>2
  <2> QED
    BY <1>2, <1>3, <1>4, <1>5, <2>3
<1>12. CASE s = "git"
  <2>1. Val!Scenarios[s] = Val!Criteria({}, 0, 0, 0, 6) /\ Val!Cardinality({}) = 0
    BY <1>12, ScenarioIs, NamedFiles
  <2>2. s # "dependencies"
    BY <1>12
  <2>3. /\ Named(s) = {} /\ t = (IF a.test_file THEN 0 ELSE 0) /\ d = (IF a.docstring THEN 0 ELSE 0)
        /\ p = (IF a.errors THEN 0 ELSE 6) /\ Val!Asked(s) = 0 + 0 + 0 + 0 + 6
        /\ n = (IF a.files = "all" THEN 0 ELSE IF a.files = "some" /\ 0 > 0 THEN 0 - 1 ELSE 0)
    BY <1>6, <2>1, <2>2
  <2> QED
    BY <1>2, <1>3, <1>4, <1>5, <2>3
<1>13. CASE s = "dependencies"
  <2>1. Val!Scenarios[s] = Val!Criteria({"requirements.txt"}, 0, 1, 0, 3) /\ Val!Cardinality({"requirements.txt"}) = 1
    BY <1>13, ScenarioIs, NamedFiles
  <2>3. /\ Named(s) = {"requirements.txt"} /\ t = (IF a.test_file THEN 1 ELSE 0) /\ d = (IF a.docstring THEN 0 ELSE 0)
        /\ p = (IF a.errors THEN 0 ELSE 3) /\ Val!Asked(s) = 6 /\ n = (IF a.files = "all" THEN 2 ELSE 0)
    BY <1>7, <1>13, <2>1
  <2> QED
    BY <1>2, <1>3, <1>4, <1>5, <2>3
<1>14. CASE s = "security"
  <2>1. Val!Scenarios[s] = Val!Criteria({}, 0, 0, 0, 5) /\ Val!Cardinality({}) = 0
    BY <1>14, ScenarioIs, NamedFiles
  <2>2. s # "dependencies"
    BY <1>14
  <2>3. /\ Named(s) = {} /\ t = (IF a.test_file THEN 0 ELSE 0) /\ d = (IF a.docstring THEN 0 ELSE 0)
        /\ p = (IF a.errors THEN 0 ELSE 5) /\ Val!Asked(s) = 0 + 0 + 0 + 0 + 5
        /\ n = (IF a.files = "all" THEN 0 ELSE IF a.files = "some" /\ 0 > 0 THEN 0 - 1 ELSE 0)
    BY <1>6, <2>1, <2>2
  <2> QED
    BY <1>2, <1>3, <1>4, <1>5, <2>3
<1>15. CASE s = "api"
  <2>1. Val!Scenarios[s] = Val!Criteria({"models.py", "routes.py", "main.py"}, 0, 0, 0, 3) /\ Val!Cardinality({"models.py", "routes.py", "main.py"}) = 3
    BY <1>15, ScenarioIs, NamedFiles
  <2>2. s # "dependencies"
    BY <1>15
  <2>3. /\ Named(s) = {"models.py", "routes.py", "main.py"} /\ t = (IF a.test_file THEN 0 ELSE 0) /\ d = (IF a.docstring THEN 0 ELSE 0)
        /\ p = (IF a.errors THEN 0 ELSE 3) /\ Val!Asked(s) = 3 + 0 + 0 + 0 + 3
        /\ n = (IF a.files = "all" THEN 3 ELSE IF a.files = "some" /\ 3 > 0 THEN 3 - 1 ELSE 0)
    BY <1>6, <2>1, <2>2
  <2> QED
    BY <1>2, <1>3, <1>4, <1>5, <2>3
<1>16. CASE s = "docs"
  <2>1. Val!Scenarios[s] = Val!Criteria({"README.md"}, 0, 0, 0, 5) /\ Val!Cardinality({"README.md"}) = 1
    BY <1>16, ScenarioIs, NamedFiles
  <2>2. s # "dependencies"
    BY <1>16
  <2>3. /\ Named(s) = {"README.md"} /\ t = (IF a.test_file THEN 0 ELSE 0) /\ d = (IF a.docstring THEN 0 ELSE 0)
        /\ p = (IF a.errors THEN 0 ELSE 5) /\ Val!Asked(s) = 1 + 0 + 0 + 0 + 5
        /\ n = (IF a.files = "all" THEN 1 ELSE IF a.files = "some" /\ 1 > 0 THEN 1 - 1 ELSE 0)
    BY <1>6, <2>1, <2>2
  <2> QED
    BY <1>2, <1>3, <1>4, <1>5, <2>3
<1>17. CASE s = "recovery"
  <2>1. Val!Scenarios[s] = Val!Criteria({"data_pipeline.py"}, 0, 0, 0, 7) /\ Val!Cardinality({"data_pipeline.py"}) = 1
    BY <1>17, ScenarioIs, NamedFiles
  <2>2. s # "dependencies"
    BY <1>17
  <2>3. /\ Named(s) = {"data_pipeline.py"} /\ t = (IF a.test_file THEN 0 ELSE 0) /\ d = (IF a.docstring THEN 0 ELSE 0)
        /\ p = (IF a.errors THEN 0 ELSE 7) /\ Val!Asked(s) = 1 + 0 + 0 + 0 + 7
        /\ n = (IF a.files = "all" THEN 1 ELSE IF a.files = "some" /\ 1 > 0 THEN 1 - 1 ELSE 0)
    BY <1>6, <2>1, <2>2
  <2> QED
    BY <1>2, <1>3, <1>4, <1>5, <2>3
<1> QED
  BY <1>8, <1>9, <1>10, <1>11, <1>12, <1>13, <1>14, <1>15, <1>16, <1>17, ScenarioNames

-----------------------------------------------------------------------------
\* A part of n checks that is met has between none and all of them.
LEMMA HarnessMetIs ==
  ASSUME NEW w \in {"none", "some", "all"}, NEW n \in Nat
  PROVE  Har!Met(w, n) \in 0..n
BY DEF Har!Met

IsTask(k) == k.modified \in Nat /\ k.content \in Nat /\ k.tests \in Nat /\ k.clean \in BOOLEAN /\ k.named \in BOOLEAN

\* A task counts its checks.
LEMMA TaskIs ==
  ASSUME NEW m \in Nat, NEW c \in Nat, NEW n \in Nat, NEW clean \in BOOLEAN, NEW named \in BOOLEAN, NEW asked, NEW fixed
  PROVE  IsTask(Har!Task(m, c, clean, n, named, asked, fixed))
<1> DEFINE k == Har!Task(m, c, clean, n, named, asked, fixed)
<1>1. k.modified = m /\ k.content = c /\ k.tests = n
  BY DEF Har!Task
<1>2. k.clean = clean
  BY DEF Har!Task
<1>3. k.named = named
  BY DEF Har!Task
<1>4. k.clean \in BOOLEAN /\ k.named \in BOOLEAN
  BY <1>2, <1>3, Zenon
<1> QED
  BY <1>1, <1>4 DEF IsTask

\* So does every task of the harness.
LEMMA HarnessTasks == ASSUME NEW t \in Har!Tasks PROVE IsTask(t)
<1>1. CASE t \in Har!CallersTasks
  <2>1. PICK m \in 0..1, c \in 0..4, clean \in BOOLEAN, n \in 0..2 : t = Har!Task(m, c, clean, n, FALSE, FALSE, FALSE)
    BY <1>1 DEF Har!CallersTasks, Har!Task
  <2>2. m \in Nat /\ c \in Nat /\ n \in Nat
    OBVIOUS
  <2> QED
    BY <2>1, <2>2, TaskIs
<1>2. CASE t \in Har!BenchmarkTasks
  <2>1. IsTask(Har!FixFailingTest) /\ IsTask(Har!FixCompilation) /\ IsTask(Har!AddFeature) /\ IsTask(Har!RefactorModule)
    BY TaskIs DEF Har!FixFailingTest, Har!FixCompilation, Har!AddFeature, Har!RefactorModule
  <2>2. IsTask(Har!DiagnoseBug) /\ IsTask(Har!MultipleFiles) /\ IsTask(Har!FixRegression) /\ IsTask(Har!EdgeCase)
    BY TaskIs DEF Har!DiagnoseBug, Har!MultipleFiles, Har!FixRegression, Har!EdgeCase
  <2> QED
    BY <1>2, <2>1, <2>2 DEF Har!BenchmarkTasks
<1> QED
  BY <1>1, <1>2 DEF Har!Tasks

\* A task that counts as a success has no finding left.
LEMMA SuccessLeavesNothing ==
  ASSUME NEW t \in Har!Tasks, NEW w \in Har!Works, Har!RunTask(t, w).success
  PROVE  LET r == Har!RunTask(t, w)
         IN /\ w.ends = "answers" /\ r.findings = 0 /\ (t.clean => w.clean)
            /\ Har!TestsMet(t, w, "verified") = t.tests /\ r.score >= 800
            /\ ((\A a, b \in Har!Rounds : w.tests[a] = w.tests[b]) => r.score = 1000 /\ r.tests_passed = t.tests)
            /\ Har!RunTaskWithReplay(t, w).replay = "complete" /\ r.status = "completed"
<1> DEFINE r == Har!RunTask(t, w)
<1> DEFINE success == Har!Verify(t, w, "verified") /\ Har!CalculateScore(t, w) >= 800
<1>1. /\ w.ends \in {"answers", "timeout", "raises"} /\ w.modified \in BOOLEAN /\ w.content \in {"none", "some", "all"}
      /\ w.clean \in BOOLEAN /\ w.tests["verified"] \in {"none", "some", "all"}
  BY DEF Har!Works, Har!Rounds
<1>2. w.ends = "answers"
  <2>1. CASE w.ends = "timeout"
    <3>1. r = Har!Result("timeout", FALSE, 0, 0, 0)
      BY <2>1 DEF Har!RunTask
    <3> QED
      BY <3>1 DEF Har!Result
  <2>2. CASE w.ends = "raises"
    <3>1. r = Har!Result("error", FALSE, 0, 0, 0)
      BY <2>2 DEF Har!RunTask
    <3> QED
      BY <3>1 DEF Har!Result
  <2> QED
    BY <1>1, <2>1, <2>2
<1>3. r = Har!Judged(t, w, success)
  BY <1>2 DEF Har!RunTask
<1> HIDE DEF success
<1>4. r.success = success /\ r.score = Har!CalculateScore(t, w) /\ r.findings = Har!Findings(t, w, "verified")
      /\ r.tests_passed = Har!TestsMet(t, w, "reported") /\ r.status = IF success THEN "completed" ELSE "failed"
  BY <1>3 DEF Har!Judged, Har!Result
<1>5. success
  BY <1>4
<1>6. Har!CalculateScore(t, w) >= 800 /\ Har!Findings(t, w, "verified") = 0
  BY <1>5 DEF success, Har!Verify
<1> DEFINE m == Har!ModifiedMet(t, w)
<1> DEFINE c == Har!ContentMet(t, w)
<1> DEFINE n == Har!TestsMet(t, w, "verified")
<1> DEFINE unclean == IF t.clean /\ ~w.clean THEN 1 ELSE 0
<1>8. m \in 0..t.modified /\ c \in 0..t.content /\ n \in 0..t.tests
  BY <1>1, HarnessTasks, HarnessMetIs DEF IsTask, Har!ModifiedMet, Har!ContentMet, Har!TestsMet
<1>9. (t.modified - m) + (t.content - c) + (t.tests - n) + unclean = 0 /\ unclean \in 0..1
  BY <1>6 DEF Har!Findings
<1>10. n = t.tests /\ unclean = 0
  <2>1. PICK x \in Nat : x = t.modified
    BY HarnessTasks DEF IsTask
  <2>2. PICK y \in Nat : y = t.content
    BY HarnessTasks DEF IsTask
  <2>3. PICK z \in Nat : z = t.tests
    BY HarnessTasks DEF IsTask
  <2> HIDE DEF m, c, n, unclean
  <2>4. m \in 0..x /\ c \in 0..y /\ n \in 0..z /\ (x - m) + (y - c) + (z - n) + unclean = 0 /\ unclean \in 0..1
    BY <1>8, <1>9, <2>1, <2>2, <2>3
  <2>5. n = z /\ unclean = 0
    BY <2>4
  <2> QED
    BY <2>3, <2>5
<1>11. t.clean => w.clean
  BY <1>10
<1>12. Har!RunTaskWithReplay(t, w).replay = "complete"
  <2>1. r.status = "completed"
    BY <1>4, <1>5
  <2> QED
    BY <1>5, <1>4, <2>1 DEF Har!RunTaskWithReplay
<1>13. ASSUME \A a, b \in Har!Rounds : w.tests[a] = w.tests[b]
       PROVE  r.score = 1000 /\ r.tests_passed = t.tests
  <2>1. w.tests["again"] = w.tests["verified"] /\ w.tests["reported"] = w.tests["verified"]
    BY <1>13 DEF Har!Rounds
  <2>2. Har!TestsMet(t, w, "again") = n /\ Har!TestsMet(t, w, "reported") = n
    BY <2>1 DEF Har!TestsMet
  <2>3. Har!Verify(t, w, "again")
    BY <1>6, <2>2 DEF Har!Verify, Har!Findings
  <2> QED
    BY <1>4, <1>10, <2>2, <2>3 DEF Har!CalculateScore
<1> QED
  BY <1>2, <1>4, <1>5, <1>6, <1>10, <1>11, <1>12, <1>13

-----------------------------------------------------------------------------
(* Recursion over the length of a sequence. *)

Walks(f, n, base, step) == f[0] = base /\ \A i \in 1..n : f[i] = step[i][f[i - 1]]

\* A value for every length is found step by step: the proof looks for the first
\* length that has none.
LEMMA StepByStep ==
  ASSUME NEW n \in Nat, NEW T, NEW base \in T, NEW step \in [1..n -> [T -> T]]
  PROVE  \E f \in [0..n -> T] : Walks(f, n, base, step)
<1> DEFINE Reaches(m) == \E f \in [0..m -> T] : f[0] = base /\ \A i \in 1..m : f[i] = step[i][f[i - 1]]
<1> DEFINE Stuck == {m \in 0..n : ~Reaches(m)}
<1>1. Stuck = {}
  <2> SUFFICES ASSUME Stuck # {} PROVE FALSE
    OBVIOUS
  <2>1. Stuck \in SUBSET Nat
    OBVIOUS
  <2> HIDE DEF Stuck
  <2>2. PICK m \in Stuck : \A k \in Stuck : m <= k
    BY <2>1, LeastNatural
  <2>3. m \in 0..n /\ ~Reaches(m)
    BY <2>2 DEF Stuck
  <2>4. m # 0
    <3> SUFFICES ASSUME m = 0 PROVE Reaches(0)
      BY <2>3
    <3> DEFINE f == [i \in 0..0 |-> base]
    <3>1. f \in [0..0 -> T] /\ f[0] = base /\ \A i \in 1..0 : f[i] = step[i][f[i - 1]]
      OBVIOUS
    <3> QED
      BY <3>1
  <2>5. m - 1 \in 0..n /\ m - 1 \notin Stuck
    BY <2>2, <2>3, <2>4
  <2>6. Reaches(m - 1)
    BY <2>5 DEF Stuck
  <2>7. PICK f \in [0..(m - 1) -> T] : f[0] = base /\ \A i \in 1..(m - 1) : f[i] = step[i][f[i - 1]]
    BY <2>6
  <2> DEFINE g == [i \in 0..m |-> IF i = m THEN step[m][f[m - 1]] ELSE f[i]]
  <2>8. m \in 1..n /\ step[m] \in [T -> T] /\ f[m - 1] \in T
    BY <2>3, <2>4
  <2>9. g \in [0..m -> T]
    BY <2>3, <2>4, <2>8
  <2>10. g[0] = base
    BY <2>3, <2>4, <2>7
  <2>11. \A i \in 1..m : g[i] = step[i][g[i - 1]]
    <3> TAKE i \in 1..m
    <3>1. CASE i = m
      <4>1. g[m] = step[m][f[m - 1]] /\ g[m - 1] = f[m - 1]
        BY <2>3, <2>4
      <4> QED
        BY <3>1, <4>1
    <3>2. CASE i # m
      <4>1. i \in 1..(m - 1) /\ i - 1 \in 0..(m - 1)
        BY <2>3, <3>2
      <4>2. g[i] = f[i] /\ g[i - 1] = f[i - 1]
        BY <2>3, <3>2, <4>1
      <4> QED
        BY <2>7, <4>1, <4>2
    <3> QED
      BY <3>1, <3>2
  <2> HIDE DEF g
  <2>12. Reaches(m)
    BY <2>9, <2>10, <2>11
  <2> QED
    BY <2>3, <2>12
<1>2. n \in 0..n
  OBVIOUS
<1>3. PICK f \in [0..n -> T] : f[0] = base /\ \A i \in 1..n : f[i] = step[i][f[i - 1]]
  BY <1>1, <1>2
<1> QED
  BY <1>3 DEF Walks

\* The stack of open starts at every event.
LEMMA StackIs ==
  ASSUME NEW l, Len(l) \in Nat
  PROVE  /\ Log!ActiveStack(l) \in [0..Len(l) -> Seq(Nat)]
         /\ Log!ActiveStack(l)[0] = <<0>>
         /\ \A i \in 1..Len(l) :
              Log!ActiveStack(l)[i] = IF Log!IsStart(l[i]) THEN Append(Log!ActiveStack(l)[i - 1], i)
                                      ELSE IF Log!IsEnd(l[i]) THEN Log!Popped(Log!ActiveStack(l)[i - 1])
                                      ELSE Log!ActiveStack(l)[i - 1]
<1> DEFINE n == Len(l)
<1> DEFINE Next1(i, s) == IF Log!IsStart(l[i]) THEN Append(s, i) ELSE IF Log!IsEnd(l[i]) THEN Log!Popped(s) ELSE s
<1> DEFINE step == [i \in 1..n |-> [s \in Seq(Nat) |-> Next1(i, s)]]
<1>1. \A i \in 1..n, s \in Seq(Nat) : Next1(i, s) \in Seq(Nat)
  <2> TAKE i \in 1..n, s \in Seq(Nat)
  <2>1. Append(s, i) \in Seq(Nat)
    OBVIOUS
  <2>2. Log!Popped(s) \in Seq(Nat)
    BY LenProperties, SubSeqProperties DEF Log!Popped
  <2> QED
    BY <2>1, <2>2
<1>2. step \in [1..n -> [Seq(Nat) -> Seq(Nat)]]
  BY <1>1
<1>3. <<0>> \in Seq(Nat) /\ n \in Nat
  OBVIOUS
<1>4. \E f \in [0..n -> Seq(Nat)] : Walks(f, n, <<0>>, step)
  <2> DEFINE T == Seq(Nat)
  <2> DEFINE base == <<0>>
  <2>1. base \in T /\ step \in [1..n -> [T -> T]]
    BY <1>2, <1>3
  <2> HIDE DEF step, T, base, n
  <2>2. \E f \in [0..n -> T] : Walks(f, n, base, step)
    BY <1>3, <2>1, StepByStep
  <2> QED
    BY <2>2 DEF T, base
<1>5. PICK f \in [0..n -> Seq(Nat)] : f[0] = <<0>> /\ \A i \in 1..n : f[i] = step[i][f[i - 1]]
  BY <1>4 DEF Walks
<1>6. \A i \in 1..n : f[i] = Next1(i, f[i - 1])
  <2> TAKE i \in 1..n
  <2>1. f[i - 1] \in Seq(Nat)
    BY <1>5
  <2> QED
    BY <1>5, <2>1
<1> HIDE DEF Next1, step
<1>7. f = [i \in 0..n |-> IF i = 0 THEN <<0>> ELSE Next1(i, f[i - 1])]
  <2>1. \A i \in 0..n : f[i] = IF i = 0 THEN <<0>> ELSE Next1(i, f[i - 1])
    <3> TAKE i \in 0..n
    <3>1. i # 0 => i \in 1..n
      BY <1>3
    <3> QED
      BY <1>5, <1>6, <3>1
  <2> DEFINE h == [i \in 0..n |-> IF i = 0 THEN <<0>> ELSE Next1(i, f[i - 1])]
  <2>2. \A i \in 0..n : h[i] = f[i]
    BY <2>1
  <2>3. DOMAIN h = 0..n /\ DOMAIN f = 0..n /\ h = [i \in 0..n |-> h[i]] /\ f = [i \in 0..n |-> f[i]]
    BY <1>5
  <2> HIDE DEF h
  <2>4. h = f
    BY <2>2, <2>3
  <2> QED
    BY <2>4 DEF h
<1> DEFINE g == Log!ActiveStack(l)
<1>8. g = CHOOSE stack : stack = [i \in 0..n |-> IF i = 0 THEN <<0>> ELSE Next1(i, stack[i - 1])]
  BY DEF Log!ActiveStack, Next1
<1> HIDE DEF g
<1>9. g = [i \in 0..n |-> IF i = 0 THEN <<0>> ELSE Next1(i, g[i - 1])]
  BY <1>7, <1>8
<1>10. g[0] = <<0>> /\ \A i \in 1..n : g[i] = Next1(i, g[i - 1])
  <2>1. \A i \in 0..n : g[i] = IF i = 0 THEN <<0>> ELSE Next1(i, g[i - 1])
    BY <1>9
  <2> QED
    BY <1>3, <2>1
<1> DEFINE Fine(i) == g[i] \in Seq(Nat)
<1>11. \A i \in 0..n : g[i] \in Seq(Nat)
  <2> DEFINE Wrong == {i \in 0..n : g[i] \notin Seq(Nat)}
  <2> SUFFICES ASSUME Wrong # {} PROVE FALSE
    OBVIOUS
  <2>1. Wrong \in SUBSET Nat
    OBVIOUS
  <2> HIDE DEF Wrong
  <2>2. PICK m \in Wrong : \A k \in Wrong : m <= k
    BY <2>1, LeastNatural
  <2>3. m \in 0..n /\ g[m] \notin Seq(Nat)
    BY <2>2 DEF Wrong
  <2>4. m # 0
    BY <1>3, <1>10, <2>3
  <2>5. m - 1 \in 0..n /\ m - 1 \notin Wrong /\ m \in 1..n
    BY <1>3, <2>2, <2>3, <2>4
  <2>6. g[m - 1] \in Seq(Nat)
    BY <2>5 DEF Wrong
  <2> QED
    BY <1>1, <1>10, <2>3, <2>5, <2>6
<1>12. g \in [0..n -> Seq(Nat)]
  BY <1>9, <1>11
<1> QED
  BY <1>10, <1>12 DEF g, Next1

LogInv == log \in Seq(Recordable) /\ Len(log) <= MaxLog

\* The invariant of the log holds initially.
LEMMA LogInit == Log!Init => LogInv
<1> SUFFICES ASSUME Log!Init PROVE LogInv
  OBVIOUS
<1>1. log \in Seq(Recordable) /\ Len(log) = 0
  BY EmptySeq DEF Log!Init
<1> QED
  BY <1>1, RecordsAssumption DEF LogInv, Log!ReplayAssumption

\* Recording an event keeps the invariant of the log.
LEMMA LogSteps == LogInv /\ Log!Next => LogInv'
<1> SUFFICES ASSUME LogInv, Log!Next PROVE LogInv'
  OBVIOUS
<1>1. PICK k \in Recordable : log' = Append(log, k)
  BY DEF Log!Next, Log!Record
<1>2. log' \in Seq(Recordable) /\ Len(log') = Len(log) + 1 /\ Len(log) \in Nat
  BY <1>1, AppendProperties, LenProperties DEF LogInv
<1>3. Len(log) < MaxLog /\ MaxLog \in Nat
  BY RecordsAssumption DEF Log!Next, Log!Record, Log!ReplayAssumption
<1> QED
  BY <1>2, <1>3 DEF LogInv

\* A log that rests keeps its invariant.
LEMMA LogRests == LogInv /\ UNCHANGED log => LogInv'
BY DEF LogInv

\* What the invariant says of the events of a log.
LEMMA LogIs ==
  ASSUME LogInv
  PROVE  Len(log) \in Nat /\ DOMAIN log = 1..Len(log) /\ \A i \in 1..Len(log) : log[i] \in Recordable /\ log[i].parent \in Nat
<1>1. log \in Seq(Recordable)
  BY DEF LogInv
<1>2. Len(log) \in Nat /\ DOMAIN log = 1..Len(log)
  BY <1>1, LenProperties
<1>3. \A i \in 1..Len(log) : log[i] \in Recordable
  BY <1>1, <1>2, ElementOfSeq
<1> QED
  BY <1>2, <1>3, RecordsAssumption DEF Log!ReplayAssumption

\* The invariant gives the types.
LEMMA LogTypes == LogInv => Log!TypeOK
BY LogIs DEF LogInv, Log!TypeOK, Log!Range

\* A part of 0..n has a greatest member.
LEMMA GreatestNatural ==
  ASSUME NEW n \in Nat, NEW S \in SUBSET (0..n), S # {}
  PROVE  \E j \in S : \A k \in S : k <= j
<1> DEFINE Rest == {n - k : k \in S}
<1>1. Rest \in SUBSET Nat /\ Rest # {}
  <2>1. \A k \in S : n - k \in Nat
    OBVIOUS
  <2>2. Rest \in SUBSET Nat
    BY <2>1
  <2>3. PICK k \in S : TRUE
    OBVIOUS
  <2>4. n - k \in Rest
    BY <2>3
  <2> QED
    BY <2>2, <2>4
<1> HIDE DEF Rest
<1>2. PICK r \in Rest : \A m \in Rest : r <= m
  BY <1>1, LeastNatural
<1>3. PICK j \in S : r = n - j
  BY <1>2 DEF Rest
<1>4. \A k \in S : n - j <= n - k
  BY <1>2, <1>3 DEF Rest
<1> QED
  BY <1>4

\* Everything on the stack was there before, and the root is never popped.
LEMMA StackIsEarlier ==
  ASSUME NEW l, Len(l) \in Nat
  PROVE  \A i \in 0..Len(l) : Log!Top(Log!ActiveStack(l)[i]) \in 0..i
<1> DEFINE n == Len(l)
<1> DEFINE stack == Log!ActiveStack(l)
<1>1. /\ stack \in [0..n -> Seq(Nat)] /\ stack[0] = <<0>>
      /\ \A i \in 1..n : stack[i] = IF Log!IsStart(l[i]) THEN Append(stack[i - 1], i)
                                    ELSE IF Log!IsEnd(l[i]) THEN Log!Popped(stack[i - 1]) ELSE stack[i - 1]
  BY StackIs
<1> DEFINE Earlier(i) == Len(stack[i]) >= 1 /\ \A j \in 1..Len(stack[i]) : stack[i][j] <= i
<1> DEFINE Wrong == {i \in 0..n : ~Earlier(i)}
<1> HIDE DEF stack
<1>2. Wrong = {}
  <2> SUFFICES ASSUME Wrong # {} PROVE FALSE
    OBVIOUS
  <2>1. Wrong \in SUBSET Nat
    OBVIOUS
  <2> HIDE DEF Wrong
  <2>2. PICK m \in Wrong : \A k \in Wrong : m <= k
    BY <2>1, LeastNatural
  <2>3. m \in 0..n /\ ~Earlier(m)
    BY <2>2 DEF Wrong
  <2>4. m # 0
    <3> SUFFICES ASSUME m = 0 PROVE FALSE
      OBVIOUS
    <3>1. stack[m] = <<0>>
      BY <1>1
    <3>2. Len(<<0>>) = 1 /\ <<0>>[1] = 0
      OBVIOUS
    <3> QED
      BY <2>3, <3>1, <3>2
  <2>5. m - 1 \in 0..n /\ m - 1 \notin Wrong /\ m \in 1..n
    BY <2>2, <2>3, <2>4
  <2>6. Earlier(m - 1)
    BY <2>5 DEF Wrong
  <2> HIDE DEF Earlier, n
  <2>7. PICK s \in Seq(Nat) : s = stack[m - 1]
    BY <1>1, <2>5
  <2>8. Len(s) \in Nat /\ Len(s) >= 1 /\ \A j \in 1..Len(s) : s[j] \in Nat /\ s[j] <= m - 1
    BY <2>6, <2>7, LenProperties, ElementOfSeq DEF Earlier
  <2>9. m \in Nat
    BY <2>1, <2>2
  <2>10. CASE stack[m] = s
    <3>1. \A j \in 1..Len(s) : s[j] <= m
      BY <2>8, <2>9
    <3> QED
      BY <2>3, <2>8, <2>10, <3>1 DEF Earlier
  <2>11. CASE stack[m] = Append(s, m)
    <3>1. /\ Len(Append(s, m)) = Len(s) + 1 /\ Append(s, m)[Len(s) + 1] = m
          /\ \A j \in 1..Len(s) : Append(s, m)[j] = s[j]
      BY <2>7, <2>9, AppendProperties
    <3>2. \A j \in 1..(Len(s) + 1) : Append(s, m)[j] <= m
      BY <2>8, <2>9, <3>1
    <3> QED
      BY <2>3, <2>8, <2>11, <3>1, <3>2 DEF Earlier
  <2>12. CASE stack[m] = Log!Popped(s) /\ Len(s) > 1
    <3> DEFINE t == SubSeq(s, 1, Len(s) - 1)
    <3>1. Log!Popped(s) = t
      BY <2>12 DEF Log!Popped
    <3>2. 1 \in 1..(Len(s) + 1) /\ Len(s) - 1 \in 0..Len(s)
      BY <2>8
    <3>3. Len(t) = Len(s) - 1 /\ \A j \in 1..(Len(s) - 1) : t[j] = s[j]
      BY <2>7, <2>8, <3>2, SubSeqProperties
    <3> HIDE DEF t
    <3>4. \A j \in 1..Len(t) : t[j] <= m
      BY <2>8, <2>9, <3>3
    <3> QED
      BY <2>3, <2>8, <2>12, <3>1, <3>3, <3>4 DEF Earlier
  <2>13. stack[m] = Append(s, m) \/ stack[m] = Log!Popped(s) \/ stack[m] = s
    BY <1>1, <2>5, <2>7
  <2>14. Len(s) <= 1 => Log!Popped(s) = s
    BY <2>8 DEF Log!Popped
  <2> QED
    BY <2>8, <2>10, <2>11, <2>12, <2>13, <2>14
<1>3. ASSUME NEW i \in 0..n PROVE Log!Top(stack[i]) \in 0..i
  <2>1. Earlier(i)
    BY <1>2
  <2>2. PICK s \in Seq(Nat) : s = stack[i]
    BY <1>1
  <2>3. Len(s) \in Nat /\ \A j \in 1..Len(s) : s[j] \in Nat
    BY <2>2, LenProperties, ElementOfSeq
  <2>4. Len(s) \in 1..Len(s) /\ s[Len(s)] <= i
    BY <2>1, <2>2, <2>3
  <2>5. s[Len(s)] \in 0..i
    BY <2>3, <2>4
  <2> QED
    BY <2>2, <2>5 DEF Log!Top
<1> QED
  BY <1>3 DEF stack

\* The place of an event in the tree is before it.
LEMMA PlacesAreEarlier == LogInv => Log!EveryEventIsPlaced
<1> SUFFICES ASSUME LogInv, NEW i \in DOMAIN log PROVE Log!FindParent(log, i) \in 0..(i - 1)
  BY DEF Log!EveryEventIsPlaced
<1>1. Len(log) \in Nat /\ i \in 1..Len(log) /\ log[i].parent \in Nat
  BY LogIs
<1>2. i - 1 \in 0..Len(log)
  BY <1>1
<1>3. Log!Top(Log!ActiveStack(log)[i - 1]) \in 0..(i - 1)
  BY <1>1, <1>2, StackIsEarlier
<1>4. CASE log[i].parent # Log!NoParent /\ log[i].parent < i
  <2>1. Log!FindParent(log, i) = log[i].parent
    BY <1>4 DEF Log!FindParent
  <2>2. log[i].parent \in 0..(i - 1)
    <3> DEFINE p == log[i].parent
    <3>1. p \in Nat /\ p < i
      BY <1>1, <1>4
    <3> HIDE DEF p
    <3>2. p \in 0..(i - 1)
      BY <1>1, <3>1
    <3> QED
      BY <3>2 DEF p
  <2> QED
    BY <2>1, <2>2
<1>5. CASE ~(log[i].parent # Log!NoParent /\ log[i].parent < i)
  BY <1>3, <1>5 DEF Log!FindParent
<1> QED
  BY <1>4, <1>5

\* An execution reported to follow a denial was decided on, and denied last.
LEMMA DenialsAreTrue == LogInv => Log!DenialReportIsTrue
<1> SUFFICES ASSUME LogInv, NEW i \in Log!ExecutedAfterDenial(log)
             PROVE  LET decided == {j \in 1..(i - 1) : log[j].cap = log[i].cap /\ log[j].type \in {"security.denied", "security.approved"}}
                    IN decided # {} /\ \A j \in decided : (\A k \in decided : k <= j) => log[j].type = "security.denied"
  BY DEF Log!DenialReportIsTrue
<1> DEFINE cap == log[i].cap
<1> DEFINE denials == Log!Denials(log, cap)
<1> DEFINE decided == {j \in 1..(i - 1) : log[j].cap = cap /\ log[j].type \in {"security.denied", "security.approved"}}
<1>1. Len(log) \in Nat /\ DOMAIN log = 1..Len(log)
  BY LogIs
<1>2. i \in 1..Len(log) /\ ~Log!HasApproval(log, cap)
  BY <1>1 DEF Log!ExecutedAfterDenial
<1>3. PICK d \in denials : d < i
  BY DEF Log!ExecutedAfterDenial
<1>4. denials \in SUBSET Nat /\ \A k \in denials : k \in 1..Len(log) /\ log[k].type = "security.denied" /\ log[k].cap = cap
  BY <1>1 DEF Log!Denials
<1>5. d \in decided
  BY <1>1, <1>2, <1>3, <1>4
<1> DEFINE first == Log!FirstDenial(log, cap)
<1>6. first \in denials /\ \A k \in denials : first <= k
  <2>1. \E k \in denials : \A j \in denials : k <= j
    <3> HIDE DEF denials
    <3> QED
      BY <1>3, <1>4, LeastNatural
  <2> QED
    BY <2>1 DEF Log!FirstDenial
<1> HIDE DEF first, denials
<1>7. ASSUME NEW j \in decided, \A k \in decided : k <= j PROVE log[j].type = "security.denied"
  <2> SUFFICES ASSUME log[j].type = "security.approved" PROVE FALSE
    OBVIOUS
  <2>1. d <= j /\ first <= d /\ first # j
    BY <1>3, <1>4, <1>5, <1>6, <1>7
  <2>2. j \in 1..Len(log) /\ j > first
    BY <1>2, <1>4, <1>6, <2>1
  <2>3. Log!HasApproval(log, cap)
    BY <1>1, <2>2 DEF Log!HasApproval, first
  <2> QED
    BY <1>2, <2>3
<1> QED
  BY <1>5, <1>7

\* The states of a log are records of these fields.
LogCaps == {k.cap : k \in Recordable}
LogStatuses == {"none", "started", "completed", "failed", "paused", "resumed", "exhausted"}
LogStates == [agent : LogStatuses, current : LogCaps \cup {NoCap}, capability : LogStatuses, execution : LogStatuses,
              verification : LogStatuses, recovery : LogStatuses, attempts : Nat,
              used : Seq(LogCaps), failures : Seq(LogCaps), decisions : Seq({k.type : k \in Recordable} \X LogCaps)]

\* An agent's events name its status, and only its completion completes it.
LEMMA StatusIsTyped ==
  \A t \in DOMAIN Log!AgentStatus : Log!AgentStatus[t] \in LogStatuses /\ (Log!AgentStatus[t] = "completed" => t = "agent.completed")
<1> SUFFICES ASSUME NEW t \in DOMAIN Log!AgentStatus
             PROVE  Log!AgentStatus[t] \in LogStatuses /\ (Log!AgentStatus[t] = "completed" => t = "agent.completed")
  OBVIOUS
<1>1. t \in {"agent.started", "agent.completed", "agent.failed", "agent.paused", "agent.resumed"}
  BY DEF Log!AgentStatus
<1>2. CASE t = "agent.started"
  BY <1>1, <1>2 DEF Log!AgentStatus, LogStatuses
<1>3. CASE t = "agent.completed"
  BY <1>1, <1>3 DEF Log!AgentStatus, LogStatuses
<1>4. CASE t = "agent.failed"
  BY <1>1, <1>4 DEF Log!AgentStatus, LogStatuses
<1>5. CASE t = "agent.paused"
  BY <1>1, <1>5 DEF Log!AgentStatus, LogStatuses
<1>6. CASE t = "agent.resumed"
  BY <1>1, <1>6 DEF Log!AgentStatus, LogStatuses
<1> QED
  BY <1>1, <1>2, <1>3, <1>4, <1>5, <1>6

\* A list that a capability is noted in is a list of capabilities.
LEMMA NotedIs ==
  ASSUME NEW caps \in Seq(LogCaps), NEW cap \in LogCaps
  PROVE  Log!Noted(caps, cap) \in Seq(LogCaps)
BY AppendProperties DEF Log!Noted

\* What an event does to the state: it ends one capability at most, and the status of
\* the agent is the one that its last event names.
LEMMA ApplyIs ==
  ASSUME NEW s \in LogStates, NEW e \in Recordable
  PROVE  /\ Log!ApplyEvent(s, e) \in LogStates
         /\ Log!ApplyEvent(s, e).used = IF e.type = "capability.completed" THEN Log!Noted(s.used, e.cap) ELSE s.used
         /\ Log!ApplyEvent(s, e).failures = IF e.type = "capability.failed" THEN Log!Noted(s.failures, e.cap) ELSE s.failures
         /\ Log!ApplyEvent(s, e).agent = "completed" => s.agent = "completed" \/ e.type = "agent.completed"
<1> DEFINE t == Log!ApplyEvent(s, e)
<1>1. e.cap \in LogCaps /\ e.type \in {k.type : k \in Recordable}
  BY DEF LogCaps
<1>2. CASE e.type \in DOMAIN Log!AgentStatus
  <2>1. /\ e.type \notin {"capability.completed", "capability.failed"} /\ e.type \notin Log!ends \cup {"capability.started"}
        /\ e.type \notin {"security.denied", "security.approved"}
    BY <1>2 DEF Log!AgentStatus, Log!ends
  <2> DEFINE a == Log!AgentStatus[e.type]
  <2>2. a \in LogStatuses /\ (a = "completed" => e.type = "agent.completed")
    BY <1>2, StatusIsTyped
  <2> HIDE DEF a
  <2>3. t = [s EXCEPT !.agent = a]
    BY <1>2, <2>1 DEF Log!ApplyEvent, a
  <2>4. t \in LogStates /\ t.used = s.used /\ t.failures = s.failures /\ t.agent = a
    BY <2>2, <2>3 DEF LogStates
  <2> HIDE DEF t
  <2> QED
    BY <2>1, <2>2, <2>4 DEF t
<1>3. CASE e.type \in Log!ends \cup {"capability.started"}
  <2>1. e.type \notin DOMAIN Log!AgentStatus /\ e.type \notin {"security.denied", "security.approved"}
    BY <1>3 DEF Log!AgentStatus, Log!ends
  <2>2. t = Log!HandleCapability(s, e)
    BY <1>3, <2>1 DEF Log!ApplyEvent
  <2>3. CASE e.type = "capability.started"
    <3>1. t = [s EXCEPT !.current = e.cap, !.capability = "started"]
      BY <2>2, <2>3 DEF Log!HandleCapability
    <3>2. t \in LogStates /\ t.used = s.used /\ t.failures = s.failures /\ t.agent = s.agent
      BY <1>1, <3>1 DEF LogStates, LogStatuses
    <3> HIDE DEF t
    <3> QED
      BY <2>3, <3>2 DEF t
  <2>4. CASE e.type = "capability.completed"
    <3> DEFINE u == Log!Noted(s.used, e.cap)
    <3>1. t = [s EXCEPT !.capability = "completed", !.used = u]
      BY <2>2, <2>4 DEF Log!HandleCapability
    <3>2. u \in Seq(LogCaps)
      BY <1>1, NotedIs DEF LogStates
    <3> HIDE DEF u
    <3>3. t \in LogStates /\ t.used = u /\ t.failures = s.failures /\ t.agent = s.agent
      BY <3>1, <3>2 DEF LogStates, LogStatuses
    <3> HIDE DEF t
    <3> QED
      BY <2>4, <3>3 DEF t, u
  <2>5. CASE e.type = "capability.failed"
    <3> DEFINE u == Log!Noted(s.failures, e.cap)
    <3>1. t = [s EXCEPT !.capability = "failed", !.failures = u]
      BY <2>2, <2>5 DEF Log!HandleCapability
    <3>2. u \in Seq(LogCaps)
      BY <1>1, NotedIs DEF LogStates
    <3> HIDE DEF u
    <3>3. t \in LogStates /\ t.failures = u /\ t.used = s.used /\ t.agent = s.agent
      BY <3>1, <3>2 DEF LogStates, LogStatuses
    <3> HIDE DEF t
    <3> QED
      BY <2>5, <3>3 DEF t, u
  <2> QED
    BY <1>3, <2>3, <2>4, <2>5 DEF Log!ends
<1>4. CASE e.type \in {"security.denied", "security.approved"}
  <2>1. e.type \notin DOMAIN Log!AgentStatus /\ e.type \notin Log!ends \cup {"capability.started"}
    BY <1>4 DEF Log!AgentStatus, Log!ends
  <2> DEFINE d == Append(s.decisions, <<e.type, e.cap>>)
  <2>2. t = [s EXCEPT !.decisions = d]
    BY <1>4, <2>1 DEF Log!ApplyEvent
  <2>3. d \in Seq({k.type : k \in Recordable} \X LogCaps)
    <3> DEFINE D == {k.type : k \in Recordable} \X LogCaps
    <3>1. s.decisions \in Seq(D) /\ <<e.type, e.cap>> \in D
      BY <1>1 DEF LogStates
    <3> HIDE DEF D
    <3>2. d \in Seq(D)
      BY <3>1, AppendProperties
    <3> QED
      BY <3>2 DEF D
  <2> HIDE DEF d
  <2>4. t \in LogStates /\ t.used = s.used /\ t.failures = s.failures /\ t.agent = s.agent
    BY <2>2, <2>3 DEF LogStates
  <2> HIDE DEF t
  <2> QED
    BY <1>4, <2>4 DEF t
<1>5. CASE /\ e.type \notin DOMAIN Log!AgentStatus /\ e.type \notin Log!ends \cup {"capability.started"}
           /\ e.type \notin {"security.denied", "security.approved"}
  <2>1. t = Log!HandlePhase(s, e)
    BY <1>5 DEF Log!ApplyEvent
  <2>2. e.type \notin {"capability.completed", "capability.failed"}
    BY <1>5 DEF Log!ends
  <2>3. \/ t = s \/ \E v \in LogStatuses : \/ t = [s EXCEPT !.execution = v] \/ t = [s EXCEPT !.verification = v]
                                           \/ t = [s EXCEPT !.recovery = v]
        \/ t = [s EXCEPT !.recovery = "started", !.attempts = @ + 1]
    <3>1. {"started", "completed", "failed", "exhausted"} \subseteq LogStatuses
      BY DEF LogStatuses
    <3>2. CASE e.type = "execution.started"
      BY <2>1, <3>1, <3>2 DEF Log!HandlePhase
    <3>3. CASE e.type = "execution.completed"
      BY <2>1, <3>1, <3>3 DEF Log!HandlePhase
    <3>4. CASE e.type = "verification.completed"
      BY <2>1, <3>1, <3>4 DEF Log!HandlePhase
    <3>5. CASE e.type = "verification.failed"
      BY <2>1, <3>1, <3>5 DEF Log!HandlePhase
    <3>6. CASE e.type = "recovery.started"
      BY <2>1, <3>1, <3>6 DEF Log!HandlePhase
    <3>7. CASE e.type = "recovery.exhausted"
      BY <2>1, <3>1, <3>7 DEF Log!HandlePhase
    <3>8. CASE e.type \notin {"execution.started", "execution.completed", "verification.completed", "verification.failed",
                              "recovery.started", "recovery.exhausted"}
      BY <2>1, <3>8 DEF Log!HandlePhase
    <3> QED
      BY <3>2, <3>3, <3>4, <3>5, <3>6, <3>7, <3>8
  <2> HIDE DEF t
  <2>4. t \in LogStates /\ t.used = s.used /\ t.failures = s.failures /\ t.agent = s.agent
    <3>1. CASE t = [s EXCEPT !.recovery = "started", !.attempts = @ + 1]
      <4>1. s.attempts \in Nat
        BY DEF LogStates
      <4> DEFINE n == s.attempts + 1
      <4>2. n \in Nat
        BY <4>1
      <4>3. t = [s EXCEPT !.recovery = "started", !.attempts = n]
        BY <3>1
      <4> HIDE DEF n
      <4> QED
        BY <4>2, <4>3 DEF LogStates, LogStatuses
    <3>2. CASE t # [s EXCEPT !.recovery = "started", !.attempts = @ + 1]
      BY <2>3, <3>2 DEF LogStates
    <3> QED
      BY <3>1, <3>2
  <2> QED
    BY <2>2, <2>4 DEF t
<1> QED
  BY <1>2, <1>3, <1>4, <1>5

\* The states that the reducer folds from a log, one after the other.
LEMMA StatesAre ==
  ASSUME LogInv
  PROVE  /\ Log!States(log) \in [0..Len(log) -> LogStates]
         /\ Log!States(log)[0] = Log!InitialState
         /\ \A i \in 1..Len(log) : Log!States(log)[i] = Log!ApplyEvent(Log!States(log)[i - 1], log[i])
<1> DEFINE n == Len(log)
<1> DEFINE T == LogStates
<1> DEFINE base == Log!InitialState
<1> DEFINE Next1(i, s) == Log!ApplyEvent(s, log[i])
<1> DEFINE step == [i \in 1..n |-> [s \in T |-> Next1(i, s)]]
<1>0. n \in Nat /\ \A i \in 1..n : log[i] \in Recordable
  BY LogIs
<1>1. \A i \in 1..n, s \in T : Next1(i, s) \in T
  BY <1>0, ApplyIs
<1>2. step \in [1..n -> [T -> T]]
  BY <1>1
<1>3. base \in T
  BY EmptySeq DEF Log!InitialState, LogStates, LogStatuses
<1> HIDE DEF Next1, step, T, base, n
<1>4. \E f \in [0..n -> T] : Walks(f, n, base, step)
  BY <1>0, <1>2, <1>3, StepByStep
<1>5. PICK f \in [0..n -> T] : f[0] = base /\ \A i \in 1..n : f[i] = step[i][f[i - 1]]
  BY <1>4 DEF Walks
<1>6. \A i \in 1..n : f[i] = Next1(i, f[i - 1])
  <2> TAKE i \in 1..n
  <2>1. f[i - 1] \in T
    BY <1>0, <1>5
  <2> QED
    BY <1>5, <2>1 DEF step
<1>7. f = [i \in 0..n |-> IF i = 0 THEN base ELSE Next1(i, f[i - 1])]
  <2>1. \A i \in 0..n : f[i] = IF i = 0 THEN base ELSE Next1(i, f[i - 1])
    <3> TAKE i \in 0..n
    <3>1. i # 0 => i \in 1..n
      BY <1>0
    <3> QED
      BY <1>5, <1>6, <3>1
  <2> DEFINE h == [i \in 0..n |-> IF i = 0 THEN base ELSE Next1(i, f[i - 1])]
  <2>2. \A i \in 0..n : h[i] = f[i]
    BY <2>1
  <2>3. DOMAIN h = 0..n /\ DOMAIN f = 0..n /\ h = [i \in 0..n |-> h[i]] /\ f = [i \in 0..n |-> f[i]]
    BY <1>5
  <2> HIDE DEF h
  <2>4. h = f
    BY <2>2, <2>3
  <2> QED
    BY <2>4 DEF h
<1> DEFINE g == Log!States(log)
<1>8. g = CHOOSE state : state = [i \in 0..n |-> IF i = 0 THEN base ELSE Next1(i, state[i - 1])]
  BY DEF Log!States, Next1, n, base
<1> HIDE DEF g
<1>9. g = [i \in 0..n |-> IF i = 0 THEN base ELSE Next1(i, g[i - 1])]
  BY <1>7, <1>8
<1>10. g[0] = base /\ \A i \in 1..n : g[i] = Next1(i, g[i - 1])
  <2>1. \A i \in 0..n : g[i] = IF i = 0 THEN base ELSE Next1(i, g[i - 1])
    BY <1>9
  <2>2. 0 \in 0..n /\ 1..n \subseteq 0..n /\ 0 \notin 1..n
    BY <1>0
  <2> QED
    BY <2>1, <2>2
<1>11. \A i \in 0..n : g[i] \in T
  <2> DEFINE Wrong == {i \in 0..n : g[i] \notin T}
  <2> SUFFICES ASSUME Wrong # {} PROVE FALSE
    OBVIOUS
  <2>1. Wrong \in SUBSET Nat
    OBVIOUS
  <2> HIDE DEF Wrong
  <2>2. PICK m \in Wrong : \A k \in Wrong : m <= k
    BY <2>1, LeastNatural
  <2>3. m \in 0..n /\ g[m] \notin T
    BY <2>2 DEF Wrong
  <2>4. m # 0
    BY <1>3, <1>10, <2>3
  <2>5. m - 1 \in 0..n /\ m - 1 \notin Wrong /\ m \in 1..n
    BY <1>0, <2>2, <2>3, <2>4
  <2>6. g[m - 1] \in T
    BY <2>5 DEF Wrong
  <2> QED
    BY <1>1, <1>10, <2>3, <2>5, <2>6
<1>12. g \in [0..n -> T]
  BY <1>9, <1>11
<1> QED
  BY <1>10, <1>12 DEF g, Next1, T, base, n

\* A capability that ends once: in a log without impossible transitions two ends of the
\* same capability are the same event.
LEMMA EndsOnce ==
  ASSUME LogInv, Log!ImpossibleTransitions(log) = {},
         NEW j \in 1..Len(log), NEW k \in 1..Len(log),
         log[j].type \in Log!ends, log[k].type \in Log!ends, log[j].cap = log[k].cap, log[k].cap # NoCap, j < k
  PROVE  FALSE
<1> DEFINE n == Len(log)
<1> DEFINE Before(i) == {m \in 1..(i - 1) : log[m].cap = log[i].cap /\ log[m].type \in Log!ends \cup {"capability.started"}}
<1> DEFINE Last(i) == CHOOSE m \in Before(i) : \A q \in Before(i) : q <= m
<1>1. n \in Nat /\ DOMAIN log = 1..n
  BY LogIs
<1>2. \A i \in 1..n : log[i].cap # NoCap => ~Log!Impossible(Log!CapabilityState(log, i), log[i].type)
  BY <1>1 DEF Log!ImpossibleTransitions
<1>3. j \in Before(k)
  BY <1>1
<1>4. Log!CapabilityState(log, k) = IF log[Last(k)].type \in Log!ends THEN "completed" ELSE "started"
  BY <1>3 DEF Log!CapabilityState
<1>5. Log!CapabilityState(log, k) = "started"
  BY <1>2 DEF Log!Impossible
<1>6. Last(k) \in Before(k) /\ \A q \in Before(k) : q <= Last(k)
  <2> DEFINE B == Before(k)
  <2>1. B \in SUBSET (0..k) /\ B # {} /\ k \in Nat
    BY <1>1, <1>3
  <2> HIDE DEF B
  <2>2. \E m \in B : \A q \in B : q <= m
    BY <2>1, GreatestNatural
  <2> QED
    BY <2>2 DEF B
<1>7. PICK m \in Before(k) : m = Last(k)
  BY <1>6
<1> HIDE DEF Last
<1>8. log[m].type = "capability.started" /\ log[m].cap = log[k].cap /\ m \in 1..n
  BY <1>1, <1>4, <1>5, <1>7
<1>9. j < m
  <2>1. j <= m
    BY <1>3, <1>6, <1>7
  <2>2. j # m
    BY <1>8 DEF Log!ends
  <2> QED
    BY <1>1, <1>8, <2>1, <2>2
<1>10. j \in Before(m)
  BY <1>1, <1>8, <1>9
<1>11. Log!CapabilityState(log, m) \in {"completed", "started"}
  BY <1>10 DEF Log!CapabilityState
<1> QED
  BY <1>2, <1>8, <1>11 DEF Log!Impossible

\* What the lists of a state hold has ended before, each capability once; a run said to be
\* completed was.
Accounted(s, i) ==
  /\ \A x \in 1..Len(s.used) : s.used[x] # NoCap
                               /\ \E j \in 1..i : log[j].type = "capability.completed" /\ log[j].cap = s.used[x]
  /\ \A x \in 1..Len(s.failures) : s.failures[x] # NoCap
                                   /\ \E j \in 1..i : log[j].type = "capability.failed" /\ log[j].cap = s.failures[x]
  /\ \A x, y \in 1..Len(s.used) : s.used[x] = s.used[y] => x = y
  /\ \A x, y \in 1..Len(s.failures) : s.failures[x] = s.failures[y] => x = y
  /\ s.agent = "completed" => \E j \in 1..i : log[j].type = "agent.completed"

\* A list that a capability not in it is added to still names each once.
LEMMA NotedOnce ==
  ASSUME NEW list \in Seq(LogCaps), NEW cap \in LogCaps, NEW Ended,
         \A x \in 1..Len(list) : list[x] # NoCap /\ list[x] \in Ended, cap # NoCap => cap \notin Ended,
         \A x, y \in 1..Len(list) : list[x] = list[y] => x = y
  PROVE  LET more == Log!Noted(list, cap) IN
         /\ \A x \in 1..Len(more) : more[x] # NoCap /\ more[x] \in Ended \cup {cap}
         /\ \A x, y \in 1..Len(more) : more[x] = more[y] => x = y
<1> DEFINE more == Log!Noted(list, cap)
<1> SUFFICES ASSUME cap # NoCap PROVE /\ \A x \in 1..Len(more) : more[x] # NoCap /\ more[x] \in Ended \cup {cap}
                                      /\ \A x, y \in 1..Len(more) : more[x] = more[y] => x = y
  BY DEF Log!Noted
<1>1. more = Append(list, cap)
  BY DEF Log!Noted
<1>2. Len(list) \in Nat /\ Len(more) = Len(list) + 1 /\ more[Len(list) + 1] = cap /\ \A x \in 1..Len(list) : more[x] = list[x]
  BY <1>1, AppendProperties, LenProperties
<1> HIDE DEF more
<1>3. \A x \in 1..Len(more) : x = Len(list) + 1 \/ x \in 1..Len(list)
  BY <1>2
<1> QED
  BY <1>2, <1>3

\* Every state of a log without impossible transitions is accounted for by the events so far.
LEMMA StatesAreAccounted ==
  ASSUME LogInv, Log!ImpossibleTransitions(log) = {}
  PROVE  \A i \in 0..Len(log) : Accounted(Log!States(log)[i], i)
<1> DEFINE n == Len(log)
<1> DEFINE g == Log!States(log)
<1>1. n \in Nat /\ DOMAIN log = 1..n /\ \A i \in 1..n : log[i] \in Recordable
  BY LogIs
<1>2. g \in [0..n -> LogStates] /\ g[0] = Log!InitialState /\ \A i \in 1..n : g[i] = Log!ApplyEvent(g[i - 1], log[i])
  BY StatesAre
<1> HIDE DEF g
<1> DEFINE Wrong == {i \in 0..n : ~Accounted(g[i], i)}
<1> SUFFICES ASSUME Wrong # {} PROVE FALSE
  BY DEF g
<1>3. Wrong \in SUBSET Nat
  OBVIOUS
<1> HIDE DEF Wrong
<1>4. PICK m \in Wrong : \A k \in Wrong : m <= k
  BY <1>3, LeastNatural
<1>5. m \in 0..n /\ ~Accounted(g[m], m) /\ m \in Nat
  BY <1>3, <1>4 DEF Wrong
<1>6. m # 0
  <2> SUFFICES ASSUME m = 0 PROVE Accounted(g[m], m)
    BY <1>5
  <2>1. g[m] = Log!InitialState
    BY <1>2
  <2>2. g[m].used = <<>> /\ g[m].failures = <<>> /\ g[m].agent = "none"
    BY <2>1 DEF Log!InitialState
  <2>3. Len(<<>>) = 0
    OBVIOUS
  <2> QED
    BY <2>2, <2>3 DEF Accounted
<1>7. m - 1 \in 0..n /\ m - 1 \notin Wrong /\ m \in 1..n
  BY <1>1, <1>4, <1>5, <1>6
<1>8. Accounted(g[m - 1], m - 1)
  BY <1>7 DEF Wrong
<1>9. PICK s \in LogStates : s = g[m - 1]
  BY <1>2, <1>7
<1>10. PICK e \in Recordable : e = log[m]
  BY <1>1, <1>7
<1>11. PICK t : t = g[m]
  OBVIOUS
<1>12. t = Log!ApplyEvent(s, e)
  BY <1>2, <1>7, <1>9, <1>10, <1>11
<1>13. /\ t.used = IF e.type = "capability.completed" THEN Log!Noted(s.used, e.cap) ELSE s.used
       /\ t.failures = IF e.type = "capability.failed" THEN Log!Noted(s.failures, e.cap) ELSE s.failures
       /\ t.agent = "completed" => s.agent = "completed" \/ e.type = "agent.completed"
  BY <1>12, ApplyIs
<1>14. s.used \in Seq(LogCaps) /\ s.failures \in Seq(LogCaps) /\ e.cap \in LogCaps
  BY DEF LogStates, LogCaps
<1>15. Accounted(s, m - 1)
  BY <1>8, <1>9
<1>16. \A j \in 1..(m - 1) : j \in 1..m /\ j \in 1..n /\ j < m
  BY <1>1, <1>7
<1>17. m \in 1..m /\ m \in 1..n
  BY <1>7
<1> DEFINE Ended(kind) == {log[j].cap : j \in {k \in 1..(m - 1) : log[k].type = kind}}
<1>18. ASSUME NEW kind \in Log!ends, e.type = kind, e.cap # NoCap PROVE e.cap \notin Ended(kind)
  <2> SUFFICES ASSUME NEW j \in 1..(m - 1), log[j].type = kind, log[j].cap = e.cap PROVE FALSE
    OBVIOUS
  <2> QED
    BY <1>10, <1>16, <1>17, <1>18, EndsOnce DEF n
<1> HIDE DEF n, Ended
<1>19. /\ \A x \in 1..Len(t.used) : t.used[x] # NoCap
                                       /\ \E j \in 1..m : log[j].type = "capability.completed" /\ log[j].cap = t.used[x]
       /\ \A x, y \in 1..Len(t.used) : t.used[x] = t.used[y] => x = y
  <2>1. CASE e.type = "capability.completed"
    <3> DEFINE kind == "capability.completed"
    <3> DEFINE list == s.used
    <3> DEFINE more == t.used
    <3>1. more = Log!Noted(list, e.cap)
      BY <1>13, <2>1
    <3>2. list \in Seq(LogCaps) /\ \A x, y \in 1..Len(list) : list[x] = list[y] => x = y
      BY <1>14, <1>15 DEF Accounted
    <3>3. \A x \in 1..Len(list) : list[x] # NoCap /\ list[x] \in Ended(kind)
      BY <1>15 DEF Accounted, Ended
    <3>4. e.cap # NoCap => e.cap \notin Ended(kind)
      BY <1>18, <2>1 DEF Log!ends
    <3> DEFINE before == Ended(kind)
    <3> DEFINE cap == e.cap
    <3>5. \A c \in before \cup {cap} : \E j \in 1..m : log[j].type = kind /\ log[j].cap = c
      BY <1>10, <1>16, <1>17, <2>1 DEF Ended
    <3>6. cap \in LogCaps
      BY <1>14
    <3> HIDE DEF list, more, before, cap
    <3>7. /\ \A x \in 1..Len(list) : list[x] # NoCap /\ list[x] \in before
          /\ cap # NoCap => cap \notin before
          /\ more = Log!Noted(list, cap)
      BY <3>1, <3>3, <3>4 DEF before, cap
    <3>8. /\ \A x \in 1..Len(more) : more[x] # NoCap /\ more[x] \in before \cup {cap}
          /\ \A x, y \in 1..Len(more) : more[x] = more[y] => x = y
      BY <3>2, <3>6, <3>7, NotedOnce
    <3> QED
      BY <3>5, <3>8 DEF more
  <2>2. CASE e.type # "capability.completed"
    BY <1>13, <1>15, <1>16, <2>2 DEF Accounted
  <2> QED
    BY <2>1, <2>2
<1>20. /\ \A x \in 1..Len(t.failures) : t.failures[x] # NoCap
                                       /\ \E j \in 1..m : log[j].type = "capability.failed" /\ log[j].cap = t.failures[x]
       /\ \A x, y \in 1..Len(t.failures) : t.failures[x] = t.failures[y] => x = y
  <2>1. CASE e.type = "capability.failed"
    <3> DEFINE kind == "capability.failed"
    <3> DEFINE list == s.failures
    <3> DEFINE more == t.failures
    <3>1. more = Log!Noted(list, e.cap)
      BY <1>13, <2>1
    <3>2. list \in Seq(LogCaps) /\ \A x, y \in 1..Len(list) : list[x] = list[y] => x = y
      BY <1>14, <1>15 DEF Accounted
    <3>3. \A x \in 1..Len(list) : list[x] # NoCap /\ list[x] \in Ended(kind)
      BY <1>15 DEF Accounted, Ended
    <3>4. e.cap # NoCap => e.cap \notin Ended(kind)
      BY <1>18, <2>1 DEF Log!ends
    <3> DEFINE before == Ended(kind)
    <3> DEFINE cap == e.cap
    <3>5. \A c \in before \cup {cap} : \E j \in 1..m : log[j].type = kind /\ log[j].cap = c
      BY <1>10, <1>16, <1>17, <2>1 DEF Ended
    <3>6. cap \in LogCaps
      BY <1>14
    <3> HIDE DEF list, more, before, cap
    <3>7. /\ \A x \in 1..Len(list) : list[x] # NoCap /\ list[x] \in before
          /\ cap # NoCap => cap \notin before
          /\ more = Log!Noted(list, cap)
      BY <3>1, <3>3, <3>4 DEF before, cap
    <3>8. /\ \A x \in 1..Len(more) : more[x] # NoCap /\ more[x] \in before \cup {cap}
          /\ \A x, y \in 1..Len(more) : more[x] = more[y] => x = y
      BY <3>2, <3>6, <3>7, NotedOnce
    <3> QED
      BY <3>5, <3>8 DEF more
  <2>2. CASE e.type # "capability.failed"
    BY <1>13, <1>15, <1>16, <2>2 DEF Accounted
  <2> QED
    BY <2>1, <2>2
<1>21. t.agent = "completed" => \E j \in 1..m : log[j].type = "agent.completed"
  <2> SUFFICES ASSUME t.agent = "completed" PROVE \E j \in 1..m : log[j].type = "agent.completed"
    OBVIOUS
  <2>1. CASE s.agent = "completed"
    <3>1. PICK j \in 1..(m - 1) : log[j].type = "agent.completed"
      BY <1>15, <2>1 DEF Accounted
    <3> QED
      BY <1>16, <3>1
  <2>2. CASE e.type = "agent.completed"
    BY <1>10, <1>17, <2>2
  <2> QED
    BY <1>13, <2>1, <2>2
<1>22. Accounted(t, m)
  BY <1>19, <1>20, <1>21 DEF Accounted
<1> QED
  BY <1>5, <1>11, <1>22

\* A log that is called valid is sound: what its last state lists, its events account for.
LEMMA ValidLogsAreSound == LogInv => Log!ValidLogIsSound
<1> DEFINE s == Log!Reduce(log)
<1> DEFINE n == Len(log)
<1> SUFFICES ASSUME LogInv, Log!ConsistencyStatus(log) = "valid"
             PROVE  /\ \A c \in Log!Range(s.used) \cup Log!Range(s.failures) :
                         \E i \in DOMAIN log : log[i].type = "capability.started" /\ log[i].cap = c
                    /\ Log!IsInjective(s.used \o s.failures)
                    /\ s.agent = "completed" => {"verification.completed", "review.completed"} \cap Log!Types(log) # {}
  BY DEF Log!ValidLogIsSound
<1>1. ~Log!Errors(log) /\ ~Log!Warnings(log)
  BY DEF Log!ConsistencyStatus
<1>2. Log!ImpossibleTransitions(log) = {} /\ Log!EndsWithoutStart(log) = {} /\ ~Log!NoReviewOnComplete(log)
  BY <1>1 DEF Log!Errors, Log!Warnings
<1>3. n \in Nat /\ DOMAIN log = 1..n /\ n \in 0..n
  BY LogIs
<1>4. s \in LogStates
  BY <1>3, StatesAre DEF Log!Reduce
<1>5. Accounted(s, n)
  BY <1>2, <1>3, StatesAreAccounted DEF Log!Reduce
<1> HIDE DEF s, n
<1> DEFINE used == s.used
<1> DEFINE failures == s.failures
<1>6. used \in Seq(LogCaps) /\ failures \in Seq(LogCaps)
  BY <1>4 DEF LogStates
<1>7. DOMAIN used = 1..Len(used) /\ DOMAIN failures = 1..Len(failures) /\ Len(used) \in Nat /\ Len(failures) \in Nat
  BY <1>6, LenProperties
<1>8. ASSUME NEW c \in Log!Range(used) \cup Log!Range(failures)
      PROVE  \E i \in DOMAIN log : log[i].type = "capability.started" /\ log[i].cap = c
  <2>1. \E j \in 1..n : log[j].type \in Log!ends /\ log[j].cap = c
    <3>1. CASE c \in Log!Range(used)
      <4>1. PICK x \in 1..Len(used) : c = used[x]
        BY <1>7, <3>1 DEF Log!Range
      <4> QED
        BY <1>5, <4>1 DEF Accounted, Log!ends
    <3>2. CASE c \in Log!Range(failures)
      <4>1. PICK x \in 1..Len(failures) : c = failures[x]
        BY <1>7, <3>2 DEF Log!Range
      <4> QED
        BY <1>5, <4>1 DEF Accounted, Log!ends
    <3> QED
      BY <3>1, <3>2
  <2> QED
    BY <1>2, <1>3, <2>1 DEF Log!EndsWithoutStart
<1>9. Log!IsInjective(used \o failures)
  <2> DEFINE both == used \o failures
  <2>1. /\ both \in Seq(LogCaps) /\ Len(both) = Len(used) + Len(failures)
        /\ \A i \in 1..Len(used) + Len(failures) : both[i] = IF i <= Len(used) THEN used[i] ELSE failures[i - Len(used)]
    BY <1>6, ConcatProperties
  <2>2. DOMAIN both = 1..(Len(used) + Len(failures))
    BY <2>1, LenProperties
  <2>3. /\ \A x, y \in 1..Len(used) : used[x] = used[y] => x = y
        /\ \A x, y \in 1..Len(failures) : failures[x] = failures[y] => x = y
    BY <1>5 DEF Accounted
  <2>4. ASSUME NEW x \in 1..Len(used), NEW y \in 1..Len(failures), used[x] = failures[y] PROVE FALSE
    <3>1. PICK j \in 1..n : log[j].type = "capability.completed" /\ log[j].cap = used[x] /\ used[x] # NoCap
      BY <1>5 DEF Accounted
    <3>2. PICK k \in 1..n : log[k].type = "capability.failed" /\ log[k].cap = failures[y]
      BY <1>5 DEF Accounted
    <3>3. j # k
      BY <3>1, <3>2
    <3>4. j < k \/ k < j
      BY <3>3
    <3>5. log[j].type \in Log!ends /\ log[k].type \in Log!ends /\ log[j].cap = log[k].cap /\ log[k].cap # NoCap
      BY <2>4, <3>1, <3>2 DEF Log!ends
    <3> QED
      BY <1>2, <3>4, <3>5, EndsOnce DEF n
  <2> HIDE DEF both, used, failures
  <2>5. ASSUME NEW a \in DOMAIN both, NEW b \in DOMAIN both, both[a] = both[b] PROVE a = b
    <3>1. a \in 1..(Len(used) + Len(failures)) /\ b \in 1..(Len(used) + Len(failures))
      BY <2>2
    <3>2. CASE a <= Len(used) /\ b <= Len(used)
      <4>1. a \in 1..Len(used) /\ b \in 1..Len(used) /\ both[a] = used[a] /\ both[b] = used[b]
        BY <1>7, <2>1, <3>1, <3>2
      <4> QED
        BY <2>3, <2>5, <4>1
    <3>3. CASE a <= Len(used) /\ ~(b <= Len(used))
      <4>1. a \in 1..Len(used) /\ b - Len(used) \in 1..Len(failures) /\ both[a] = used[a] /\ both[b] = failures[b - Len(used)]
        BY <1>7, <2>1, <3>1, <3>3
      <4> QED
        BY <2>4, <2>5, <4>1
    <3>4. CASE ~(a <= Len(used)) /\ b <= Len(used)
      <4>1. b \in 1..Len(used) /\ a - Len(used) \in 1..Len(failures) /\ both[b] = used[b] /\ both[a] = failures[a - Len(used)]
        BY <1>7, <2>1, <3>1, <3>4
      <4> QED
        BY <2>4, <2>5, <4>1
    <3>5. CASE ~(a <= Len(used)) /\ ~(b <= Len(used))
      <4>1. /\ a - Len(used) \in 1..Len(failures) /\ b - Len(used) \in 1..Len(failures)
            /\ both[a] = failures[a - Len(used)] /\ both[b] = failures[b - Len(used)]
        BY <1>7, <2>1, <3>1, <3>5
      <4>2. a - Len(used) = b - Len(used)
        BY <2>3, <2>5, <4>1
      <4> QED
        BY <1>7, <3>1, <4>2
    <3> QED
      BY <3>2, <3>3, <3>4, <3>5
  <2>6. Log!IsInjective(both)
    BY <2>5 DEF Log!IsInjective
  <2> QED
    BY <2>6 DEF both, used, failures
<1>10. ASSUME s.agent = "completed" PROVE {"verification.completed", "review.completed"} \cap Log!Types(log) # {}
  <2>1. PICK j \in 1..n : log[j].type = "agent.completed"
    BY <1>5, <1>10 DEF Accounted
  <2>2. "agent.completed" \in Log!Types(log)
    BY <1>3, <2>1 DEF Log!Types
  <2> QED
    BY <1>2, <2>2 DEF Log!NoReviewOnComplete
<1> QED
  BY <1>8, <1>9, <1>10

\* What the replay owes of any log.
LEMMA LogOwes == LogInv => Log!TypeOK /\ Log!ValidLogIsSound /\ Log!DenialReportIsTrue /\ Log!EveryEventIsPlaced
BY LogTypes, ValidLogsAreSound, DenialsAreTrue, PlacesAreEarlier

-----------------------------------------------------------------------------
(* The harness and the verification engine. *)

\* A result is in one counter of the benchmark it is part of.
LEMMA OneCounter ==
  ASSUME NEW r, r.status \in Har!Counters
  PROVE  LET by == Har!RunBenchmark(<<r, r>>).by IN by["completed"] + by["failed"] + by["timeout"] + by["error"] = 2
<1> DEFINE by == Har!RunBenchmark(<<r, r>>).by
<1> DEFINE In(c) == {i \in DOMAIN <<r, r>> : <<r, r>>[i].status = c}
<1>1. by = [c \in Har!Counters |-> Har!Cardinality(In(c))]
  BY DEF Har!RunBenchmark
<1>2. \A c \in Har!Counters : by[c] = Cardinality(In(c))
  BY <1>1 DEF Har!Cardinality, Cardinality
<1>3. DOMAIN <<r, r>> = 1..2 /\ <<r, r>>[1] = r /\ <<r, r>>[2] = r
  OBVIOUS
<1>4. \A i \in 1..2 : <<r, r>>[i] = r
  BY <1>3
<1>5. \A c \in Har!Counters : IF c = r.status THEN In(c) = 1..2 ELSE In(c) = {}
  BY <1>3, <1>4
<1> HIDE DEF by, In
<1>6. Cardinality(1..2) = 2 /\ Cardinality({}) = 0
  <2>1. 1 \in Int /\ 2 \in Int
    OBVIOUS
  <2>2. Cardinality(1..2) = IF 1 > 2 THEN 0 ELSE 2 - 1 + 1
    BY <2>1, FS_Interval
  <2>3. Cardinality(1..2) = 2
    BY <2>2
  <2>4. Cardinality({}) = 0
    BY FS_EmptySet
  <2> QED
    BY <2>3, <2>4
<1>7. \A c \in Har!Counters : by[c] = IF c = r.status THEN 2 ELSE 0
  BY <1>2, <1>5, <1>6
<1>8. /\ by["completed"] = IF "completed" = r.status THEN 2 ELSE 0
      /\ by["failed"] = IF "failed" = r.status THEN 2 ELSE 0
      /\ by["timeout"] = IF "timeout" = r.status THEN 2 ELSE 0
      /\ by["error"] = IF "error" = r.status THEN 2 ELSE 0
  BY <1>7 DEF Har!Counters
<1>9. r.status = "completed" \/ r.status = "failed" \/ r.status = "timeout" \/ r.status = "error"
  BY DEF Har!Counters
<1>10. by["completed"] + by["failed"] + by["timeout"] + by["error"] = 2
  BY <1>8, <1>9
<1> QED
  BY <1>10 DEF by

\* A task that succeeds is verified, and its result is counted once.
LEMMA HarnessHolds ==
  ASSUME NEW t \in Har!Tasks, NEW w \in Har!Works
  PROVE  Har!SuccessIsVerified(t, w)
<1> DEFINE r == Har!RunTask(t, w)
<1>1. r.status \in Har!Counters
  <2>1. w.ends \in {"answers", "timeout", "raises"}
    BY DEF Har!Works
  <2>2. CASE w.ends = "timeout"
    <3>1. r = Har!Result("timeout", FALSE, 0, 0, 0)
      BY <2>2 DEF Har!RunTask
    <3> QED
      BY <3>1 DEF Har!Result, Har!Counters
  <2>3. CASE w.ends = "raises"
    <3>1. r = Har!Result("error", FALSE, 0, 0, 0)
      BY <2>3 DEF Har!RunTask
    <3> QED
      BY <3>1 DEF Har!Result, Har!Counters
  <2>4. CASE w.ends = "answers"
    <3> DEFINE success == Har!Verify(t, w, "verified") /\ Har!CalculateScore(t, w) >= 800
    <3>1. r = Har!Judged(t, w, success)
      BY <2>4 DEF Har!RunTask
    <3> HIDE DEF success
    <3>2. r.status = IF success THEN "completed" ELSE "failed"
      BY <3>1 DEF Har!Judged, Har!Result
    <3> QED
      BY <3>2 DEF Har!Counters
  <2> QED
    BY <2>1, <2>2, <2>3, <2>4
<1>2. r.success => /\ w.ends = "answers" /\ r.findings = 0 /\ (t.clean => w.clean)
                   /\ Har!TestsMet(t, w, "verified") = t.tests /\ r.score >= 800
                   /\ ((\A a, b \in Har!Rounds : w.tests[a] = w.tests[b]) => r.score = 1000 /\ r.tests_passed = t.tests)
                   /\ Har!RunTaskWithReplay(t, w).replay = "complete"
  BY SuccessLeavesNothing
<1> HIDE DEF r
<1>3. LET by == Har!RunBenchmark(<<r, r>>).by IN by["completed"] + by["failed"] + by["timeout"] + by["error"] = 2
  BY <1>1, OneCounter
<1> QED
  BY <1>2, <1>3 DEF r, Har!SuccessIsVerified

CriterionStatuses == {"skipped", "passed", "failed", "error"}
Evaluators == {"none", "test", "type", "lint", "changed", "file"}

\* The suites are sequences of evaluators.
LEMMA SuitesAre == ASSUME NEW s \in DOMAIN Ver!Suites PROVE Ver!Suites[s] \in Seq(Evaluators)
<1>1. s = "comprehensive" \/ s = "test" \/ s = "default" \/ s = "strict"
  BY DEF Ver!Suites
<1>2. /\ Ver!Suites["comprehensive"] = <<"none", "none", "none", "none">> /\ Ver!Suites["test"] = <<"none">>
      /\ Ver!Suites["default"] = <<"test", "type", "lint", "changed">> /\ Ver!Suites["strict"] = <<"test", "file", "changed">>
  BY DEF Ver!Suites, Ver!BuildComprehensiveSuite, Ver!BuildTestSuite, Ver!DefaultSuite, Ver!StrictSuite
<1>3. <<"none", "none", "none", "none">> \in Seq(Evaluators) /\ <<"none">> \in Seq(Evaluators)
  BY DEF Evaluators
<1>4. <<"test", "type", "lint", "changed">> \in Seq(Evaluators)
  BY DEF Evaluators
<1>5. <<"test", "file", "changed">> \in Seq(Evaluators)
  BY DEF Evaluators
<1> QED
  BY <1>1, <1>2, <1>3, <1>4, <1>5

\* Every evaluator ends with a status.
LEMMA CriterionIs == ASSUME NEW p, NEW e \in Evaluators PROVE Ver!EvaluateCriterion(p, e) \in CriterionStatuses
<1>1. \A o : Ver!RunCommand(o) \in CriterionStatuses
  BY DEF Ver!RunCommand, CriterionStatuses
<1>2. Ver!CheckFilesChanged(p) \in CriterionStatuses /\ Ver!CheckFileDoesNotContain(p) \in CriterionStatuses
  BY DEF Ver!CheckFilesChanged, Ver!CheckFileDoesNotContain, CriterionStatuses
<1>3. Ver!EvaluateCriterion(p, e) \in {"skipped", Ver!CheckFilesChanged(p), Ver!CheckFileDoesNotContain(p), Ver!RunCommand(p[e])}
  BY DEF Ver!EvaluateCriterion
<1>4. "skipped" \in CriterionStatuses
  BY DEF CriterionStatuses
<1> QED
  BY <1>1, <1>2, <1>3, <1>4

\* A suite that gives no failure gave every criterion's status.
LEMMA SuiteIs ==
  ASSUME NEW p, NEW s \in DOMAIN Ver!Suites
  PROVE  LET statuses == Ver!EvaluateSuite(p, s) IN
         /\ statuses \in Seq(CriterionStatuses)
         /\ Ver!Range(statuses) \subseteq {"passed"} =>
              \A i \in DOMAIN Ver!Suites[s] : Ver!EvaluateCriterion(p, Ver!Suites[s][i]) = "passed"
<1> DEFINE suite == Ver!Suites[s]
<1> DEFINE all == [i \in DOMAIN suite |-> Ver!EvaluateCriterion(p, suite[i])]
<1> DEFINE failed == {i \in DOMAIN all : all[i] = "failed"}
<1> DEFINE first == CHOOSE i \in failed : \A j \in failed : i <= j
<1> DEFINE statuses == Ver!EvaluateSuite(p, s)
<1>1. suite \in Seq(Evaluators) /\ Len(suite) \in Nat /\ DOMAIN suite = 1..Len(suite) /\ \A i \in 1..Len(suite) : suite[i] \in Evaluators
  BY SuitesAre, LenProperties, ElementOfSeq
<1>2. statuses = IF s \in Ver!StopsOnFirstFailure /\ failed # {} THEN SubSeq(all, 1, first) ELSE all
  BY DEF Ver!EvaluateSuite
<1> HIDE DEF suite, statuses
<1>3. \A i \in 1..Len(suite) : all[i] \in CriterionStatuses
  BY <1>1, CriterionIs
<1>4. all \in [1..Len(suite) -> CriterionStatuses]
  BY <1>1, <1>3
<1>5. DOMAIN all = 1..Len(suite)
  BY <1>1
<1>6. \A i \in DOMAIN suite : all[i] = Ver!EvaluateCriterion(p, suite[i])
  OBVIOUS
<1> HIDE DEF all
<1>7. all \in Seq(CriterionStatuses) /\ Len(all) = Len(suite)
  <2>1. all \in Seq(CriterionStatuses)
    BY <1>1, <1>4, SeqDef
  <2>2. DOMAIN all = 1..Len(all) /\ Len(all) \in Nat
    BY <2>1, LenProperties
  <2>3. Len(all) = Len(suite)
    <3> DEFINE m == Len(all)
    <3> DEFINE n == Len(suite)
    <3>1. m \in Nat /\ n \in Nat /\ 1..m = 1..n
      BY <1>1, <1>5, <2>2
    <3> HIDE DEF m, n
    <3>2. m = n
      <4>1. (m \in 1..m => m \in 1..n) /\ (n \in 1..n => n \in 1..m)
        BY <3>1
      <4> QED
        BY <3>1, <4>1
    <3> QED
      BY <3>2 DEF m, n
  <2> QED
    BY <2>1, <2>3
<1>8. CASE failed # {} /\ s \in Ver!StopsOnFirstFailure
  <2>1. first \in failed
    <3>1. failed \in SUBSET Nat
      BY <1>1, <1>5
    <3> DEFINE F == failed
    <3>2. \E i \in F : \A j \in F : i <= j
      <4> HIDE DEF F
      <4> QED
        BY <1>8, <3>1, LeastNatural DEF F
    <3> QED
      BY <3>2
  <2>2. PICK f \in failed : f = first
    BY <2>1
  <2>3. f \in 1..Len(all) /\ all[f] = "failed"
    BY <1>5, <1>7
  <2>4. statuses = SubSeq(all, 1, f)
    BY <1>2, <1>8, <2>2
  <2> HIDE DEF failed, first
  <2>5. 1 \in 1..(Len(all) + 1) /\ f \in 0..Len(all) /\ f - 1 + 1 = f /\ Len(all) \in Nat
    BY <1>1, <1>7, <2>3
  <2>6. statuses \in Seq(CriterionStatuses) /\ Len(statuses) = f /\ \A i \in 1..f : statuses[i] = all[i]
    <3>1. /\ SubSeq(all, 1, f) \in Seq(CriterionStatuses)
          /\ Len(SubSeq(all, 1, f)) = IF 1 <= f THEN f - 1 + 1 ELSE 0
          /\ \A i \in 1..(f - 1 + 1) : SubSeq(all, 1, f)[i] = all[1 + i - 1]
      BY <1>7, <2>5, SubSeqProperties
    <3>2. 1 <= f /\ \A i \in 1..f : 1 + i - 1 = i
      BY <2>3
    <3> QED
      BY <2>4, <2>5, <3>1, <3>2
  <2>7. DOMAIN statuses = 1..f
    BY <2>6, LenProperties
  <2>8. "failed" \in Ver!Range(statuses)
    BY <2>3, <2>6, <2>7 DEF Ver!Range
  <2> QED
    BY <2>6, <2>8 DEF statuses
<1>9. CASE ~(failed # {} /\ s \in Ver!StopsOnFirstFailure)
  <2>1. statuses = all
    BY <1>2, <1>9
  <2>2. Ver!Range(all) \subseteq {"passed"} => \A i \in DOMAIN suite : all[i] = "passed"
    BY <1>1, <1>5 DEF Ver!Range
  <2> QED
    BY <1>6, <1>7, <2>1, <2>2 DEF statuses, suite
<1> QED
  BY <1>8, <1>9

\* What all registered suites give holds what each of them gives.
LEMMA AllIs ==
  ASSUME NEW p, NEW registered \in Seq(DOMAIN Ver!Suites)
  PROVE  LET statuses == Ver!EvaluateAll(p, registered) IN
         /\ statuses \in Seq(CriterionStatuses)
         /\ \A k \in 1..Len(registered) : Ver!Range(Ver!EvaluateSuite(p, registered[k])) \subseteq Ver!Range(statuses)
<1> DEFINE n == Len(registered)
<1> DEFINE T == Seq(CriterionStatuses)
<1> DEFINE base == <<>>
<1> DEFINE Given(i) == Ver!EvaluateSuite(p, registered[i])
<1> DEFINE Next1(i, s) == s \o Given(i)
<1> DEFINE step == [i \in 1..n |-> [s \in T |-> Next1(i, s)]]
<1>0. n \in Nat /\ \A i \in 1..n : registered[i] \in DOMAIN Ver!Suites
  BY LenProperties, ElementOfSeq
<1>1. \A i \in 1..n : Given(i) \in T
  BY <1>0, SuiteIs
<1> HIDE DEF Given
<1>2. \A i \in 1..n, s \in T : Next1(i, s) \in T
  BY <1>1, ConcatProperties
<1>3. step \in [1..n -> [T -> T]]
  BY <1>2
<1>4. base \in T
  BY EmptySeq
<1> HIDE DEF Next1, step, T, base, n
<1>5. \E f \in [0..n -> T] : Walks(f, n, base, step)
  BY <1>0, <1>3, <1>4, StepByStep
<1>6. PICK f \in [0..n -> T] : f[0] = base /\ \A i \in 1..n : f[i] = step[i][f[i - 1]]
  BY <1>5 DEF Walks
<1>7. \A i \in 1..n : f[i] = Next1(i, f[i - 1])
  <2> TAKE i \in 1..n
  <2>1. f[i - 1] \in T
    BY <1>0, <1>6
  <2> QED
    BY <1>6, <2>1 DEF step
<1>8. f = [i \in 0..n |-> IF i = 0 THEN base ELSE Next1(i, f[i - 1])]
  <2>1. \A i \in 0..n : f[i] = IF i = 0 THEN base ELSE Next1(i, f[i - 1])
    <3> TAKE i \in 0..n
    <3>1. i # 0 => i \in 1..n
      BY <1>0
    <3> QED
      BY <1>6, <1>7, <3>1
  <2> DEFINE h == [i \in 0..n |-> IF i = 0 THEN base ELSE Next1(i, f[i - 1])]
  <2>2. \A i \in 0..n : h[i] = f[i]
    BY <2>1
  <2>3. DOMAIN h = 0..n /\ DOMAIN f = 0..n /\ h = [i \in 0..n |-> h[i]] /\ f = [i \in 0..n |-> f[i]]
    BY <1>6
  <2> HIDE DEF h
  <2>4. h = f
    BY <2>2, <2>3
  <2> QED
    BY <2>4 DEF h
<1> DEFINE g == CHOOSE upto : upto = [i \in 0..n |-> IF i = 0 THEN base ELSE Next1(i, upto[i - 1])]
<1>9. Ver!EvaluateAll(p, registered) = g[n]
  BY DEF Ver!EvaluateAll, Given, Next1, n, base
<1>10. g = [i \in 0..n |-> IF i = 0 THEN base ELSE Next1(i, g[i - 1])]
  BY <1>8
<1> HIDE DEF g
<1>11. g[0] = base /\ \A i \in 1..n : g[i] = Next1(i, g[i - 1])
  <2>1. \A i \in 0..n : g[i] = IF i = 0 THEN base ELSE Next1(i, g[i - 1])
    BY <1>10
  <2>2. 0 \in 0..n /\ 1..n \subseteq 0..n /\ 0 \notin 1..n
    BY <1>0
  <2> QED
    BY <2>1, <2>2
<1> DEFINE Fine(i) == g[i] \in T /\ \A k \in 1..i : Ver!Range(Given(k)) \subseteq Ver!Range(g[i])
<1>12. \A i \in 0..n : Fine(i)
  <2> DEFINE Wrong == {i \in 0..n : ~Fine(i)}
  <2> SUFFICES ASSUME Wrong # {} PROVE FALSE
    OBVIOUS
  <2>1. Wrong \in SUBSET Nat
    OBVIOUS
  <2> HIDE DEF Wrong
  <2>2. PICK m \in Wrong : \A k \in Wrong : m <= k
    BY <2>1, LeastNatural
  <2>3. m \in 0..n /\ ~Fine(m)
    BY <2>2 DEF Wrong
  <2>4. m # 0
    BY <1>4, <1>11, <2>3
  <2>5. m - 1 \in 0..n /\ m - 1 \notin Wrong /\ m \in 1..n
    BY <1>0, <2>2, <2>3, <2>4
  <2>6. Fine(m - 1)
    BY <2>5 DEF Wrong
  <2>7. PICK s \in T : s = g[m - 1]
    BY <2>6
  <2>8. PICK c \in T : c = Given(m)
    BY <1>1, <2>5
  <2>9. g[m] = s \o c
    BY <1>11, <2>5, <2>7, <2>8 DEF Next1
  <2>10. /\ s \o c \in T /\ Len(s \o c) = Len(s) + Len(c)
         /\ \A i \in 1..Len(s) + Len(c) : (s \o c)[i] = IF i <= Len(s) THEN s[i] ELSE c[i - Len(s)]
    BY ConcatProperties DEF T
  <2>11. DOMAIN s = 1..Len(s) /\ DOMAIN c = 1..Len(c) /\ Len(s) \in Nat /\ Len(c) \in Nat /\ DOMAIN (s \o c) = 1..Len(s \o c)
    BY <2>10, LenProperties DEF T
  <2> DEFINE both == s \o c
  <2>12. DOMAIN both = 1..(Len(s) + Len(c)) /\ \A i \in 1..(Len(s) + Len(c)) : both[i] = IF i <= Len(s) THEN s[i] ELSE c[i - Len(s)]
    BY <2>10, <2>11
  <2> HIDE DEF both
  <2>13. Ver!Range(s) \subseteq Ver!Range(both)
    <3>1. \A i \in 1..Len(s) : i \in 1..(Len(s) + Len(c)) /\ both[i] = s[i]
      BY <2>11, <2>12
    <3> QED
      BY <2>11, <2>12, <3>1 DEF Ver!Range
  <2>14. Ver!Range(c) \subseteq Ver!Range(both)
    <3>1. \A i \in 1..Len(c) : i + Len(s) \in 1..(Len(s) + Len(c)) /\ both[i + Len(s)] = c[i]
      <4> TAKE i \in 1..Len(c)
      <4> DEFINE j == i + Len(s)
      <4>1. j \in 1..(Len(s) + Len(c)) /\ ~(j <= Len(s)) /\ j - Len(s) = i
        BY <2>11
      <4> HIDE DEF j
      <4>2. both[j] = c[i]
        BY <2>12, <4>1
      <4> QED
        BY <4>1, <4>2 DEF j
    <3> QED
      BY <2>11, <2>12, <3>1 DEF Ver!Range
  <2>15. \A k \in 1..m : k = m \/ k \in 1..(m - 1)
    BY <1>0, <2>3
  <2>16. g[m] = both /\ both \in T
    BY <2>9, <2>10 DEF both
  <2>17. \A k \in 1..m : Ver!Range(Given(k)) \subseteq Ver!Range(both)
    <3> TAKE k \in 1..m
    <3>1. CASE k = m
      BY <2>8, <2>14, <3>1
    <3>2. CASE k \in 1..(m - 1)
      <4>1. Ver!Range(Given(k)) \subseteq Ver!Range(s)
        BY <2>6, <2>7, <3>2
      <4> QED
        BY <2>13, <4>1
    <3> QED
      BY <2>15, <3>1, <3>2
  <2> QED
    BY <2>3, <2>16, <2>17
<1>13. n \in 0..n
  BY <1>0
<1>14. Fine(n)
  BY <1>12, <1>13
<1> QED
  BY <1>9, <1>14 DEF T, n, Given

\* A verification that passed hides nothing, whatever is registered and asked for.
LEMMA VerificationHolds ==
  ASSUME NEW p, NEW registered \in Seq(DOMAIN Ver!Suites), NEW name \in {"all"} \cup DOMAIN Ver!Suites
  PROVE  Ver!PassedHidesNothing(p, registered, name)
<1> DEFINE v == Ver!Verify(p, registered, name)
<1> DEFINE asked == IF name = "all" THEN Ver!Range(registered) ELSE {name}
<1> DEFINE statuses == CASE name = "all" -> Ver!EvaluateAll(p, registered)
                         [] name \in Ver!Range(registered) -> Ver!EvaluateSuite(p, name)
                         [] OTHER -> <<"error">>
<1> DEFINE passed == {i \in DOMAIN statuses : statuses[i] = "passed"}
<1>1. v.status = Ver!StatusOf(statuses) /\ v.criteria = statuses /\ v.passed = Ver!Cardinality(passed)
  BY DEF Ver!Verify
<1> SUFFICES ASSUME v.status = "passed"
             PROVE  /\ v.passed = Len(v.criteria)
                    /\ \A s \in asked : \A i \in DOMAIN Ver!Suites[s] : Ver!EvaluateCriterion(p, Ver!Suites[s][i]) = "passed"
                    /\ "default" \in asked => (p.test = "succeeds" /\ p.lint = "succeeds" /\ p.changed # "many_files")
                    /\ v.criteria # <<>> => Ver!WithFailures(v.criteria) = "passed"
  BY DEF Ver!PassedHidesNothing
<1>2. "all" \notin DOMAIN Ver!Suites
  BY DEF Ver!Suites
<1>3. Len(registered) \in Nat /\ DOMAIN registered = 1..Len(registered) /\ \A i \in 1..Len(registered) : registered[i] \in DOMAIN Ver!Suites
  BY LenProperties, ElementOfSeq
<1>4. name # "all" => name \in DOMAIN Ver!Suites
  OBVIOUS
<1>5. /\ name = "all" => statuses = Ver!EvaluateAll(p, registered)
      /\ name # "all" /\ name \in Ver!Range(registered) => statuses = Ver!EvaluateSuite(p, name)
      /\ name # "all" /\ name \notin Ver!Range(registered) => statuses = <<"error">>
  <2>1. CASE name = "all"
    <3>1. name \notin Ver!Range(registered)
      BY <1>2, <1>3, <2>1 DEF Ver!Range
    <3> QED
      BY <2>1, <3>1
  <2>2. CASE name # "all"
    BY <2>2
  <2> QED
    BY <2>1, <2>2
<1> HIDE DEF statuses, v
<1>6. statuses \in Seq(CriterionStatuses)
  <2>1. <<"error">> \in Seq(CriterionStatuses)
    BY DEF CriterionStatuses
  <2> QED
    BY <1>4, <1>5, <2>1, AllIs, SuiteIs
<1>7. Len(statuses) \in Nat /\ DOMAIN statuses = 1..Len(statuses) /\ \A i \in 1..Len(statuses) : statuses[i] \in CriterionStatuses
  BY <1>6, LenProperties, ElementOfSeq
<1>8. Ver!Range(statuses) \subseteq {"passed"}
  <2>1. Ver!StatusOf(statuses) = "passed"
    BY <1>1
  <2>2. "error" \notin Ver!Range(statuses) /\ "failed" \notin Ver!Range(statuses)
    BY <2>1 DEF Ver!StatusOf
  <2> QED
    BY <2>1, <2>2 DEF Ver!StatusOf
<1>9. \A i \in DOMAIN statuses : statuses[i] = "passed"
  BY <1>8 DEF Ver!Range
<1>10. v.passed = Len(v.criteria)
  <2>1. passed = 1..Len(statuses)
    BY <1>7, <1>9
  <2> DEFINE n == Len(statuses)
  <2>2. 1 \in Int /\ n \in Int
    BY <1>7
  <2> HIDE DEF n
  <2>3. Cardinality(1..n) = IF 1 > n THEN 0 ELSE n - 1 + 1
    BY <2>2, FS_Interval
  <2>4. n \in Nat
    BY <1>7 DEF n
  <2>5. Cardinality(1..n) = n
    BY <2>3, <2>4
  <2>6. Ver!Cardinality(1..n) = Cardinality(1..n)
    BY DEF Ver!Cardinality, Cardinality
  <2> QED
    BY <1>1, <2>1, <2>5, <2>6 DEF n
<1>11. ASSUME NEW s \in asked PROVE \A i \in DOMAIN Ver!Suites[s] : Ver!EvaluateCriterion(p, Ver!Suites[s][i]) = "passed"
  <2>1. CASE name = "all"
    <3>1. PICK k \in 1..Len(registered) : s = registered[k]
      BY <1>3, <2>1 DEF Ver!Range
    <3>2. Ver!Range(Ver!EvaluateSuite(p, s)) \subseteq Ver!Range(statuses)
      BY <1>5, <2>1, <3>1, AllIs
    <3>3. s \in DOMAIN Ver!Suites
      BY <1>3, <3>1
    <3> QED
      BY <1>8, <3>2, <3>3, SuiteIs
  <2>2. CASE name # "all"
    <3>1. s = name
      BY <2>2
    <3>2. name \in Ver!Range(registered)
      <4> SUFFICES ASSUME name \notin Ver!Range(registered) PROVE FALSE
        OBVIOUS
      <4>1. statuses = <<"error">>
        BY <1>5, <2>2
      <4>2. statuses[1] = "error" /\ 1 \in DOMAIN statuses
        BY <4>1
      <4> QED
        BY <1>9, <4>2
    <3> QED
      BY <1>4, <1>5, <1>8, <2>2, <3>1, <3>2, SuiteIs
  <2> QED
    BY <2>1, <2>2
<1>12. "default" \in asked => (p.test = "succeeds" /\ p.lint = "succeeds" /\ p.changed # "many_files")
  <2> SUFFICES ASSUME "default" \in asked PROVE p.test = "succeeds" /\ p.lint = "succeeds" /\ p.changed # "many_files"
    OBVIOUS
  <2>1. Ver!Suites["default"] = <<"test", "type", "lint", "changed">>
    BY DEF Ver!Suites, Ver!DefaultSuite
  <2>2. /\ 1 \in DOMAIN <<"test", "type", "lint", "changed">> /\ 3 \in DOMAIN <<"test", "type", "lint", "changed">>
        /\ 4 \in DOMAIN <<"test", "type", "lint", "changed">>
    OBVIOUS
  <2>3. /\ Ver!EvaluateCriterion(p, "test") = "passed" /\ Ver!EvaluateCriterion(p, "lint") = "passed"
        /\ Ver!EvaluateCriterion(p, "changed") = "passed"
    BY <1>11, <2>1, <2>2
  <2>4. Ver!RunCommand(p.test) = "passed" /\ Ver!RunCommand(p.lint) = "passed" /\ Ver!CheckFilesChanged(p) = "passed"
    BY <2>3 DEF Ver!EvaluateCriterion
  <2> QED
    BY <2>4 DEF Ver!RunCommand, Ver!CheckFilesChanged
<1>13. v.criteria # <<>> => Ver!WithFailures(v.criteria) = "passed"
  BY <1>1, <1>8 DEF Ver!WithFailures, Ver!StatusOfFailuresOnly
<1> QED
  BY <1>10, <1>11, <1>12, <1>13

-----------------------------------------------------------------------------
(* The behaviour as a whole. *)

\* The part that runs keeps its invariant, and nothing else has to.
Inv ==
  /\ part \in Components /\ JudgementInv
  /\ Of("subagents", SubagentInv) /\ Of("mcp", McpInv) /\ Of("bus", BusInv) /\ Of("log", LogInv)
  /\ Of("run", RunInv) /\ Of("checkpoints", CheckpointInv) /\ Of("loop", LoopInv) /\ Of("router", RouterInv)
  /\ Of("git", GitInv) /\ Of("table", TableInv) /\ Of("capacity", CapacityInv) /\ Of("contention", ContentionInv)
  /\ Of("approvals", ApprovalInv)

\* Who runs a part, as the parts' lemmas name it.
LEMMA Steps ==
  ASSUME Next
  PROVE  /\ UNCHANGED <<part, input>>
         /\ part \notin Judging => UNCHANGED judgement
         /\ UNCHANGED judgement \/ judgement' = <<Answer>>
<1>1. CASE Judge
  BY <1>1 DEF Judge
<1>2. CASE SubagentStep
  BY <1>2 DEF SubagentStep, Others
<1>3. CASE McpStep
  BY <1>3 DEF McpStep, Others
<1>4. CASE BusStep
  BY <1>4 DEF BusStep, Others
<1>5. CASE LogStep
  BY <1>5 DEF LogStep, Others
<1>6. CASE RunStep
  BY <1>6 DEF RunStep, Others
<1>7. CASE CheckpointStep
  BY <1>7 DEF CheckpointStep, Others
<1>8. CASE LoopStep
  BY <1>8 DEF LoopStep, Others
<1>9. CASE RouterStep
  BY <1>9 DEF RouterStep, Others
<1>10. CASE GitStep
  BY <1>10 DEF GitStep, Others
<1>11. CASE TableStep
  BY <1>11 DEF TableStep, Others
<1>12. CASE CapacityStep
  BY <1>12 DEF CapacityStep, Others
<1>13. CASE ContentionStep
  BY <1>13 DEF ContentionStep, Others
<1>14. CASE ApprovalStep
  BY <1>14 DEF ApprovalStep, Others
<1> QED
  BY <1>1, <1>2, <1>3, <1>4, <1>5, <1>6, <1>7, <1>8, <1>9, <1>10, <1>11, <1>12, <1>13, <1>14 DEF Next

\* The invariant holds initially, of every part.
LEMMA InitInv == Init => Inv
<1> SUFFICES ASSUME Init PROVE Inv
  OBVIOUS
<1>1. part \in Components /\ JudgementInv
  BY DEF Init, JudgementInv
<1>2. SubagentInv
  BY SubagentInit DEF Init
<1>3. McpInv
  BY McpInit DEF Init
<1>4. BusInv
  BY BusInit DEF Init
<1>5. LogInv
  BY LogInit DEF Init
<1>6. RunInv
  BY RunInit DEF Init
<1>7. CheckpointInv
  BY CheckpointInit DEF Init
<1>8. LoopInv
  BY LoopInit DEF Init
<1>9. RouterInv
  BY RouterInit DEF Init
<1>10. GitInv
  BY GitInit DEF Init
<1>11. TableInv
  BY TableInit DEF Init
<1>12. CapacityInv
  BY CapacityInit DEF Init
<1>13. ContentionInv
  BY ContentionInit DEF Init
<1>14. ApprovalInv
  BY ApprovalInit DEF Init
<1> QED
  BY <1>1, <1>2, <1>3, <1>4, <1>5, <1>6, <1>7, <1>8, <1>9, <1>10, <1>11, <1>12, <1>13, <1>14 DEF Inv, Of

\* A judgement is given once and answers the question that was asked.
LEMMA JudgementSteps == JudgementInv /\ [Next]_vars => JudgementInv'
<1> SUFFICES ASSUME JudgementInv, [Next]_vars PROVE JudgementInv'
  OBVIOUS
<1>1. UNCHANGED <<part, input>> /\ (UNCHANGED judgement \/ judgement' = <<Answer>>)
  BY Steps DEF vars
<1>2. Answer' = Answer
  BY <1>1 DEF Answer
<1>3. judgement' # <<>> => judgement'[1] = Answer
  <2>1. CASE UNCHANGED judgement
    BY <2>1 DEF JudgementInv
  <2>2. CASE judgement' = <<Answer>>
    BY <2>2
  <2> QED
    BY <1>1, <2>1, <2>2
<1>4. part' \in Judging => input' \in Questions[part']
  BY <1>1 DEF JudgementInv
<1>5. Judging' = Judging
  BY DEF Judging
<1> QED
  BY <1>1, <1>2, <1>3, <1>4, <1>5 DEF JudgementInv

\* The part that runs keeps its invariant, and the others are not looked at.
LEMMA NextInv == Inv /\ [Next]_vars => Inv'
<1> SUFFICES ASSUME Inv, [Next]_vars PROVE Inv'
  OBVIOUS
<1>1. part' = part /\ part' \in Components
  BY Steps DEF vars, Inv
<1>2. JudgementInv'
  BY JudgementSteps DEF Inv
<1>3. ASSUME part = "subagents" PROVE SubagentInv'
  <2>1. SubagentInv /\ (Sub!Next \/ UNCHANGED subagentVars)
    BY <1>3 DEF Inv, Of, Next, SubagentStep, McpStep, BusStep, LogStep, RunStep, CheckpointStep, LoopStep, RouterStep, GitStep, TableStep, CapacityStep, ContentionStep, ApprovalStep, Judge, Judging, vars, sharedVars
  <2> QED
    BY <2>1, SubagentSteps, SubagentRests
<1>4. ASSUME part = "mcp" PROVE McpInv'
  <2>1. McpInv /\ (Mcp!Next \/ UNCHANGED mcpVars)
    BY <1>4 DEF Inv, Of, Next, SubagentStep, McpStep, BusStep, LogStep, RunStep, CheckpointStep, LoopStep, RouterStep, GitStep, TableStep, CapacityStep, ContentionStep, ApprovalStep, Judge, Judging, vars, sharedVars
  <2> QED
    BY <2>1, McpSteps, McpRests
<1>5. ASSUME part = "bus" PROVE BusInv'
  <2>1. BusInv /\ (Bus!Next \/ UNCHANGED eventVars)
    BY <1>5 DEF Inv, Of, Next, SubagentStep, McpStep, BusStep, LogStep, RunStep, CheckpointStep, LoopStep, RouterStep, GitStep, TableStep, CapacityStep, ContentionStep, ApprovalStep, Judge, Judging, vars, sharedVars
  <2> QED
    BY <2>1, BusSteps, BusRests
<1>6. ASSUME part = "log" PROVE LogInv'
  <2>1. LogInv /\ (Log!Next \/ UNCHANGED log)
    BY <1>6 DEF Inv, Of, Next, SubagentStep, McpStep, BusStep, LogStep, RunStep, CheckpointStep, LoopStep, RouterStep, GitStep, TableStep, CapacityStep, ContentionStep, ApprovalStep, Judge, Judging, vars, sharedVars
  <2> QED
    BY <2>1, LogSteps, LogRests
<1>7. ASSUME part = "run" PROVE RunInv'
  <2>1. RunInv /\ (Run!Next \/ UNCHANGED stateVars)
    BY <1>7 DEF Inv, Of, Next, SubagentStep, McpStep, BusStep, LogStep, RunStep, CheckpointStep, LoopStep, RouterStep, GitStep, TableStep, CapacityStep, ContentionStep, ApprovalStep, Judge, Judging, vars, sharedVars
  <2> QED
    BY <2>1, RunSteps, RunRests
<1>8. ASSUME part = "checkpoints" PROVE CheckpointInv'
  <2>1. CheckpointInv /\ (Saved!Next \/ UNCHANGED checkpointVars)
    BY <1>8 DEF Inv, Of, Next, SubagentStep, McpStep, BusStep, LogStep, RunStep, CheckpointStep, LoopStep, RouterStep, GitStep, TableStep, CapacityStep, ContentionStep, ApprovalStep, Judge, Judging, vars, sharedVars
  <2> QED
    BY <2>1, CheckpointSteps, CheckpointRests
<1>9. ASSUME part = "loop" PROVE LoopInv'
  <2>1. LoopInv /\ (Adaptive!Next \/ UNCHANGED loopVars)
    BY <1>9 DEF Inv, Of, Next, SubagentStep, McpStep, BusStep, LogStep, RunStep, CheckpointStep, LoopStep, RouterStep, GitStep, TableStep, CapacityStep, ContentionStep, ApprovalStep, Judge, Judging, vars, sharedVars
  <2> QED
    BY <2>1, LoopSteps, LoopRests
<1>10. ASSUME part = "router" PROVE RouterInv'
  <2>1. RouterInv /\ (Router!Next \/ UNCHANGED routerVars)
    BY <1>10 DEF Inv, Of, Next, SubagentStep, McpStep, BusStep, LogStep, RunStep, CheckpointStep, LoopStep, RouterStep, GitStep, TableStep, CapacityStep, ContentionStep, ApprovalStep, Judge, Judging, vars, sharedVars
  <2> QED
    BY <2>1, RouterSteps, RouterRests
<1>11. ASSUME part = "git" PROVE GitInv'
  <2>1. GitInv /\ (Git!Next \/ UNCHANGED gitVars)
    BY <1>11 DEF Inv, Of, Next, SubagentStep, McpStep, BusStep, LogStep, RunStep, CheckpointStep, LoopStep, RouterStep, GitStep, TableStep, CapacityStep, ContentionStep, ApprovalStep, Judge, Judging, vars, sharedVars
  <2> QED
    BY <2>1, GitSteps, GitRests
<1>12. ASSUME part = "table" PROVE TableInv'
  <2>1. TableInv /\ (Table!Next \/ UNCHANGED tableVars)
    BY <1>12 DEF Inv, Of, Next, SubagentStep, McpStep, BusStep, LogStep, RunStep, CheckpointStep, LoopStep, RouterStep, GitStep, TableStep, CapacityStep, ContentionStep, ApprovalStep, Judge, Judging, vars, sharedVars
  <2> QED
    BY <2>1, TableSteps, TableRests
<1>13. ASSUME part = "capacity" PROVE CapacityInv'
  <2>1. CapacityInv /\ (Cap!Next \/ UNCHANGED capacityVars)
    BY <1>13 DEF Inv, Of, Next, SubagentStep, McpStep, BusStep, LogStep, RunStep, CheckpointStep, LoopStep, RouterStep, GitStep, TableStep, CapacityStep, ContentionStep, ApprovalStep, Judge, Judging, vars, sharedVars
  <2> QED
    BY <2>1, CapacitySteps, CapacityRests
<1>14. ASSUME part = "contention" PROVE ContentionInv'
  <2>1. ContentionInv /\ (Con!Next \/ UNCHANGED contentionVars)
    BY <1>14 DEF Inv, Of, Next, SubagentStep, McpStep, BusStep, LogStep, RunStep, CheckpointStep, LoopStep, RouterStep, GitStep, TableStep, CapacityStep, ContentionStep, ApprovalStep, Judge, Judging, vars, sharedVars
  <2> QED
    BY <2>1, ContentionSteps, ContentionRests
<1>15. ASSUME part = "approvals" PROVE ApprovalInv'
  <2>1. ApprovalInv /\ (App!Next \/ UNCHANGED approvalVars)
    BY <1>15 DEF Inv, Of, Next, SubagentStep, McpStep, BusStep, LogStep, RunStep, CheckpointStep, LoopStep, RouterStep, GitStep, TableStep, CapacityStep, ContentionStep, ApprovalStep, Judge, Judging, vars, sharedVars
  <2> QED
    BY <2>1, ApprovalSteps, ApprovalRests
<1> QED
  BY <1>1, <1>2, <1>3, <1>4, <1>5, <1>6, <1>7, <1>8, <1>9, <1>10, <1>11, <1>12, <1>13, <1>14, <1>15 DEF Inv, Of

\* The invariant of the part that runs, in every reachable state.
THEOREM InvHolds == Spec => []Inv
  BY InitInv, NextInv, PTL DEF Spec

\* Every variable of the part that runs has its type, whatever the part and its size.
THEOREM TypesHold == Spec => []TypeOK
<1>1. SubagentInv => Sub!TypeOK
  BY DEF SubagentInv
<1>2. McpInv => Mcp!TypeOK
  BY DEF McpInv
<1>3. CapacityInv => Cap!TypeOK
  BY DEF CapacityInv
<1>4. GitInv => Git!TypeOK
  BY DEF GitInv
<1>5. Inv => TypeOK
  BY <1>1, <1>2, <1>3, <1>4, BusOwes, LogOwes, RunOwes, CheckpointsOwe, LoopOwes, RouterOwes, ReconcilingOwes, ContentionOwes, ApprovalsOwe
  DEF Inv, Of, TypeOK
<1> QED
  BY <1>5, InvHolds, PTL

\* However many subagents, roles and executors there are and in whatever order they are delegated to,
\* run, paused and cancelled, the stamps of a subagent tell its history and one that runs is attended.
THEOREM SubagentsAreAttendedTo == Spec => []SubagentsAreAttended
<1>1. SubagentInv => Sub!StampsMatchStatus /\ Sub!RunningIsExecuted
  BY SubagentsOwe DEF SubagentInv
<1>2. Inv => SubagentsAreAttended
  BY <1>1 DEF Inv, Of, SubagentsAreAttended
<1> QED
  BY <1>2, InvHolds, PTL

\* Every limit of an execution was asked for by its caller, by one before it for the same role, or
\* by the role, and threads together never hold more of a resource than its limit.
THEOREM BudgetsAreKept == Spec => []BudgetsHold
<1>1. SubagentInv => Sub!BudgetsHaveCause
  BY SubagentsOwe DEF SubagentInv
<1>2. CapacityInv => Cap!CapacityIsKept
  BY DEF CapacityInv
<1>3. Inv => BudgetsHold
  BY <1>1, <1>2 DEF Inv, Of, BudgetsHold
<1> QED
  BY <1>3, InvHolds, PTL

\* The two tables of the MCP registry agree save on contested ids, and what was blocked is denied
\* until its full id is allowed, by whichever server shares it.
THEOREM McpStaysCoherent == Spec => []McpIsCoherent
<1>1. McpInv => Mcp!RegistryAgrees /\ Mcp!BlockedIsDenied
  BY McpOwes DEF McpInv
<1>2. Inv => McpIsCoherent
  BY <1>1 DEF Inv, Of, McpIsCoherent
<1> QED
  BY <1>2, InvHolds, PTL

\* A server that initializes has a start task left that will end it, unless one was cancelled.
THEOREM StartsEnd == Spec => []StartsAreWaitedFor
<1>1. McpInv => Mcp!InitializingIsWaitedFor
  BY DEF McpInv
<1>2. Inv => StartsAreWaitedFor
  BY <1>1 DEF Inv, Of, StartsAreWaitedFor
<1> QED
  BY <1>2, InvHolds, PTL

\* A publication reaches every subscriber it is owed to, whatever is raised, subscribed or
\* unsubscribed meanwhile, and a collector holds the newest events it was given unless two threads
\* were in it at once.
THEOREM PublicationsArrive == Spec => EventsAreDelivered
<1>1. Inv => Of("bus", Bus!CollectorKeepsNewest)
  BY BusOwes DEF Inv, Of
<1>2. Inv /\ [Next]_vars =>
        [\A t \in Emitters : Bus!Published(t) =>
           \A s \in Bus!Range(pub[t].owed) : pub[t].event.type \in s.types => pub[t].event \in Bus!Range(received[s.callback])]_(Bus!vars)
  <2> SUFFICES ASSUME Inv, [Next]_vars, UNCHANGED Bus!vars => FALSE, NEW t \in Emitters, Bus!Published(t)
               PROVE  \A s \in Bus!Range(pub[t].owed) : pub[t].event.type \in s.types => pub[t].event \in Bus!Range(received[s.callback])
    OBVIOUS
  <2>1. part = "bus"
    BY DEF Next, SubagentStep, McpStep, LogStep, RunStep, CheckpointStep, LoopStep, RouterStep, GitStep, TableStep, CapacityStep,
           ContentionStep, ApprovalStep, BusStep, Judge, vars, eventVars, Bus!vars, Bus!collectors
  <2>2. BusInv
    BY <2>1 DEF Inv, Of
  <2> QED
    BY <2>2, PublishedMissesNobody
<1> QED
  BY <1>1, <1>2, InvHolds, PTL DEF Spec, EventsAreDelivered, Bus!NoSubscriberMissed

\* Whatever the events of a log and their number: a log that is called valid is sound, what is
\* reported to follow a denial does, and the tree has a place for every event.
THEOREM ReplaysAreTrue == Spec => []ReplayIsTrue
<1>1. Inv => ReplayIsTrue
  BY LogOwes DEF Inv, Of, ReplayIsTrue
<1> QED
  BY <1>1, InvHolds, PTL

\* A step of a plan that is active in a record of its state is the current one or was set active by
\* a caller, and a checkpoint that is loaded is what JSON makes of the one that was saved.
THEOREM RecordsStayTrue == Spec => []RecordsAreTrue
<1>1. Inv => RecordsAreTrue
  BY RunOwes, CheckpointsOwe DEF Inv, Of, RecordsAreTrue
<1> QED
  BY <1>1, InvHolds, PTL

\* What the loop and the router report is what they did, what the git workflow reports is in HEAD,
\* and a lock's owner and a deadlock reported of threads that are up to date are real.
THEOREM ReportsAreTrue == Spec => []ReportsMatchEffects
<1>1. GitInv => Git!ReportedIsCommitted
  BY DEF GitInv
<1>2. ContentionInv => Con!OwnerIsHolder /\ Con!AlarmIsReal
  BY ContentionOwes, AlarmIsTrue
<1>3. Inv => ReportsMatchEffects
  BY <1>1, <1>2, LoopOwes, RouterOwes DEF Inv, Of, ReportsMatchEffects
<1> QED
  BY <1>3, InvHolds, PTL

\* The default verdict on an operation is true of its target, and an operation that must not be
\* repeated is not retried on silence.
THEOREM ReconcilingStaysSafe == Spec => []ReconcilingIsSafe
<1>1. Inv => ReconcilingIsSafe
  BY ReconcilingOwes DEF Inv, Of, ReconcilingIsSafe
<1> QED
  BY <1>1, InvHolds, PTL

\* What the kernel allows of any invocation is within its limits, its sandbox and looser policies.
THEOREM PoliciesAreCoherent == Spec => []PolicyIsCoherent
<1>1. JudgementInv => PolicyIsCoherent
  <2> SUFFICES ASSUME JudgementInv, part = "security" PROVE Kernel!PolicyIsCoherent(input)
    BY DEF PolicyIsCoherent, Judged
  <2>1. input \in Kernel!Invocations
    BY RecordsAssumption DEF JudgementInv, Judging
  <2> QED
    BY <2>1, PolicyHolds
<1>2. Inv => PolicyIsCoherent
  BY <1>1 DEF Inv
<1> QED
  BY <1>2, InvHolds, PTL

\* A review that passes, a release that qualifies and a request that is let pass earned it.
THEOREM ApprovalsAreEarned == Spec => []ApprovalIsEarned
<1>1. JudgementInv => Judged("review", Rev!ReviewIsEarned(input, judgement[1]))
  <2> SUFFICES ASSUME JudgementInv, part = "review", judgement # <<>> PROVE Rev!ReviewIsEarned(input, judgement[1])
    BY DEF Judged
  <2>1. input \in Rev!ReviewEvidence
    BY RecordsAssumption DEF JudgementInv, Judging
  <2>2. judgement[1] = Rev!ReviewStatus(input)
    BY DEF JudgementInv, Answer
  <2> QED
    BY <2>1, <2>2, ReviewHolds
<1>2. JudgementInv => Judged("release", Rel!QualifiedIsSound(input, judgement[1]))
  <2> SUFFICES ASSUME JudgementInv, part = "release", judgement # <<>> PROVE Rel!QualifiedIsSound(input, judgement[1])
    BY DEF Judged
  <2>1. input \in Rel!Builds
    BY RecordsAssumption DEF JudgementInv, Judging
  <2>2. judgement[1] = Rel!ReleaseDecision(input)
    BY DEF JudgementInv, Answer
  <2> QED
    BY <2>1, <2>2, ReleaseHolds
<1>3. Inv => ApprovalIsEarned
  BY <1>1, <1>2, ApprovalsOwe DEF Inv, Of, ApprovalIsEarned
<1> QED
  BY <1>3, InvHolds, PTL

\* A scenario, a task and a verification pass only with everything they ask for met.
THEOREM PassesAreEarned == Spec => []PassIsEarned
<1>1. JudgementInv => Judged("validation", Val!PassedIsClean(input.answer, input.scenario, judgement[1]))
  <2> SUFFICES ASSUME JudgementInv, part = "validation", judgement # <<>>
               PROVE  Val!PassedIsClean(input.answer, input.scenario, judgement[1])
    BY DEF Judged
  <2>1. input \in [answer : Val!Answers, scenario : DOMAIN Val!Scenarios]
    BY RecordsAssumption DEF JudgementInv, Judging
  <2>2. input.answer \in Val!Answers /\ input.scenario \in DOMAIN Val!Scenarios
    BY <2>1
  <2>3. judgement[1] = Val!RunScenario(input.answer, input.scenario)
    BY DEF JudgementInv, Answer
  <2> QED
    BY <2>2, <2>3, ValidationHolds
<1>2. JudgementInv => Judged("harness", Har!SuccessIsVerified(input.task, input.work))
  <2> SUFFICES ASSUME JudgementInv, part = "harness" PROVE Har!SuccessIsVerified(input.task, input.work)
    BY DEF Judged
  <2>1. input \in [task : Har!Tasks, work : Har!Works]
    BY RecordsAssumption DEF JudgementInv, Judging
  <2>2. input.task \in Har!Tasks /\ input.work \in Har!Works
    BY <2>1
  <2> QED
    BY <2>2, HarnessHolds
<1>3. JudgementInv => Judged("verification", Ver!PassedHidesNothing(input.project, input.registered, input.name))
  <2> SUFFICES ASSUME JudgementInv, part = "verification" PROVE Ver!PassedHidesNothing(input.project, input.registered, input.name)
    BY DEF Judged
  <2>1. input \in [project : Ver!Projects, registered : Seq(DOMAIN Ver!Suites), name : {"all"} \cup DOMAIN Ver!Suites]
    BY RecordsAssumption DEF JudgementInv, Judging
  <2>2. input.registered \in Seq(DOMAIN Ver!Suites) /\ input.name \in {"all"} \cup DOMAIN Ver!Suites
    BY <2>1
  <2> QED
    BY <2>2, VerificationHolds
<1>4. Inv => PassIsEarned
  BY <1>1, <1>2, <1>3 DEF Inv, PassIsEarned
<1> QED
  BY <1>4, InvHolds, PTL
=============================================================================
