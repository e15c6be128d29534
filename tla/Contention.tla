----------------------------- MODULE Contention -----------------------------
(***************************************************************************)
(* LockWrapper and ContentionDetector (performance/contention.py).  A      *)
(* thread records that it is acquiring a lock, acquires it or times out,   *)
(* works, releases it and records the release, unless it forgets to; the   *)
(* wrapper sets and clears its owner outside the inner lock's atomic       *)
(* steps, and the detector looks for a cycle in what was recorded.         *)
(***************************************************************************)
EXTENDS Naturals, FiniteSets

CONSTANTS Lockers, Locks,   \* threads and lock wrappers
          NoThread

ContentionAssumption == IsFiniteSet(Lockers) /\ Locks # {} /\ NoThread \notin Lockers

VARIABLES inner,     \* who holds the inner lock of every wrapper
          owner,     \* _owner of every wrapper
          doing,     \* what each thread does, and with which lock
          holds,      \* what a thread has acquired and not begun to release
          graph,     \* _lock_graph: the locks recorded for a thread
          owners     \* _lock_owners: the thread recorded for a lock

contentionVars == <<inner, owner, doing, holds, graph, owners>>

Resting == [at |-> "working", lock |-> CHOOSE l \in Locks : TRUE]
Does(t, at, l) == doing' = [doing EXCEPT ![t] = [at |-> at, lock |-> l]]
Rests(t) == doing' = [doing EXCEPT ![t] = Resting]

Init == /\ inner = [l \in Locks |-> NoThread] /\ owner = [l \in Locks |-> NoThread]
        /\ doing = [t \in Lockers |-> Resting] /\ holds = [t \in Lockers |-> {}]
        /\ graph = [t \in Lockers |-> {}] /\ owners = [l \in Locks |-> NoThread]

\* record_lock_acquire: the thread that is acquiring is written down as the owner.
RecordAcquire(t) ==
  /\ doing[t].at = "working"
  /\ \E l \in Locks \ holds[t] :
       /\ Does(t, "acquiring", l)
       /\ graph' = [graph EXCEPT ![t] = @ \cup {l}] /\ owners' = [owners EXCEPT ![l] = t]
  /\ UNCHANGED <<inner, owner, holds>>

\* LockWrapper.acquire: the inner lock, then the owner; or the timeout.
TakeLock(t) ==
  /\ doing[t].at = "acquiring" /\ inner[doing[t].lock] = NoThread
  /\ inner' = [inner EXCEPT ![doing[t].lock] = t] /\ Does(t, "taken", doing[t].lock)
  /\ UNCHANGED <<owner, holds, graph, owners>>
SetOwner(t) ==
  /\ doing[t].at = "taken"
  /\ owner' = [owner EXCEPT ![doing[t].lock] = t] /\ holds' = [holds EXCEPT ![t] = @ \cup {doing[t].lock}]
  /\ Rests(t) /\ UNCHANGED <<inner, graph, owners>>
TimeOut(t) == /\ doing[t].at = "acquiring" /\ Does(t, "released", doing[t].lock)
              /\ UNCHANGED <<inner, owner, holds, graph, owners>>

\* LockWrapper.release: the owner is cleared, then the inner lock is released.
BeginRelease(t) ==
  /\ doing[t].at = "working"
  /\ \E l \in holds[t] : holds' = [holds EXCEPT ![t] = @ \ {l}] /\ Does(t, "clearing", l)
  /\ UNCHANGED <<inner, owner, graph, owners>>
Clear(t) == /\ doing[t].at = "clearing" /\ owner' = [owner EXCEPT ![doing[t].lock] = NoThread]
            /\ Does(t, "unlocking", doing[t].lock) /\ UNCHANGED <<inner, holds, graph, owners>>
Unlock(t) == /\ doing[t].at = "unlocking" /\ inner' = [inner EXCEPT ![doing[t].lock] = NoThread]
             /\ Does(t, "released", doing[t].lock) /\ UNCHANGED <<owner, holds, graph, owners>>

\* record_lock_release forgets the owner of the lock, whoever it is.
RecordRelease(t) ==
  /\ doing[t].at = "released"
  /\ graph' = [graph EXCEPT ![t] = @ \ {doing[t].lock}]
  /\ owners' = [owners EXCEPT ![doing[t].lock] = NoThread]
  /\ Rests(t) /\ UNCHANGED <<inner, owner, holds>>
\* Nothing makes a thread record a release, or a timeout after which it has nothing to release.
Forget(t) == doing[t].at = "released" /\ Rests(t) /\ UNCHANGED <<inner, owner, holds, graph, owners>>

Next == \E t \in Lockers : \/ RecordAcquire(t) \/ TakeLock(t) \/ SetOwner(t) \/ TimeOut(t)
                           \/ BeginRelease(t) \/ Clear(t) \/ Unlock(t) \/ RecordRelease(t) \/ Forget(t)

----------------------------------------------------------------------------
\* detect_deadlock: the search finds a cycle if there is one, that is, threads each of which has
\* a lock recorded of which another of them is the recorded owner.
SharesLock(t, u) == u # t /\ graph[t] \cap graph[u] # {}
Blames(t, u) == u # t /\ \E l \in graph[t] : owners[l] = u
Cycles == {cycle \in (SUBSET Lockers) \ {{}} : \A t \in cycle : \E u \in cycle : Blames(t, u)}

\* Threads that wait for one another for ever, were it not for the timeouts.
WaitsFor(t, u) == u # t /\ doing[t].at = "acquiring" /\ inner[doing[t].lock] = u
Deadlocked == \E cycle \in (SUBSET Lockers) \ {{}} : \A t \in cycle : \E u \in cycle : WaitsFor(t, u)

\* A thread that is between no two steps of a call and has recorded what it does: nothing is
\* recorded for it but the locks that it holds or is acquiring.
UpToDate(t) == /\ doing[t].at \in {"working", "acquiring"}
               /\ graph[t] \subseteq holds[t] \cup {l \in Locks : doing[t] = [at |-> "acquiring", lock |-> l]}

TypeOK ==
  /\ {inner, owner, owners} \subseteq [Locks -> Lockers \cup {NoThread}]
  /\ {holds, graph} \subseteq [Lockers -> SUBSET Locks]
  /\ doing \in [Lockers -> [at : {"working", "acquiring", "taken", "clearing", "unlocking", "released"}, lock : Locks]]

\* The owner a wrapper names holds it, and a thread that has acquired a lock is named as its owner
\* until it begins to release it.
OwnerIsHolder ==
  /\ \A l \in Locks : owner[l] # NoThread => inner[l] = owner[l]
  /\ \A t \in Lockers, l \in Locks : l \in holds[t] => owner[l] = t

\* A deadlock reported of threads that are up to date with their records is one, whatever the
\* other threads forgot to record.  The converse fails: a lock that two threads are acquiring is
\* recorded for the later, whichever gets it.
AlarmIsReal == \A cycle \in Cycles : (\A t \in cycle : UpToDate(t)) => Deadlocked
=============================================================================
