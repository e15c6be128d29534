---------------------------- MODULE RunLockProofs ----------------------------
(***************************************************************************)
(* Theorems about RunLock for any number of processes and of deaths, and   *)
(* calls that interleave in any way: the lock is a lease to the processes  *)
(* whose own call met no other.                                            *)
(***************************************************************************)
EXTENDS RunLock, TLAPS

(* Every variable keeps its type.                                          *)
THEOREM LockTypeCorrect == Spec => []TypeOK
<1>1. Init => TypeOK
  BY DEF Init, TypeOK, NoLock, Locks, States
<1>2. TypeOK /\ [Next]_vars => TypeOK'
  <2> SUFFICES ASSUME TypeOK, [Next]_vars PROVE TypeOK'
    OBVIOUS
  <2> USE DEF TypeOK
  <2>n. NoLock \in Locks /\ TornLock \in Locks
    BY DEF NoLock, TornLock, Locks, States
  <2>1. ASSUME NEW p \in Procs, NEW l \in Locks, WillWrite(p, l),
               holds' \in [Procs -> BOOLEAN], lapsed' \in [Procs -> BOOLEAN]
        PROVE  TypeOK'
    <3>1. overlaps' \in [Procs -> BOOLEAN]
      BY <2>1 DEF WillWrite
    <3> QED
      BY <2>1, <3>1 DEF WillWrite
  <2>2. \A s \in States : [lock EXCEPT !.state = s] \in Locks
    BY DEF Locks
  <2>3. ASSUME NEW p \in Procs, NEW force \in BOOLEAN, AcquireLock(p, force)
        PROVE  TypeOK'
    <3>1. [state |-> "acquired", owner |-> p, expired |-> FALSE] \in Locks
      BY DEF Locks, States
    <3> QED
      BY <2>1, <2>3, <3>1 DEF AcquireLock, Held, Revoked
  <2>4. ASSUME NEW p \in Procs, ReleaseLock(p) PROVE TypeOK'
    <3>1. [lock EXCEPT !.state = "released"] \in Locks
      BY <2>2 DEF States
    <3>2. holds' \in [Procs -> BOOLEAN] /\ UNCHANGED lapsed
      BY <2>4 DEF ReleaseLock
    <3> QED
      BY <2>1, <2>4, <3>1, <3>2 DEF ReleaseLock
  <2>5. ASSUME NEW p \in Procs, ForceUnlock(p) PROVE TypeOK'
    <3>1. [lock EXCEPT !.state = "released"] \in Locks
      BY <2>2 DEF States
    <3> QED
      BY <2>1, <2>5, <3>1 DEF ForceUnlock, Held, Revoked
  <2>6. ASSUME NEW p \in Procs, CleanupStaleLock(p) PROVE TypeOK'
    <3>1. [lock EXCEPT !.state = "stale"] \in Locks
      BY <2>2 DEF States
    <3> QED
      BY <2>1, <2>6, <3>1 DEF CleanupStaleLock
  <2>7. ASSUME NEW p \in Procs, SaveLock(p) PROVE TypeOK'
    <3>1. CASE OpenLock(p)
      BY <3>1, <2>n DEF OpenLock
    <3>2. CASE DumpLock(p)
      <4>1. holds' \in [Procs -> BOOLEAN] /\ UNCHANGED <<lapsed, crashes>>
        BY <3>2 DEF DumpLock
      <4>3. overlaps' \in [Procs -> BOOLEAN]
        BY <3>2, <4>1 DEF DumpLock
      <4>2. /\ lock' \in Locks /\ pending' \in [Procs -> Locks]
            /\ pc' \in [Procs -> {"idle", "open", "dump"}]
        BY <3>2, <2>n DEF DumpLock
      <4> QED
        BY <4>1, <4>2, <4>3
    <3> QED
      BY <2>7, <3>1, <3>2 DEF SaveLock
  <2>8. ASSUME NEW p \in Procs, Crash(p) PROVE TypeOK'
    BY <2>8, <2>n DEF Crash
  <2>9. CASE Expire
    <3>1. lock' \in Locks /\ UNCHANGED <<pc, pending, holds, overlaps, crashes>>
      BY <2>9 DEF Expire, Locks
    <3> QED
      BY <2>9, <3>1 DEF Expire
  <2> QED
    BY <2>3, <2>4, <2>5, <2>6, <2>7, <2>8, <2>9 DEF Next, vars
<1> QED
  BY <1>1, <1>2, PTL DEF Spec

(* A call that starts, when every lease that was good and is not its own   *)
(* to write over ends with it, and that writes an acquired lock only in    *)
(* its own name.                                                           *)
LEMMA CallStarts ==
  ASSUME TypeOK, LockInv, NEW p \in Procs, NEW l \in Locks,
         Ready(p), WillWrite(p, l),
         \A q \in Procs : ~Live(q)',
         l.state = "acquired" =>
           l = [state |-> "acquired", owner |-> p, expired |-> FALSE]
  PROVE  LockInv'
<1>1. LeaseIsFiled'
  BY DEF LeaseIsFiled
<1>2. /\ pc[p] = "idle" /\ pc'[p] = "open" /\ pending'[p] = l /\ UNCHANGED lock
      /\ \A q \in Procs : q # p => pc'[q] = pc[q] /\ pending'[q] = pending[q]
  BY DEF WillWrite, Ready, TypeOK
<1>3. \A q \in Procs : q # p /\ pc[q] # "idle" => overlaps'[q] /\ overlaps'[p]
  BY DEF WillWrite, TypeOK
<1>4. LocksOwn'
  BY <1>2 DEF LockInv, LocksOwn
<1>5. AloneUnlessOverlapping'
  BY <1>2, <1>3 DEF AloneUnlessOverlapping
<1> QED
  BY <1>1, <1>4, <1>5 DEF LockInv

(* Every step keeps the invariant.                                         *)
LEMMA LockInvStep ==
  ASSUME TypeOK, LockInv, [Next]_vars
  PROVE  LockInv'
<1>a. \A p \in Procs :
        Live(p) => /\ lock.state = "acquired" /\ lock.owner = p
                   /\ ~lock.expired /\ Held /\ Found
                   /\ \A q \in Procs : pc[q] = "idle"
  BY DEF LockInv, LeaseIsFiled, Held, Found
<1>1. ASSUME NEW p \in Procs, NEW force \in BOOLEAN, AcquireLock(p, force)
      PROVE  LockInv'
  <2> DEFINE l == [state |-> "acquired", owner |-> p, expired |-> FALSE]
  <2>1. l \in Locks /\ Ready(p) /\ WillWrite(p, l) /\ ~holds[p] /\ UNCHANGED holds
    BY <1>1 DEF AcquireLock, Locks, States
  <2>2. \A q \in Procs : q # p => lapsed'[q] = (lapsed[q] \/ Revoked(q))
    BY <1>1 DEF AcquireLock
  <2>3. ASSUME NEW q \in Procs PROVE ~Live(q)'
    <3>1. SUFFICES ASSUME Live(q)' PROVE FALSE
      OBVIOUS
    <3>2. q # p /\ holds[q] /\ ~lapsed[q] /\ ~Revoked(q) /\ ~overlaps'[q]
      BY <2>1, <2>2, <3>1 DEF Live
    <3>3. ~overlaps[q]
      BY <2>1, <3>2 DEF WillWrite
    <3> QED
      BY <1>a, <3>2, <3>3 DEF Live, Revoked
  <2> QED
    BY <2>1, <2>3, CallStarts
<1>2. ASSUME NEW p \in Procs, ReleaseLock(p) PROVE LockInv'
  <2>1. /\ Ready(p) /\ holds' = [holds EXCEPT ![p] = FALSE] /\ UNCHANGED lapsed
    BY <1>2 DEF ReleaseLock
  <2>2. CASE Found /\ lock.owner = p
    <3> DEFINE l == [lock EXCEPT !.state = "released"]
    <3>1. l \in Locks /\ l.state = "released" /\ WillWrite(p, l)
      BY <1>2, <2>2 DEF ReleaseLock, TypeOK, Locks, States
    <3> HIDE DEF l
    <3>2. ASSUME NEW q \in Procs, Live(q)' PROVE Live(q) /\ q # p
      BY <2>1, <3>1, <3>2 DEF Live, TypeOK, WillWrite
    <3>3. \A q \in Procs : ~Live(q)'
      BY <1>a, <2>2, <3>2
    <3> QED
      BY <2>1, <3>1, <3>3, CallStarts
  <2>3. CASE ~(Found /\ lock.owner = p)
    <3>1. UNCHANGED <<lock, pc, pending, overlaps>>
      BY <1>2, <2>3 DEF ReleaseLock
    <3>2. ASSUME NEW q \in Procs, Live(q)' PROVE Live(q)
      BY <2>1, <3>1, <3>2 DEF Live, TypeOK
    <3> QED
      BY <3>1, <3>2 DEF LockInv, LeaseIsFiled, AloneUnlessOverlapping, LocksOwn
  <2> QED
    BY <2>2, <2>3
<1>3. ASSUME NEW p \in Procs, ForceUnlock(p) PROVE LockInv'
  <2> DEFINE l == [lock EXCEPT !.state = "released"]
  <2>1. /\ l \in Locks /\ l.state = "released" /\ WillWrite(p, l) /\ Ready(p)
        /\ UNCHANGED holds
        /\ \A q \in Procs : lapsed'[q] = (lapsed[q] \/ Revoked(q))
    BY <1>3 DEF ForceUnlock, TypeOK, Locks, States
  <2> HIDE DEF l
  <2>2. ASSUME NEW q \in Procs PROVE ~Live(q)'
    <3>1. SUFFICES ASSUME Live(q)' PROVE FALSE
      OBVIOUS
    <3>2. holds[q] /\ ~lapsed[q] /\ ~Revoked(q) /\ ~overlaps'[q]
      BY <2>1, <3>1 DEF Live
    <3>3. ~overlaps[q]
      BY <2>1, <3>2 DEF WillWrite
    <3> QED
      BY <1>a, <3>2, <3>3 DEF Live, Revoked
  <2> QED
    BY <2>1, <2>2, CallStarts
<1>4. ASSUME NEW p \in Procs, CleanupStaleLock(p) PROVE LockInv'
  <2> DEFINE l == [lock EXCEPT !.state = "stale"]
  <2>1. /\ l \in Locks /\ l.state = "stale" /\ WillWrite(p, l) /\ Ready(p)
        /\ UNCHANGED <<holds, lapsed>> /\ ~Held
    BY <1>4 DEF CleanupStaleLock, TypeOK, Locks, States
  <2> HIDE DEF l
  <2>2. ASSUME NEW q \in Procs PROVE ~Live(q)'
    <3>1. SUFFICES ASSUME Live(q)' PROVE FALSE
      OBVIOUS
    <3>2. holds[q] /\ ~lapsed[q] /\ ~overlaps'[q]
      BY <2>1, <3>1 DEF Live
    <3>3. ~overlaps[q]
      BY <2>1, <3>2 DEF WillWrite
    <3> QED
      BY <1>a, <2>1, <3>2, <3>3 DEF Live
  <2> QED
    BY <2>1, <2>2, CallStarts
<1>5. ASSUME NEW p \in Procs, OpenLock(p) PROVE LockInv'
  <2>1. pc[p] = "open" /\ pc' = [pc EXCEPT ![p] = "dump"] /\ lock' = NoLock
        /\ UNCHANGED <<pending, holds, lapsed, overlaps>>
    BY <1>5 DEF OpenLock
  <2>2. \A q \in Procs : ~Live(q)'
    BY <1>a, <2>1 DEF Live
  <2>3. AloneUnlessOverlapping'
    BY <2>1 DEF LockInv, AloneUnlessOverlapping, TypeOK
  <2> QED
    BY <2>1, <2>2, <2>3 DEF LockInv, LeaseIsFiled, LocksOwn, TypeOK
<1>6. ASSUME NEW p \in Procs, DumpLock(p) PROVE LockInv'
  <2>1. /\ pc[p] = "dump" /\ pc' = [pc EXCEPT ![p] = "idle"]
        /\ lock' \in {pending[p], TornLock}
        /\ lock = NoLock => lock' = pending[p]
        /\ UNCHANGED lapsed
        /\ pending' = [pending EXCEPT ![p] = NoLock]
        /\ holds' = [holds EXCEPT ![p] = @ \/ (pending[p].state = "acquired")]
        /\ overlaps' = [overlaps EXCEPT ![p] = @ /\ holds'[p]]
    BY <1>6 DEF DumpLock, NoLock
  <2>2. \A q \in Procs : ~Live(q)
    BY <1>a, <2>1
  <2>3. \A q \in Procs \ {p} : /\ pc'[q] = pc[q] /\ pending'[q] = pending[q]
                               /\ holds'[q] = holds[q] /\ overlaps'[q] = overlaps[q]
    BY <2>1 DEF TypeOK
  <2>4. /\ pc'[p] = "idle"
        /\ holds'[p] = (holds[p] \/ (pending[p].state = "acquired"))
        /\ overlaps'[p] = (overlaps[p] /\ holds'[p])
    BY <2>1 DEF TypeOK
  <2>5. \A q \in Procs \ {p} : ~Live(q)'
    BY <2>1, <2>2, <2>3 DEF Live
  <2>6. Live(p)' => pending[p].state = "acquired" /\ ~overlaps[p]
    BY <2>1, <2>2, <2>4 DEF Live
  <2>7. LeaseIsFiled'
    <3> SUFFICES ASSUME Live(p)'
                 PROVE  /\ lock' = [state |-> "acquired", owner |-> p, expired |-> FALSE]
                        /\ \A q \in Procs : pc'[q] = "idle"
      BY <2>5 DEF LeaseIsFiled
    <3>1. pending[p] = [state |-> "acquired", owner |-> p, expired |-> FALSE]
      BY <2>1, <2>6 DEF LockInv, LocksOwn
    <3>2. lock = NoLock /\ \A q \in Procs : pc[q] # "idle" => q = p
      BY <2>1, <2>6 DEF LockInv, AloneUnlessOverlapping
    <3> QED
      BY <2>1, <2>3, <2>4, <3>1, <3>2
  <2>8. AloneUnlessOverlapping'
    <3> SUFFICES ASSUME NEW q \in Procs, pc'[q] # "idle", ~overlaps'[q] PROVE FALSE
      BY DEF AloneUnlessOverlapping
    <3>1. q # p /\ pc[q] # "idle" /\ ~overlaps[q]
      BY <2>3, <2>4
    <3> QED
      BY <2>1, <3>1 DEF LockInv, AloneUnlessOverlapping
  <2>9. LocksOwn'
    BY <2>3, <2>4 DEF LockInv, LocksOwn
  <2> QED
    BY <2>7, <2>8, <2>9 DEF LockInv
<1>7. ASSUME NEW p \in Procs, Crash(p) PROVE LockInv'
  <2>1. /\ pc' = [pc EXCEPT ![p] = "idle"] /\ UNCHANGED lock
        /\ pending' = [pending EXCEPT ![p] = NoLock]
        /\ holds' = [holds EXCEPT ![p] = FALSE]
        /\ lapsed' = [lapsed EXCEPT ![p] = FALSE]
        /\ overlaps' = [overlaps EXCEPT ![p] = FALSE]
    BY <1>7 DEF Crash
  <2>2. \A q \in Procs : /\ Live(q)' => Live(q)
                         /\ pc'[q] # "idle" => q # p /\ pc[q] # "idle"
    BY <2>1 DEF Live, TypeOK
  <2>3. \A q \in Procs : q # p => /\ pc'[q] = pc[q] /\ pending'[q] = pending[q]
                                  /\ overlaps'[q] = overlaps[q]
    BY <2>1 DEF TypeOK
  <2>6. pc'[p] = "idle"
    BY <2>1 DEF TypeOK
  <2> HIDE DEF Live
  <2>4. LeaseIsFiled'
    BY <2>1, <2>2, <2>3, <2>6 DEF LockInv, LeaseIsFiled
  <2>5. AloneUnlessOverlapping' /\ LocksOwn'
    BY <2>1, <2>2, <2>3 DEF LockInv, AloneUnlessOverlapping, LocksOwn
  <2> QED
    BY <2>4, <2>5 DEF LockInv
<1>8. CASE Expire
  <2>1. /\ UNCHANGED <<pc, pending, holds, overlaps>> /\ lock.state = "acquired"
        /\ lapsed' = [lapsed EXCEPT ![lock.owner] = @ \/ holds[lock.owner]]
    BY <1>8 DEF Expire
  <2>2. \A q \in Procs : ~Live(q)'
    BY <1>a, <2>1 DEF Live, TypeOK
  <2>3. lock # NoLock
    BY <2>1 DEF NoLock
  <2>4. AloneUnlessOverlapping'
    BY <2>1, <2>3 DEF LockInv, AloneUnlessOverlapping
  <2> QED
    BY <2>1, <2>2, <2>4 DEF LockInv, LeaseIsFiled, LocksOwn
<1>9. CASE UNCHANGED vars
  BY <1>9 DEF vars, LockInv, LeaseIsFiled, AloneUnlessOverlapping, LocksOwn, Live
<1> QED
  BY <1>1, <1>2, <1>3, <1>4, <1>5, <1>6, <1>7, <1>8, <1>9 DEF Next, SaveLock

(* The invariant holds in every reachable state.                           *)
LEMMA LockInvariant == Spec => []LockInv
<1>1. Init => LockInv
  BY DEF Init, LockInv, LeaseIsFiled, AloneUnlessOverlapping, LocksOwn, Live
<1>2. TypeOK /\ LockInv /\ [Next]_vars => LockInv'
  BY LockInvStep
<1> QED
  BY <1>1, <1>2, LockTypeCorrect, PTL DEF Spec

(* However calls interleave, the lock file implements the lease for those  *)
(* whose own call met no other.                                            *)
THEOREM LockImplementsLease == Spec => ImplementsLease
<1> DEFINE Good == {p \in Procs : Live(p)}
<1>1. Init => Leases!Init
  BY DEF Init, Leases!Init, Live
<1>2. ASSUME TypeOK, LockInv, LockInv', [Next]_vars
      PROVE  [Leases!Next]_Good
  <2>a. \A p \in Good : lock.state = "acquired" /\ lock.owner = p /\ Held
                        /\ \A q \in Procs : pc[q] = "idle"
    BY <1>2 DEF LockInv, LeaseIsFiled, Held
  <2>b. \A p \in Procs : Good' = Good \ {p} => [Leases!Next]_Good
    BY DEF Leases!Next, Leases!End
  <2>c. Good = {} \/ \E p \in Procs : Good = {p}
    BY <2>a
  <2>d. Good' = {} => [Leases!Next]_Good
    BY <2>b, <2>c
  <2>e. ASSUME \A p \in Procs : Live(p)' => Live(p) PROVE [Leases!Next]_Good
    <3>1. Good' \subseteq Good
      BY <2>e
    <3>2. Good' = Good \/ Good' = {}
      BY <2>c, <3>1
    <3> HIDE DEF Good
    <3> QED
      BY <2>d, <3>2
  <2>1. ASSUME NEW p \in Procs, NEW l, WillWrite(p, l), NEW q \in Procs, Live(q)'
        PROVE  ~overlaps[q] \/ (q = p /\ ~holds[p])
    BY <2>1 DEF WillWrite, Live
  <2>2. ASSUME NEW p \in Procs, DumpLock(p) PROVE [Leases!Next]_Good
    <3>1. Good = {}
      BY <2>2, <2>a DEF DumpLock
    <3>2. \A q \in Procs : q # p => (Live(q)' => Live(q))
      BY <1>2, <2>2 DEF DumpLock, TypeOK, Live
    <3>4. \A q \in Procs : q # p => ~Live(q)'
      BY <3>1, <3>2
    <3>3. Good' = {p} \/ Good' = {}
      <4>1. CASE Live(p)'
        BY <3>4, <4>1
      <4>2. CASE ~Live(p)'
        BY <3>4, <4>2
      <4> QED
        BY <4>1, <4>2
    <3> QED
      BY <3>1, <3>3, <2>d DEF Leases!Next, Leases!Grant
  <2>3. ASSUME NEW p \in Procs, NEW force \in BOOLEAN, AcquireLock(p, force)
        PROVE  \A q \in Procs : Live(q)' => Live(q)
    <3>1. \A q \in Procs : Live(q)' => q # p
      BY <2>3 DEF AcquireLock, Live
    <3>2. \A q \in Procs : q # p => lapsed'[q] = (lapsed[q] \/ Revoked(q))
      BY <2>3 DEF AcquireLock
    <3>3. holds' = holds
      BY <2>3 DEF AcquireLock
    <3>4. \A q \in Procs : Live(q)' => ~overlaps[q]
      BY <2>1, <2>3, <3>1 DEF AcquireLock
    <3> QED
      BY <3>1, <3>2, <3>3, <3>4 DEF Live
  <2>4. ASSUME NEW p \in Procs, ReleaseLock(p) PROVE \A q \in Procs : Live(q)' => Live(q)
    <3>1. lapsed' = lapsed /\ holds' = [holds EXCEPT ![p] = FALSE] /\ holds[p]
      BY <2>4 DEF ReleaseLock
    <3>2. \A q \in Procs : holds'[q] => holds[q]
      BY <1>2, <3>1 DEF TypeOK
    <3>3. CASE UNCHANGED overlaps
      BY <3>1, <3>2, <3>3 DEF Live
    <3>4. CASE WillWrite(p, [lock EXCEPT !.state = "released"])
      BY <2>1, <3>1, <3>2, <3>4 DEF Live
    <3> QED
      BY <2>4, <3>3, <3>4 DEF ReleaseLock
  <2>5. ASSUME NEW p \in Procs, ForceUnlock(p) \/ CleanupStaleLock(p)
        PROVE  \A q \in Procs : Live(q)' => Live(q)
    <3>1. holds' = holds /\ \A q \in Procs : lapsed[q] => lapsed'[q]
      BY <1>2, <2>5 DEF ForceUnlock, CleanupStaleLock, TypeOK
    <3>2. \E l \in {[lock EXCEPT !.state = "released"], [lock EXCEPT !.state = "stale"]} :
            WillWrite(p, l)
      BY <2>5 DEF ForceUnlock, CleanupStaleLock
    <3>3. \A q \in Procs : Live(q)' => ~overlaps[q]
      <4> SUFFICES ASSUME NEW q \in Procs, Live(q)' PROVE ~overlaps[q]
        OBVIOUS
      <4>1. ~overlaps[q] \/ (q = p /\ ~holds[p])
        BY <2>1, <3>2
      <4> QED
        BY <3>1, <4>1 DEF Live
    <3> QED
      BY <3>1, <3>3 DEF Live
  <2>6. ASSUME NEW p \in Procs, Crash(p) PROVE \A q \in Procs : Live(q)' => Live(q)
    BY <1>2, <2>6 DEF Crash, TypeOK, Live
  <2>7. CASE Expire
    <3>1. UNCHANGED <<holds, overlaps>> /\ \A q \in Procs : lapsed[q] => lapsed'[q]
      BY <1>2, <2>7 DEF Expire, TypeOK
    <3>2. \A q \in Procs : Live(q)' => Live(q)
      BY <3>1 DEF Live
    <3> QED
      BY <2>e, <3>2
  <2>8. CASE UNCHANGED <<holds, lapsed, overlaps>>
    BY <2>e, <2>8 DEF Live
  <2>9. ASSUME NEW p \in Procs, OpenLock(p) PROVE UNCHANGED <<holds, lapsed, overlaps>>
    BY <2>9 DEF OpenLock
  <2>10. CASE UNCHANGED vars
    BY <2>8, <2>10 DEF vars
  <2> HIDE DEF Good
  <2> QED
    BY <1>2, <2>e, <2>2, <2>3, <2>4, <2>5, <2>6, <2>7, <2>8, <2>9, <2>10
    DEF Next, SaveLock
<1> QED
  BY <1>1, <1>2, LockTypeCorrect, LockInvariant, PTL
  DEF Spec, ImplementsLease, Leases!Spec

=============================================================================
