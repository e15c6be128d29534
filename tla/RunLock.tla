------------------------------- MODULE RunLock -------------------------------
(***************************************************************************)
(* LockManager (argus/durable/locks.py): one lock file for one run, and    *)
(* processes that acquire, release, force-unlock and clean it up.  A call  *)
(* reads the file, decides, and rewrites the file whole: open(path, "w")   *)
(* empties it, the dump fills it.  Nothing keeps another process's call    *)
(* from running in between.  A file that is empty, or that two dumps wrote *)
(* over one another, does not parse and reads as no lock.  Nothing but     *)
(* expires_at ends the lock of a dead process, and nothing renews the lock *)
(* of a slow one.                                                          *)
(***************************************************************************)
EXTENDS Naturals, FiniteSets

CONSTANTS
  Procs,     \* processes, each with an owner_id of its own
  NoOne,     \* the owner of no lock
  Forces,    \* may callers force-acquire and force-unlock?
  MaxCrashes \* bound: process deaths

ASSUME ProcsAssumption == NoOne \notin Procs
ASSUME ForcesAssumption == Forces \in BOOLEAN
ASSUME BoundAssumption == MaxCrashes \in Nat

VARIABLES
  lock,    \* the lock file
  pc,      \* where each process's call is
  pending, \* the LockState the call will write
  holds,   \* has acquire_lock answered this process, unreleased?
  lapsed,  \* ghost: its lease expired or was revoked by force
  overlaps,\* ghost: another call ran during its last one or its lease's
  crashes  \* deaths so far

vars == <<lock, pc, pending, holds, lapsed, overlaps, crashes>>

States == {"none", "torn", "acquired", "released", "stale"}
Locks  == [state : States, owner : Procs \cup {NoOne}, expired : BOOLEAN]

(* No file, or an empty one; and one that two dumps wrote over one another. *)
NoLock   == [state |-> "none", owner |-> NoOne, expired |-> FALSE]
TornLock == [state |-> "torn", owner |-> NoOne, expired |-> FALSE]

(* get_lock finds a lock: neither of these parses.                         *)
Found == lock.state \notin {"none", "torn"}

TypeOK ==
  /\ lock \in Locks
  /\ pc \in [Procs -> {"idle", "open", "dump"}]
  /\ pending \in [Procs -> Locks]
  /\ holds \in [Procs -> BOOLEAN]
  /\ lapsed \in [Procs -> BOOLEAN]
  /\ overlaps \in [Procs -> BOOLEAN]
  /\ crashes \in Nat

Init ==
  /\ lock = NoLock
  /\ pc = [p \in Procs |-> "idle"]
  /\ pending = [p \in Procs |-> NoLock]
  /\ holds = [p \in Procs |-> FALSE]
  /\ lapsed = [p \in Procs |-> FALSE]
  /\ overlaps = [p \in Procs |-> FALSE]
  /\ crashes = 0

(* p can start a call.                                                     *)
Ready(p) == pc[p] = "idle"

(* The call of p has read the file and will write l.                       *)
WillWrite(p, l) ==
  LET others == {q \in Procs \ {p} : pc[q] # "idle"} IN
  /\ pc' = [pc EXCEPT ![p] = "open"]
  /\ pending' = [pending EXCEPT ![p] = l]
  /\ overlaps' = [q \in Procs |->
                    \/ IF q = p THEN others # {} ELSE q \in others
                    \/ overlaps[q] /\ (q = p => holds[p])]
  /\ UNCHANGED <<lock, crashes>>

\* Mutant of Held: an expired lock counts as held.
HeldForever == lock.state = "acquired"

(* state is "acquired" and not _is_lock_stale.                             *)
Held == lock.state = "acquired" /\ ~lock.expired

(* Writing the file over revokes the lease of q.                           *)
Revoked(q) == Held /\ lock.owner = q /\ holds[q]

\* Mutant of AcquireLock: the lock found is not looked at.
AcquireUnchecked(p, force) ==
  /\ Ready(p)
  /\ ~holds[p]
  /\ force => Forces
  /\ lapsed' = [lapsed EXCEPT ![p] = FALSE]
  /\ WillWrite(p, [state |-> "acquired", owner |-> p, expired |-> FALSE])
  /\ UNCHANGED holds

(* acquire_lock up to its save; on a lock that is held it returns None.    *)
(* force revokes the lease of the owner it finds.                          *)
AcquireLock(p, force) ==
  /\ Ready(p)
  /\ ~holds[p]
  /\ force => Forces
  /\ ~Held \/ force
  /\ lapsed' = [q \in Procs |-> IF q = p THEN FALSE
                                ELSE lapsed[q] \/ Revoked(q)]
  /\ WillWrite(p, [state |-> "acquired", owner |-> p, expired |-> FALSE])
  /\ UNCHANGED holds

\* Mutant of ReleaseLock: whoever calls releases the lock.
ReleaseAnyLock(p) ==
  /\ Ready(p)
  /\ holds[p]
  /\ holds' = [holds EXCEPT ![p] = FALSE]
  /\ WillWrite(p, [lock EXCEPT !.state = "released"])
  /\ UNCHANGED lapsed

(* release_lock: True when no lock is found, False when it is another's;   *)
(* the caller is done with the run either way.                             *)
ReleaseLock(p) ==
  /\ Ready(p)
  /\ holds[p]
  /\ holds' = [holds EXCEPT ![p] = FALSE]
  /\ IF Found /\ lock.owner = p
     THEN WillWrite(p, [lock EXCEPT !.state = "released"])
     ELSE UNCHANGED <<lock, pc, pending, overlaps, crashes>>
  /\ UNCHANGED lapsed

ForceUnlock(p) ==
  /\ Forces
  /\ Ready(p)
  /\ Found
  /\ lapsed' = [q \in Procs |-> lapsed[q] \/ Revoked(q)]
  /\ WillWrite(p, [lock EXCEPT !.state = "released"])
  /\ UNCHANGED holds

\* Mutant of CleanupStaleLock: LockState of an older enum is written.
CleanupUncoded(p) ==
  /\ Ready(p)
  /\ lock.state = "acquired" /\ ~Held
  /\ WillWrite(p, [lock EXCEPT !.state = "expired"])
  /\ UNCHANGED <<holds, lapsed>>

(* cleanup_stale_locks, for this run's file.                               *)
CleanupStaleLock(p) ==
  /\ Ready(p)
  /\ lock.state = "acquired" /\ ~Held
  /\ WillWrite(p, [lock EXCEPT !.state = "stale"])
  /\ UNCHANGED <<holds, lapsed>>

(* _save_lock: open(path, "w") ...                                         *)
OpenLock(p) ==
  /\ pc[p] = "open"
  /\ lock' = NoLock
  /\ pc' = [pc EXCEPT ![p] = "dump"]
  /\ UNCHANGED <<pending, holds, lapsed, overlaps, crashes>>

(* ... and json.dump; then acquire_lock answers its caller.  The dump is   *)
(* written over that of a call that opened the file as well, and leaves    *)
(* the end of it when that was longer.                                     *)
DumpLock(p) ==
  /\ pc[p] = "dump"
  /\ lock' \in {pending[p]} \cup (IF lock.state = "none" THEN {} ELSE {TornLock})
  /\ pc' = [pc EXCEPT ![p] = "idle"]
  /\ pending' = [pending EXCEPT ![p] = NoLock]
  /\ holds' = [holds EXCEPT ![p] = @ \/ (pending[p].state = "acquired")]
  /\ overlaps' = [overlaps EXCEPT ![p] = @ /\ holds'[p]]
  /\ UNCHANGED <<lapsed, crashes>>

(* lock_timeout passes.  No single call takes that long.                   *)
Expire ==
  /\ lock.state = "acquired"
  /\ ~lock.expired
  /\ lock' = [lock EXCEPT !.expired = TRUE]
  /\ lapsed' = [lapsed EXCEPT ![lock.owner] = @ \/ holds[lock.owner]]
  /\ UNCHANGED <<pc, pending, holds, overlaps, crashes>>

(* The process dies and one with the same owner_id takes its place.        *)
Crash(p) ==
  /\ crashes < MaxCrashes
  /\ holds[p] \/ pc[p] # "idle"
  /\ crashes' = crashes + 1
  /\ pc' = [pc EXCEPT ![p] = "idle"]
  /\ pending' = [pending EXCEPT ![p] = NoLock]
  /\ holds' = [holds EXCEPT ![p] = FALSE]
  /\ lapsed' = [lapsed EXCEPT ![p] = FALSE]
  /\ overlaps' = [overlaps EXCEPT ![p] = FALSE]
  /\ UNCHANGED lock

SaveLock(p) == OpenLock(p) \/ DumpLock(p)

Next ==
  \/ \E p \in Procs :
       \/ \E force \in BOOLEAN : AcquireLock(p, force)
       \/ ReleaseLock(p) \/ ForceUnlock(p) \/ CleanupStaleLock(p)
       \/ SaveLock(p) \/ Crash(p)
  \/ Expire

Spec == Init /\ [][Next]_vars

(* Clocks advance, calls end, and every process keeps trying to get the    *)
(* run; nothing forces a release, a force or a cleanup.                    *)
Fairness ==
  /\ WF_vars(Expire)
  /\ \A p \in Procs : WF_vars(SaveLock(p)) /\ SF_vars(AcquireLock(p, FALSE))

FairSpec == Spec /\ Fairness

-----------------------------------------------------------------------------
(* "Prevents two ARGUS processes from resuming the same run                *)
(* simultaneously" (locks.py:24): of two that hold the lock, one was too   *)
(* slow or was forced out.  Two calls that read the file before either     *)
(* writes it break it.                                                     *)
SoleHolder ==
  \A p, q \in Procs : holds[p] /\ holds[q] /\ p # q => lapsed[p] \/ lapsed[q]

(* A lease: it has not lapsed, and no other call ran during the one that   *)
(* took it.                                                                *)
Live(p) == holds[p] /\ ~lapsed[p] /\ ~overlaps[p]

(* However calls interleave, the lock is a lease to those whose own call   *)
(* met no other: one is answered only when no other such lease is good.    *)
Leases == INSTANCE Lease WITH leases <- {p \in Procs : Live(p)}
ImplementsLease == Leases!Spec

(* The lock of a process that died is, in time, someone's again.           *)
DeadHolderIsReplaced ==
  \A p \in Procs :
    (lock.state = "acquired" /\ lock.owner = p /\ ~holds[p])
      ~> \E q \in Procs : holds[q]

-----------------------------------------------------------------------------
(* The inductive invariant of RunLockProofs.                               *)

(* A lease that is good is in the file, and no call is about to change it. *)
LeaseIsFiled ==
  \A p \in Procs : Live(p) =>
    /\ lock = [state |-> "acquired", owner |-> p, expired |-> FALSE]
    /\ \A q \in Procs : pc[q] = "idle"

(* A call that overlaps with no other is alone, and what it opened it      *)
(* finds empty.                                                            *)
AloneUnlessOverlapping ==
  \A p \in Procs : pc[p] # "idle" /\ ~overlaps[p] =>
    /\ \A q \in Procs : pc[q] # "idle" => q = p
    /\ pc[p] = "dump" => lock = NoLock

LocksOwn ==
  \A p \in Procs : pc[p] # "idle" /\ pending[p].state = "acquired" =>
    pending[p] = [state |-> "acquired", owner |-> p, expired |-> FALSE]

LockInv == LeaseIsFiled /\ AloneUnlessOverlapping /\ LocksOwn
=============================================================================
