-------------------------------- MODULE Lease --------------------------------
(***************************************************************************)
(* What a run lock promises (argus/durable/locks.py): a process resumes a  *)
(* run only on a lease, a lease is granted only when there is none, and    *)
(* it ends when it is returned, lapses, is revoked, or its process dies.   *)
(***************************************************************************)
CONSTANT Procs
VARIABLE leases

Init == leases = {}

Grant(p) == leases = {} /\ leases' = {p}
End(p)   == p \in leases /\ leases' = leases \ {p}

Next == \E p \in Procs : Grant(p) \/ End(p)
Spec == Init /\ [][Next]_leases
=============================================================================
