-------------------------- MODULE MCBoundedScheduler --------------------------
(* Small instances of BoundedScheduler.                                    *)
EXTENDS BoundedScheduler

CONSTANTS t1, t2, t3, t4
=============================================================================
