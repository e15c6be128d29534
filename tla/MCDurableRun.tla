---------------------------- MODULE MCDurableRun ----------------------------
(* Small instances of DurableRun.                                          *)
EXTENDS DurableRun, TLC

CONSTANTS o1, o2, o3

(* A write, a delete and a command that must not be repeated.              *)
MCOpType == o1 :> "filesystem.write" @@ o2 :> "shell.execute"
              @@ o3 :> "filesystem.delete"
MCOpType2 == o1 :> "filesystem.write" @@ o2 :> "shell.execute"
MCTargets == {"missing", "other"}
=============================================================================
