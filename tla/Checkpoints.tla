----------------------------- MODULE Checkpoints -----------------------------
(***************************************************************************)
(* CheckpointManager (argus/durable/checkpoints.py) and the hash the       *)
(* IntegrityVerifier recomputes: one JSON file per checkpoint, written in  *)
(* place, so that a process that dies while it saves leaves a torn one,    *)
(* and files that change on disk after they were written.                  *)
(***************************************************************************)
EXTENDS Naturals, FiniteSets

CONSTANTS Runs, Operations,
          MaxCheckpoints    \* bound on the checkpoints created

CheckpointsAssumption == MaxCheckpoints \in Nat

Ids == 1..MaxCheckpoints
\* Snapshots: plain ones, which JSON gives back as they were; with tuples, which come back as
\* lists; with the integer keys 1 and 2, or 9 and 10, which come back as text.  (Keys that do
\* not compare raise before anything is written.)
Snapshots == {"plain", "tuples", "keys 1 2", "keys 9 10"}
Readable == {"plain", "lists", "text keys 1 2", "text keys 9 10"}
FromJson(s) == CASE s = "tuples" -> "lists" [] s = "keys 1 2" -> "text keys 1 2" [] s = "keys 9 10" -> "text keys 9 10"
                 [] OTHER -> s
\* The text of a snapshot with its keys sorted: a tuple is written as a list and an integer key
\* as text, but 9 is before 10 as a number and after it as text.
TextOf(s) == IF s = "keys 9 10" THEN s ELSE FromJson(s)

VARIABLES files,   \* id -> the file: absent, torn, or the fields of the checkpoint and its hash
          made,    \* id -> what create_checkpoint returned
          next     \* how many ids were given out

vars == <<files, made, next>>

Absent == [kind |-> "absent"]
Torn == [kind |-> "torn"]
Init == files = [i \in Ids |-> Absent] /\ made = [i \in Ids |-> Absent] /\ next = 0

\* The text the hash is taken of, keys sorted: everything but the metadata, which are left out.
HashOfPlace(c) == [id |-> c.id, run |-> c.run]
ComputeHash(c) == [id |-> c.id, run |-> c.run, op |-> c.op, snapshot |-> TextOf(c.snapshot)]
VerifyIntegrity(c) == c.hash = ComputeHash(c)

CreateCheckpoint ==
  /\ next < MaxCheckpoints /\ next' = next + 1
  /\ \E run \in Runs, op \in Operations, s \in Snapshots :
       LET c == [id |-> next', run |-> run, op |-> op, snapshot |-> s]
           hash == ComputeHash(c)
           file == [kind |-> "file", id |-> c.id, run |-> run, op |-> op,
                    snapshot |-> FromJson(s), hash |-> hash] IN
       \/ /\ files' = [files EXCEPT ![c.id] = file]
          /\ made' = [made EXCEPT ![c.id] = c]
       \/ files' = [files EXCEPT ![c.id] = Torn] /\ UNCHANGED made     \* the process dies

\* A file that is damaged, or in which one field is not what was written any more.
Damage(i) == /\ files[i].kind = "file"
             /\ files' = [files EXCEPT ![i] = Torn]
             /\ UNCHANGED <<made, next>>
Alter(i) == /\ files[i].kind = "file"
            /\ \/ \E r \in Runs : files' = [files EXCEPT ![i].run = r]
               \/ \E o \in Operations : files' = [files EXCEPT ![i].op = o]
               \/ \E s \in Readable : files' = [files EXCEPT ![i].snapshot = s]
            /\ UNCHANGED <<made, next>>

GetCheckpoint(i) == IF files[i].kind = "file" /\ VerifyIntegrity(files[i]) THEN files[i] ELSE Absent

\* A file is named for its checkpoint, "chk-...", and looked for as "<run>_...".
NamedFor(i) == "chk"
GetCheckpoints(run) == {GetCheckpoint(i) : i \in {i \in Ids : files[i].kind # "absent" /\ NamedFor(i) = run}} \ {Absent}
DeleteCheckpoints(run) ==
  /\ files' = [i \in Ids |-> IF \E c \in GetCheckpoints(run) : c.id = i THEN Absent ELSE files[i]]
  /\ UNCHANGED <<made, next>>

Next == CreateCheckpoint \/ (\E i \in Ids : Damage(i) \/ Alter(i)) \/ \E r \in Runs : DeleteCheckpoints(r)
Spec == Init /\ [][Next]_vars

(***************************************************************************)
(* Properties                                                              *)
(***************************************************************************)
TypeOK == /\ next \in 0..MaxCheckpoints
          /\ \A i \in Ids : files[i].kind \in {"absent", "torn", "file"} /\ (i > next => files[i] = Absent /\ made[i] = Absent)

\* Whatever happens to the file, a checkpoint that can be read has the run and the operation it
\* was created with, and its snapshot as JSON gives it back.
LoadedIsSaved ==
  \A i \in Ids : LET c == GetCheckpoint(i) IN
    c # Absent => /\ made[i] # Absent
                  /\ c.id = i /\ c.run = made[i].run /\ c.op = made[i].op /\ c.snapshot = FromJson(made[i].snapshot)
==============================================================================
