----------------------------- MODULE DurableRun -----------------------------
(***************************************************************************)
(* One durable run (argus/durable): the run file, the operation journal,   *)
(* the executor that journals an operation around its effect, and the      *)
(* recovery a later process performs.  The run has one process at a time:  *)
(* a process boots, creates or recovers the run, works on it, and may die  *)
(* at any file access; the next one starts with an empty journal cache.    *)
(* Two processes on one run are the subject of ConcurrentResume.           *)
(*                                                                         *)
(* Both files are rewritten whole by open(path, "w").  A save may raise    *)
(* (MaxSaveErrors of them); with TornSaves a save that is interrupted      *)
(* leaves a file that no longer parses.                                    *)
(***************************************************************************)
EXTENDS Naturals, FiniteSets, Reconciler

CONSTANTS
  Ops,            \* operation ids, each issued at most once
  OpType,         \* the OperationType of each id
  InitialTargets, \* what the target of an operation may hold at first
  Modes,          \* the ResumeModes callers pass to resume()
  Calls,          \* the optional public calls callers make, see AllCalls
  TornSaves,      \* may an interrupted save destroy the file?
  CrashInRecovery,\* may the process die while it recovers the run?
  MaxCrashes,     \* bound: process deaths
  MaxResumes,     \* bound: resume_count at which no resume starts
  MaxSaveErrors   \* bound: saves that raise

AllCalls == {"record_progress", "heartbeat", "direct_resume", "mark_crashed",
             "transition", "mark_run_failed", "mark_run_abandoned"}
AllModes == {"normal", "dry_run", "reconcile"}

ASSUME OpTypeAssumption == OpType \in [Ops -> OperationTypes]
ASSUME InputAssumption  == /\ InitialTargets \subseteq TargetStates
                           /\ Modes \subseteq AllModes
                           /\ Calls \subseteq AllCalls
ASSUME FaultAssumption  == /\ TornSaves \in BOOLEAN
                           /\ CrashInRecovery \in BOOLEAN
ASSUME BoundAssumption  == /\ MaxCrashes \in Nat
                           /\ MaxResumes \in Nat
                           /\ MaxSaveErrors \in Nat

VARIABLES
  run,        \* the run file: run_dir/<run_id>.json
  disk,       \* the journal file: journal_dir/<run_id>.json
  cache,      \* ExecutionJournal._journals of the process
  target,     \* what each operation's target holds
  executed,   \* ghost: how much of each operation has happened
  owner,      \* ghost: issued by this process, by a past one, or not yet
  pc,         \* where the process is; "off" when there is none
  cur,        \* the operation execute_with_journal is at
  todo,       \* unknown_ops still to reconcile in resume()
  ask,        \* resume(): has a verdict been REQUIRE_USER?
  mode,       \* resume(): its mode argument
  crashes,    \* process deaths so far
  saveErrors  \* saves that raised so far

vars == <<run, disk, cache, target, executed, owner, pc, cur, todo, ask, mode,
          crashes, saveErrors>>
world == <<target, executed, owner>>
local == <<cur, todo, ask, mode>>

RunStatuses == {"running", "paused", "crashed", "recoverable", "reconciling",
                "resuming", "completed", "failed", "abandoned"}
Terminal == {"completed", "failed", "abandoned"}
OperationStatuses == {"none", "intent", "started", "progress", "completed",
                      "failed", "unknown", "reconciled_completed",
                      "reconciled_not_executed", "requires_decision"}

(* LifecycleManager.VALID_TRANSITIONS *)
ValidTransitions ==
  [s \in RunStatuses |->
     CASE s = "running"     -> {"paused", "crashed", "completed", "failed"}
       [] s = "paused"      -> {"running", "abandoned"}
       [] s = "crashed"     -> {"recoverable", "abandoned"}
       [] s = "recoverable" -> {"reconciling", "abandoned"}
       [] s = "reconciling" -> {"resuming", "failed", "abandoned"}
       [] s = "resuming"    -> {"running", "failed"}
       [] OTHER             -> {}]

Working    == {"idle", "intent", "started", "acting", "acted", "raised"}
Recovering == {"mark", "recoverable", "reconcile", "resuming"}
Pcs        == {"off", "boot", "create"} \cup Working \cup Recovering

Journals == [Ops -> OperationStatuses]
NoOps    == [o \in Ops |-> "none"]
NoCache  == [loaded |-> FALSE, ops |-> NoOps]
TornFile == [file |-> "torn", ops |-> NoOps]

RunFiles == [file : {"absent", "ok", "torn"}, status : RunStatuses,
             crash_count : Nat, resume_count : Nat,
             heartbeat : {"none", "fresh", "stale"},
             updated : {"fresh", "stale"}]

TypeOK ==
  /\ run \in RunFiles
  /\ disk \in [file : {"absent", "ok", "torn"}, ops : Journals]
  /\ cache \in [loaded : BOOLEAN, ops : Journals]
  /\ target \in [Ops -> TargetStates]
  /\ executed \in [Ops -> {"no", "partial", "yes"}]
  /\ owner \in [Ops -> {"new", "mine", "past"}]
  /\ pc \in Pcs
  /\ cur \in Ops
  /\ todo \subseteq Ops
  /\ ask \in BOOLEAN
  /\ mode \in AllModes
  /\ crashes \in Nat
  /\ saveErrors \in Nat

Init ==
  /\ run = [file |-> "absent", status |-> "running", crash_count |-> 0,
            resume_count |-> 0, heartbeat |-> "none", updated |-> "fresh"]
  /\ disk = [file |-> "absent", ops |-> NoOps]
  /\ cache = NoCache
  /\ target \in [Ops -> InitialTargets]
  /\ executed = [o \in Ops |-> "no"]
  /\ owner = [o \in Ops |-> "new"]
  /\ pc = "boot"
  /\ cur \in Ops
  /\ todo = {}
  /\ ask = FALSE
  /\ mode = "normal"
  /\ crashes = 0
  /\ saveErrors = 0

-----------------------------------------------------------------------------
(* The two stores.                                                         *)

\* Mutant of Journal: a journal that is not cached is not loaded.
JournalOfCache == cache.ops

(* ExecutionJournal.get_journal: the cached journal, else the file.  A     *)
(* missing or torn file reads as no operations.                            *)
Journal    == IF cache.loaded THEN cache.ops ELSE disk.ops
HasJournal == cache.loaded \/ disk.file = "ok"

SaveRaises == saveErrors < MaxSaveErrors /\ saveErrors' = saveErrors + 1

(* _save_journal after j was put in the cache; the process goes on at ok,  *)
(* or, when the save raises, at the caller's handler err.                  *)
SaveJournal(j, ok, err) ==
  /\ cache' = [loaded |-> TRUE, ops |-> j]
  /\ \/ /\ disk' = [file |-> "ok", ops |-> j]
        /\ pc' = ok
        /\ UNCHANGED saveErrors
     \/ /\ SaveRaises
        /\ disk' \in {disk} \cup (IF TornSaves THEN {TornFile} ELSE {})
        /\ pc' = err

(* _save_run, as above.                                                    *)
SaveRun(r, ok, err) ==
  \/ /\ run' = r
     /\ pc' = ok
     /\ UNCHANGED saveErrors
  \/ /\ SaveRaises
     /\ run' \in {run} \cup
                 (IF TornSaves THEN {[run EXCEPT !.file = "torn"]} ELSE {})
     /\ pc' = err

\* Mutant of WithStatus: updated_at is not filled in.
WithStatusUnstamped(s) == [run EXCEPT !.status = s, !.updated = "unset"]

(* update_run: the status, and updated_at refreshed.                       *)
WithStatus(s) == [run EXCEPT !.status = s, !.updated = "fresh"]

(* _update_status of the operation the executor is at.                     *)
UpdateStatus(s, ok, err) == SaveJournal([Journal EXCEPT ![cur] = s], ok, err)

\* Mutant of Stale: no fallback to updated_at.
StaleHeartbeatOnly == run.heartbeat = "stale"

(* _is_heartbeat_stale *)
Stale == IF run.heartbeat = "none" THEN run.updated = "stale"
                                   ELSE run.heartbeat = "stale"

-----------------------------------------------------------------------------
(* LifecycleManager.create_run: register_run, then create_journal.         *)

RegisterRun ==
  /\ pc = "boot"
  /\ run.file = "absent"
  /\ SaveRun([run EXCEPT !.file = "ok", !.updated = "fresh"], "create", "boot")
  /\ UNCHANGED <<disk, cache, world, local, crashes>>

CreateJournal ==
  /\ pc = "create"
  /\ SaveJournal(NoOps, "idle", "idle")
  /\ UNCHANGED <<run, world, local, crashes>>

-----------------------------------------------------------------------------
(* DurableExecutor.execute_with_journal.                                   *)

(* A journal that cannot be loaded is created anew, empty.                 *)
RecordIntent(o) ==
  /\ pc = "idle"
  /\ owner[o] = "new"
  /\ SaveJournal([Journal EXCEPT ![o] = "intent"], "intent", "idle")
  /\ owner' = [owner EXCEPT ![o] = "mine"]
  /\ cur' = o
  /\ UNCHANGED <<run, target, executed, todo, ask, mode, crashes>>

\* Mutant of RecordStart: the start is not journaled.
StartUnrecorded ==
  /\ pc = "intent"
  /\ pc' = "started"
  /\ UNCHANGED <<run, disk, cache, world, local, crashes, saveErrors>>

(* Before the try: an exception leaves execute_with_journal.               *)
RecordStart ==
  /\ pc = "intent"
  /\ UpdateStatus("started", "started", "idle")
  /\ UNCHANGED <<run, world, local, crashes>>

(* operation() takes effect in two steps; a write truncates its target.    *)
BeginOperation ==
  /\ pc = "started"
  /\ pc' = "acting"
  /\ executed' = [executed EXCEPT ![cur] = "partial"]
  /\ target' = IF OpType[cur] = "filesystem.write"
               THEN [target EXCEPT ![cur] = "other"] ELSE target
  /\ UNCHANGED <<run, disk, cache, owner, local, crashes, saveErrors>>

(* The operation itself reports progress.                                  *)
RecordProgress ==
  /\ "record_progress" \in Calls
  /\ pc = "acting"
  /\ UpdateStatus("progress", "acting", "raised")
  /\ UNCHANGED <<run, world, local, crashes>>

FinishOperation ==
  /\ pc = "acting"
  /\ pc' = "acted"
  /\ executed' = [executed EXCEPT ![cur] = "yes"]
  /\ target' = CASE OpType[cur] = "filesystem.write" ->
                      [target EXCEPT ![cur] = "expected"]
                 [] OpType[cur] = "filesystem.delete" ->
                      [target EXCEPT ![cur] = "missing"]
                 [] OTHER -> target
  /\ UNCHANGED <<run, disk, cache, owner, local, crashes, saveErrors>>

(* The callable raises, before, during or after its effect, or, inside the *)
(* same try, its result cannot be formatted.                               *)
OperationRaises ==
  /\ pc \in {"started", "acting", "acted"}
  /\ pc' = "raised"
  /\ UNCHANGED <<run, disk, cache, world, local, crashes, saveErrors>>

(* Inside the try: if the save raises, the except clause records FAILED.   *)
RecordCompletion ==
  /\ pc = "acted"
  /\ UpdateStatus("completed", "idle", "raised")
  /\ UNCHANGED <<run, world, local, crashes>>

RecordFailure ==
  /\ pc = "raised"
  /\ UpdateStatus("failed", "idle", "idle")
  /\ UNCHANGED <<run, world, local, crashes>>

-----------------------------------------------------------------------------
(* CrashDetector and CrashRecovery.detect_and_recover.                     *)

Heartbeat ==
  /\ "heartbeat" \in Calls
  /\ pc = "idle"
  /\ run.file = "ok"
  /\ SaveRun([run EXCEPT !.heartbeat = "fresh", !.updated = "fresh"],
             "idle", "idle")
  /\ UNCHANGED <<disk, cache, world, local, crashes>>

(* heartbeat_timeout passes.  A working process is never that slow here.   *)
TimePasses ==
  /\ pc \in {"off", "boot"}
  /\ run.file = "ok"
  /\ run' = [run EXCEPT !.updated = "stale",
                        !.heartbeat = IF @ = "none" THEN @ ELSE "stale"]
  /\ UNCHANGED <<disk, cache, world, pc, local, crashes, saveErrors>>

\* Mutant of DetectCrash: no early return for a CRASHED run.
DetectCrashRecounts ==
  /\ pc = "boot"
  /\ run.file = "ok"
  /\ run.status \in {"crashed", "running"}
  /\ Stale
  /\ SaveRun([run EXCEPT !.status = "crashed", !.crash_count = @ + 1],
             "mark", "boot")
  /\ UNCHANGED <<disk, cache, world, local, crashes>>

(* detect_crash: True when CRASHED already, or RUNNING and stale.          *)
DetectCrash ==
  /\ pc = "boot"
  /\ run.file = "ok"
  /\ \/ /\ run.status = "crashed"
        /\ pc' = "mark"
        /\ UNCHANGED <<run, saveErrors>>
     \/ /\ run.status = "running"
        /\ Stale
        /\ SaveRun([run EXCEPT !.status = "crashed", !.crash_count = @ + 1],
                   "mark", "boot")
  /\ UNCHANGED <<disk, cache, world, local, crashes>>

\* Mutant of MarkAllStartedAsUnknown: the journal is not saved.
MarkStartedInMemory ==
  /\ pc = "mark"
  /\ cache' = [loaded |-> HasJournal,
               ops |-> [o \in Ops |-> IF Journal[o] = "started" THEN "unknown"
                                                               ELSE Journal[o]]]
  /\ pc' = "recoverable"
  /\ UNCHANGED <<run, disk, world, local, crashes, saveErrors>>

\* Mutant of MarkAllStartedAsUnknown: FAILED operations too.
MarkUnfinishedAsUnknown ==
  /\ pc = "mark"
  /\ SaveJournal([o \in Ops |-> IF Journal[o] \in {"started", "failed"}
                                THEN "unknown" ELSE Journal[o]],
                 "recoverable", "boot")
  /\ UNCHANGED <<run, world, local, crashes>>

(* mark_all_started_as_unknown: saves only if something was STARTED.       *)
MarkAllStartedAsUnknown ==
  /\ pc = "mark"
  /\ LET started == {o \in Ops : Journal[o] = "started"} IN
     IF started = {}
     THEN /\ cache' = [loaded |-> HasJournal, ops |-> Journal]
          /\ pc' = "recoverable"
          /\ UNCHANGED <<disk, saveErrors>>
     ELSE SaveJournal([o \in Ops |-> IF o \in started THEN "unknown"
                                                      ELSE Journal[o]],
                      "recoverable", "boot")
  /\ UNCHANGED <<run, world, local, crashes>>

MarkRecoverable ==
  /\ pc = "recoverable"
  /\ run.status # "completed"
  /\ SaveRun(WithStatus("recoverable"), "boot", "boot")
  /\ UNCHANGED <<disk, cache, world, local, crashes>>

-----------------------------------------------------------------------------
(* ResumeEngine.resume(run_id, mode).                                      *)

Resumable == {"crashed", "recoverable"}

(* resume() is over, its local variables with it.                          *)
ForgetResume == todo' = {} /\ ask' = FALSE /\ mode' = "normal"

(* Without "direct_resume", callers run detect_and_recover first.          *)
BeginReconciling(m) ==
  /\ pc = "boot"
  /\ run.file = "ok"
  /\ run.status \in Resumable
  /\ run.status = "recoverable" \/ "direct_resume" \in Calls
  /\ run.resume_count < MaxResumes
  /\ SaveRun(WithStatus("reconciling"), "reconcile", "boot")
  /\ todo' = {o \in Ops : Journal[o] = "unknown"}
  /\ cache' = [loaded |-> HasJournal, ops |-> Journal]
  /\ ask' = FALSE
  /\ mode' = m
  /\ UNCHANGED <<disk, world, cur, crashes>>

(* One turn of _reconcile_unknown_operations' loop.  The list is taken in  *)
(* any order: verdicts of different operations are independent.            *)
ReconcileOne(o) ==
  /\ pc = "reconcile"
  /\ o \in todo
  /\ LET verdict == Reconcile(OpType[o], target[o]) IN
     /\ SaveJournal([Journal EXCEPT ![o] = verdict.status],
                    "reconcile", "boot")
     /\ ask' = (ask \/ verdict.decision = "require_user")
  /\ todo' = todo \ {o}
  /\ UNCHANGED <<run, world, cur, mode, crashes>>

UserMustDecide == ask /\ mode # "reconcile"

AskUser ==
  /\ pc = "reconcile"
  /\ todo = {}
  /\ UserMustDecide
  /\ SaveRun(WithStatus("recoverable"), "boot", "boot")
  /\ ForgetResume
  /\ UNCHANGED <<disk, cache, world, cur, crashes>>

BeginResuming ==
  /\ pc = "reconcile"
  /\ todo = {}
  /\ ~UserMustDecide
  /\ SaveRun([WithStatus("resuming") EXCEPT !.resume_count = @ + 1],
             "resuming", "boot")
  /\ UNCHANGED <<disk, cache, world, local, crashes>>

EndDryRun ==
  /\ pc = "resuming"
  /\ mode = "dry_run"
  /\ SaveRun(WithStatus("recoverable"), "boot", "boot")
  /\ ForgetResume
  /\ UNCHANGED <<disk, cache, world, cur, crashes>>

FinishResume ==
  /\ pc = "resuming"
  /\ mode # "dry_run"
  /\ SaveRun(WithStatus("running"), "idle", "boot")
  /\ ForgetResume
  /\ UNCHANGED <<disk, cache, world, cur, crashes>>

-----------------------------------------------------------------------------
(* The calls that set the status outright.                                 *)

(* mark_run_completed; the other calls do not look at what they overwrite. *)
MarkRunCompleted ==
  /\ pc = "idle"
  /\ run.file = "ok"
  /\ run.status # "completed"
  /\ SaveRun(WithStatus("completed"), "idle", "idle")
  /\ UNCHANGED <<disk, cache, world, local, crashes>>

\* Mutant of MarkRunFailed: no guard for a COMPLETED run.
MarkAnyRunFailed ==
  /\ "mark_run_failed" \in Calls
  /\ pc \in {"idle", "boot"}
  /\ run.file = "ok"
  /\ SaveRun(WithStatus("failed"), pc, pc)
  /\ UNCHANGED <<disk, cache, world, local, crashes>>

MarkRunFailed ==
  /\ "mark_run_failed" \in Calls
  /\ pc \in {"idle", "boot"}
  /\ run.file = "ok"
  /\ run.status # "completed"
  /\ SaveRun(WithStatus("failed"), pc, pc)
  /\ UNCHANGED <<disk, cache, world, local, crashes>>

MarkRunAbandoned ==
  /\ "mark_run_abandoned" \in Calls
  /\ pc \in {"idle", "boot"}
  /\ run.file = "ok"
  /\ SaveRun(WithStatus("abandoned"), pc, pc)
  /\ UNCHANGED <<disk, cache, world, local, crashes>>

MarkCrashed ==
  /\ "mark_crashed" \in Calls
  /\ pc = "boot"
  /\ run.file = "ok"
  /\ run.status # "completed"
  /\ run.crash_count < MaxCrashes
  /\ SaveRun([WithStatus("crashed") EXCEPT !.crash_count = @ + 1],
             "boot", "boot")
  /\ UNCHANGED <<disk, cache, world, local, crashes>>

(* LifecycleManager.transition; an invalid one raises ValueError.          *)
Transition(s) ==
  /\ "transition" \in Calls
  /\ pc \in {"idle", "boot"}
  /\ run.file = "ok"
  /\ s \in ValidTransitions[run.status]
  /\ run.crash_count < MaxCrashes
  /\ SaveRun(WithStatus(s), pc, pc)
  /\ UNCHANGED <<disk, cache, world, local, crashes>>

-----------------------------------------------------------------------------
(* Process death and restart.                                              *)

SavesJournal == {"create", "idle", "intent", "acting", "acted", "raised",
                 "mark", "reconcile"}
SavesRun     == {"boot", "idle", "recoverable", "reconcile", "resuming"}

(* os._exit, a signal, power: memory is gone.  With TornSaves the save     *)
(* the process was in has truncated its file.                              *)
Crash ==
  /\ pc # "off"
  /\ pc \in Recovering => CrashInRecovery
  /\ crashes < MaxCrashes
  /\ crashes' = crashes + 1
  /\ pc' = "off"
  /\ cache' = NoCache
  /\ owner' = [o \in Ops |-> IF owner[o] = "mine" THEN "past" ELSE owner[o]]
  /\ ForgetResume
  /\ \/ UNCHANGED <<run, disk>>
     \/ /\ TornSaves
        /\ pc \in SavesJournal
        /\ disk' = TornFile
        /\ UNCHANGED run
     \/ /\ TornSaves
        /\ pc \in SavesRun
        /\ run' = [run EXCEPT !.file = "torn"]
        /\ UNCHANGED disk
  /\ UNCHANGED <<target, executed, cur, saveErrors>>

Restart ==
  /\ pc = "off"
  /\ pc' = "boot"
  /\ UNCHANGED <<run, disk, cache, world, local, crashes, saveErrors>>

-----------------------------------------------------------------------------
Execute ==
  \/ \E o \in Ops : RecordIntent(o)
  \/ RecordStart \/ BeginOperation \/ RecordProgress \/ FinishOperation
  \/ OperationRaises \/ RecordCompletion \/ RecordFailure

Recover ==
  \/ DetectCrash \/ MarkAllStartedAsUnknown \/ MarkRecoverable
  \/ \E m \in Modes : BeginReconciling(m)
  \/ \E o \in Ops : ReconcileOne(o)
  \/ AskUser \/ BeginResuming \/ EndDryRun \/ FinishResume

SetStatus ==
  \/ MarkRunCompleted \/ MarkRunFailed \/ MarkRunAbandoned \/ MarkCrashed
  \/ \E s \in RunStatuses : Transition(s)

Next ==
  \/ RegisterRun \/ CreateJournal
  \/ Execute \/ Heartbeat \/ TimePasses
  \/ Recover \/ SetStatus
  \/ Crash \/ Restart

Spec == Init /\ [][Next]_vars

(* Someone restarts a dead process, time passes, and a booted process      *)
(* keeps trying to recover the run; nothing forces work or death.          *)
Fairness ==
  /\ WF_vars(Restart)
  /\ WF_vars(TimePasses)
  /\ WF_vars(Recover)
  /\ WF_vars(RegisterRun \/ CreateJournal)

FairSpec == Spec /\ Fairness

-----------------------------------------------------------------------------
(* Properties.                                                             *)

Recorded == OperationStatuses \ {"none", "intent"}
Decided  == {"completed", "failed", "reconciled_completed",
             "reconciled_not_executed", "requires_decision"}

(* Operations are journaled before execution: whenever the journal can be  *)
(* read, an operation with any effect on the world is in it as STARTED or  *)
(* later, whatever dies or raises between the two saves and the effect.    *)
JournalBeforeEffect ==
  disk.file # "torn" =>
    \A o \in Ops : executed[o] # "no" => disk.ops[o] \in Recorded

(* The verdicts the journal holds are true of the world: COMPLETED and     *)
(* RECONCILED_COMPLETED operations have happened (a write's target holds   *)
(* its content, a delete's target is gone); one declared not executed is   *)
(* not a finished write or delete, and never of a type that may not be     *)
(* repeated.                                                               *)
VerdictsAreTrue ==
  \A o \in Ops :
    /\ disk.ops[o] = "completed" => executed[o] = "yes"
    /\ disk.ops[o] = "reconciled_completed" =>
         \/ OpType[o] = "filesystem.write"  /\ target[o] = "expected"
         \/ OpType[o] = "filesystem.delete" /\ target[o] = "missing"
    /\ disk.ops[o] = "reconciled_not_executed" =>
         /\ DetermineRetryPolicy(OpType[o]) \notin {"unsafe_retry", "user_decision"}
         /\ OpType[o] \in {"filesystem.write", "filesystem.delete"} =>
              executed[o] # "yes"

(* The journal is written ahead, torn files or not: an operation takes     *)
(* effect only while the file says that it is under way, and what the file *)
(* says of an operation is forgotten only by a file that is torn.          *)
WriteAhead ==
  [][\A o \in Ops :
       /\ executed'[o] # executed[o] =>
            disk.file = "ok" /\ disk.ops[o] \in {"started", "progress"}
       /\ disk.ops[o] \in Recorded /\ disk'.file # "torn" =>
            disk'.ops[o] \in Recorded]_vars

(* A crash is counted once, however often detection runs or is itself cut  *)
(* short: never more than there were deaths, one more than the resumes so  *)
(* far until the next resume answers it, and then as many.                 *)
CrashesCountedOnce ==
  /\ run.crash_count <= crashes
  /\ run.crash_count \in {run.resume_count, run.resume_count + 1}

(* Of operations of dead processes, a run that works has none undecided.   *)
OrphansDecided ==
  pc \in Working /\ run.status = "running" =>
    \A o \in Ops :
      owner[o] = "past" => disk.ops[o] \notin {"started", "unknown"}

(* State is reconciled after recovery: as long as no save raised, once the *)
(* run is RUNNING again no operation of a dead process is left STARTED or  *)
(* UNKNOWN.                                                                *)
NoOrphans == saveErrors = 0 => OrphansDecided

(* An operation whose outcome was left to the user keeps the run from      *)
(* running again by itself.                                                *)
UserDecidesFirst ==
  pc \in Working /\ run.status = "running" =>
    \A o \in Ops : disk.ops[o] # "requires_decision"

(* An outcome written to the journal is never revised.                     *)
OutcomesAreFinal ==
  [][\A o \in Ops : disk.ops[o] \in Decided /\ disk'.file # "torn" =>
                       disk'.ops[o] = disk.ops[o]]_vars

(* A completed run is never recovered, resumed, failed or run again.       *)
CompletedIsNotReopened ==
  [][run.status = "completed" => run'.status \in {"completed", "abandoned"}]_vars

(* A run whose process died is in time worked on again, or ends.           *)
DeadRunIsResumed ==
  (pc = "off" /\ run.status \notin Terminal) ~>
    (pc \in Working \/ run.status \in Terminal)

-----------------------------------------------------------------------------
(* The inductive invariant of DurableRunProofs, in named parts.            *)

(* Every status the file or the cache holds of an operation.               *)
Held(o) == {disk.ops[o]} \cup (IF cache.loaded THEN {cache.ops[o]} ELSE {})

(* Until the run is created nothing was issued.                            *)
CreatedFirst ==
  /\ pc \notin {"boot", "off"} => run.file # "absent"
  /\ run.file = "absent" \/ pc = "create" => \A o \in Ops : owner[o] = "new"

(* Ids are issued once; what was not issued has no record and no effect.   *)
IssuedOnce ==
  /\ \A o \in Ops : owner[o] = "new" => executed[o] = "no" /\ Held(o) = {"none"}
  /\ pc \in {"intent", "started", "acting", "acted", "raised"} =>
       owner[cur] # "new"

(* The operation being executed is journaled as under way.                 *)
UnderWay ==
  /\ pc \in {"started", "acting", "acted"} =>
       cache.loaded /\ Held(cur) \subseteq {"started", "progress"}
  /\ pc \in {"intent", "raised"} => disk.ops[cur] \notin Decided
  /\ pc = "acted" => executed[cur] = "yes"

(* A finished write or delete shows on its target.                         *)
EffectShows ==
  \A o \in Ops : executed[o] = "yes" =>
    /\ OpType[o] = "filesystem.write"  => target[o] = "expected"
    /\ OpType[o] = "filesystem.delete" => target[o] = "missing"

(* What VerdictsAreTrue says, of one status.                               *)
TrueOf(o, s) ==
  /\ s = "completed" => executed[o] = "yes"
  /\ s = "reconciled_completed" =>
       \/ OpType[o] = "filesystem.write"  /\ target[o] = "expected"
       \/ OpType[o] = "filesystem.delete" /\ target[o] = "missing"
  /\ s = "reconciled_not_executed" =>
       /\ DetermineRetryPolicy(OpType[o]) \notin {"unsafe_retry", "user_decision"}
       /\ OpType[o] \in {"filesystem.write", "filesystem.delete"} =>
            executed[o] # "yes"
HeldIsTrue == \A o \in Ops : \A s \in Held(o) : TrueOf(o, s)

(* The cache knows every outcome the file holds.                           *)
CacheKnowsOutcomes ==
  \A o \in Ops : cache.loaded /\ disk.ops[o] \in Decided =>
                   cache.ops[o] = disk.ops[o]

(* resume() works on UNKNOWN operations, under the statuses it wrote.      *)
ResumeUnderWay ==
  /\ pc = "reconcile" => /\ run.status = "reconciling"
                         /\ \A o \in todo : Journal[o] = "unknown"
  /\ pc = "resuming"  => run.status = "resuming"

IndInv == /\ CreatedFirst /\ IssuedOnce /\ UnderWay /\ EffectShows
          /\ HeldIsTrue /\ CacheKnowsOutcomes /\ ResumeUnderWay

(* The cache has a record of every operation the file has one of, and a    *)
(* file without a journal has none.                                        *)
CacheKnowsRecords ==
  \A o \in Ops : disk.ops[o] \in Recorded =>
    disk.file = "ok" /\ (cache.loaded => cache.ops[o] \in Recorded)

(* Which crashes have been counted and answered, by status, and where a    *)
(* process stands under each.                                              *)
CountedByStatus ==
  \/ /\ run.status \in {"running", "resuming", "completed"}
     /\ run.crash_count = run.resume_count
  \/ /\ run.status \in {"crashed", "recoverable", "reconciling"}
     /\ run.crash_count = run.resume_count + 1

StatusOfStep ==
  /\ run.file = "absent" => run.status = "running"
  /\ pc \in Working \cup {"create"} => run.status \in {"running", "completed"}
  /\ pc \in {"mark", "recoverable"} => run.status = "crashed"
  /\ pc = "reconcile" => run.status = "reconciling"
  /\ pc = "resuming" => run.status = "resuming"

(* A RUNNING run without a process lost one that is not counted yet.       *)
DeathsUncounted ==
  /\ run.crash_count <= crashes
  /\ run.status = "running" /\ run.file = "ok" /\ pc \in {"off", "boot"} =>
       run.crash_count < crashes

Counting == /\ CountedByStatus /\ StatusOfStep /\ DeathsUncounted
            /\ mode # "dry_run"

(* What recovery has swept by the time it is where it is, as long as no    *)
(* save raised: the cache is the file, STARTED is gone once the run is     *)
(* RECOVERABLE, UNKNOWN is still to be reconciled, and then gone too.      *)
Swept ==
  /\ cache.loaded => cache.ops = disk.ops
  /\ pc \in {"intent", "started", "acting", "acted", "raised"} =>
       owner[cur] = "mine"
  /\ pc = "recoverable"
     \/ run.status \in {"recoverable", "reconciling", "resuming"} =>
       \A o \in Ops : disk.ops[o] # "started"
  /\ pc = "reconcile" =>
       \A o \in Ops : disk.ops[o] = "unknown" => o \in todo
  /\ pc = "resuming" => \A o \in Ops : disk.ops[o] # "unknown"
  /\ OrphansDecided
=============================================================================
