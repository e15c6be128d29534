-------------------------- MODULE DurableRunProofs --------------------------
(***************************************************************************)
(* Theorems about DurableRun for every set of operations, every mix of     *)
(* public calls, and every number of deaths and raising saves.             *)
(***************************************************************************)
EXTENDS DurableRun, TLAPS

(* What Reconcile answers is one of three operation statuses.              *)
LEMMA ReconcileStatus ==
  ASSUME NEW t, NEW g
  PROVE  Reconcile(t, g).status \in {"reconciled_completed",
                                     "reconciled_not_executed",
                                     "requires_decision"}
BY DEF Reconcile, AnalyzeEvidence, AnalyzeByType,
       AnalyzeFilesystemWrite, AnalyzeFilesystemDelete, AnalyzeShellExecute,
       AnalyzeGitOperation, AnalyzeMcpTool, AnalyzeModelCall,
       AnalyzePhaseOperation, MarkCompleted, Retry, RequireUser, Verdict

(* The types of what a save writes.                                        *)
LEMMA SaveJournalType ==
  ASSUME TypeOK, NEW j \in Journals, NEW ok \in Pcs, NEW err \in Pcs,
         SaveJournal(j, ok, err)
  PROVE  /\ disk' \in [file : {"absent", "ok", "torn"}, ops : Journals]
         /\ cache' \in [loaded : BOOLEAN, ops : Journals]
         /\ pc' \in Pcs
         /\ saveErrors' \in Nat
BY DEF SaveJournal, SaveRaises, TypeOK, TornFile, NoOps, Journals,
       OperationStatuses

(* And of what a save of the run file writes.                              *)
LEMMA SaveRunType ==
  ASSUME TypeOK, NEW r \in RunFiles, NEW ok \in Pcs, NEW err \in Pcs,
         SaveRun(r, ok, err)
  PROVE  run' \in RunFiles /\ pc' \in Pcs /\ saveErrors' \in Nat
BY DEF SaveRun, SaveRaises, TypeOK, RunFiles

(* What get_journal returns is a journal.                                  *)
LEMMA JournalType == TypeOK => Journal \in Journals /\ HasJournal \in BOOLEAN
BY DEF Journal, HasJournal, TypeOK

(* Setting the status of a run file gives a run file.                      *)
LEMMA WithStatusType ==
  ASSUME TypeOK, NEW s \in RunStatuses
  PROVE  /\ WithStatus(s) \in RunFiles
         /\ WithStatus(s).crash_count = run.crash_count
         /\ WithStatus(s).resume_count = run.resume_count
         /\ WithStatus(s).status = s
BY DEF WithStatus, TypeOK, RunFiles

(* Every variable keeps its type.                                          *)
THEOREM TypeCorrect == Spec => []TypeOK
<1>1. Init => TypeOK
  <2> SUFFICES ASSUME Init PROVE TypeOK
    OBVIOUS
  <2> USE DEF Init
  <2>1. NoOps \in Journals
    BY DEF NoOps, Journals, OperationStatuses
  <2>2. run \in RunFiles
    BY DEF RunFiles, RunStatuses
  <2>3. target \in [Ops -> TargetStates]
    BY InputAssumption
  <2> QED
    BY <2>1, <2>2, <2>3 DEF TypeOK, NoCache, Pcs, AllModes
<1>2. TypeOK /\ [Next]_vars => TypeOK'
  <2> SUFFICES ASSUME TypeOK, [Next]_vars PROVE TypeOK'
    OBVIOUS
  <2>j. Journal \in Journals /\ HasJournal \in BOOLEAN
    BY JournalType
  <2>p. /\ {"off", "boot", "create"} \subseteq Pcs
        /\ Working \subseteq Pcs
        /\ Recovering \subseteq Pcs
    BY DEF Pcs
  <2>n. NoOps \in Journals
    BY DEF NoOps, Journals, OperationStatuses
  <2>1. CASE RegisterRun
    <3>1. [run EXCEPT !.file = "ok", !.updated = "fresh"] \in RunFiles
      BY DEF TypeOK, RunFiles
    <3> QED
      BY <2>1, <2>p, <3>1, SaveRunType DEF RegisterRun, TypeOK, world, local
  <2>2. CASE CreateJournal
    <3>1. SaveJournal(NoOps, "idle", "idle")
      BY <2>2 DEF CreateJournal
    <3>2. "idle" \in Pcs
      BY DEF Pcs, Working
    <3> QED
      BY <2>2, <2>n, <3>1, <3>2, SaveJournalType
      DEF CreateJournal, TypeOK, world, local
  <2>3. ASSUME NEW s \in OperationStatuses, NEW ok \in Pcs, NEW err \in Pcs,
               UpdateStatus(s, ok, err)
        PROVE  /\ disk' \in [file : {"absent", "ok", "torn"}, ops : Journals]
               /\ cache' \in [loaded : BOOLEAN, ops : Journals]
               /\ pc' \in Pcs
               /\ saveErrors' \in Nat
    <3>1. [Journal EXCEPT ![cur] = s] \in Journals
      BY <2>j DEF Journals
    <3> QED
      BY <2>3, <3>1, SaveJournalType DEF UpdateStatus
  <2>4. ASSUME NEW o \in Ops, RecordIntent(o) PROVE TypeOK'
    <3>1. [Journal EXCEPT ![o] = "intent"] \in Journals
      BY <2>j DEF Journals, OperationStatuses
    <3>2. "idle" \in Pcs /\ "intent" \in Pcs
      BY DEF Pcs, Working
    <3>3. SaveJournal([Journal EXCEPT ![o] = "intent"], "intent", "idle")
      BY <2>4 DEF RecordIntent
    <3>4. /\ disk' \in [file : {"absent", "ok", "torn"}, ops : Journals]
          /\ cache' \in [loaded : BOOLEAN, ops : Journals]
          /\ pc' \in Pcs
          /\ saveErrors' \in Nat
      BY <3>1, <3>2, <3>3, SaveJournalType
    <3> QED
      BY <2>4, <3>4 DEF RecordIntent, TypeOK
  <2>5. CASE RecordStart
    BY <2>5, <2>3 DEF RecordStart, TypeOK, world, local, Pcs, Working,
       OperationStatuses
  <2>6. CASE BeginOperation
    BY <2>6 DEF BeginOperation, TypeOK, local, Pcs, Working, TargetStates
  <2>7. CASE RecordProgress
    BY <2>7, <2>3 DEF RecordProgress, TypeOK, world, local, Pcs, Working,
       OperationStatuses
  <2>8. CASE FinishOperation
    BY <2>8 DEF FinishOperation, TypeOK, local, Pcs, Working, TargetStates
  <2>9. CASE OperationRaises
    BY <2>9 DEF OperationRaises, TypeOK, world, local, Pcs, Working
  <2>10. CASE RecordCompletion
    BY <2>10, <2>3 DEF RecordCompletion, TypeOK, world, local, Pcs, Working,
       OperationStatuses
  <2>11. CASE RecordFailure
    BY <2>11, <2>3 DEF RecordFailure, TypeOK, world, local, Pcs, Working,
       OperationStatuses
  <2>12. CASE Heartbeat
    <3>1. [run EXCEPT !.heartbeat = "fresh", !.updated = "fresh"] \in RunFiles
      BY DEF TypeOK, RunFiles
    <3>2. "idle" \in Pcs
      BY DEF Pcs, Working
    <3> QED
      BY <2>12, <3>1, <3>2, SaveRunType DEF Heartbeat, TypeOK, world, local
  <2>13. CASE TimePasses
    <3>1. run' \in RunFiles
      BY <2>13 DEF TimePasses, TypeOK, RunFiles
    <3> QED
      BY <2>13, <3>1 DEF TimePasses, TypeOK, world, local
  <2>14. CASE DetectCrash
    <3>0. run \in RunFiles /\ run.crash_count + 1 \in Nat
          /\ "crashed" \in RunStatuses
      BY DEF TypeOK, RunFiles, RunStatuses
    <3>1. [run EXCEPT !.status = "crashed", !.crash_count = @ + 1] \in RunFiles
      BY <3>0 DEF RunFiles
    <3>2. "mark" \in Pcs /\ "boot" \in Pcs
      BY DEF Pcs, Recovering
    <3>3. run' \in RunFiles /\ pc' \in Pcs /\ saveErrors' \in Nat
      <4>1. CASE pc' = "mark" /\ UNCHANGED <<run, saveErrors>>
        BY <4>1, <3>2 DEF TypeOK
      <4>2. CASE SaveRun([run EXCEPT !.status = "crashed", !.crash_count = @ + 1],
                         "mark", "boot")
        BY <4>2, <3>1, <3>2, SaveRunType
      <4> QED
        BY <2>14, <4>1, <4>2 DEF DetectCrash
    <3> QED
      BY <2>14, <3>3 DEF DetectCrash, TypeOK, world, local
  <2>15. CASE MarkAllStartedAsUnknown
    <3> DEFINE started == {o \in Ops : Journal[o] = "started"}
               marked  == [o \in Ops |-> IF o \in started THEN "unknown"
                                                          ELSE Journal[o]]
    <3>1. marked \in Journals
      BY <2>j DEF Journals, OperationStatuses
    <3>2. "recoverable" \in Pcs /\ "boot" \in Pcs
      BY DEF Pcs, Recovering
    <3>3. CASE started = {}
      BY <2>15, <3>3, <3>2, <2>j
      DEF MarkAllStartedAsUnknown, TypeOK, world, local
    <3>4. CASE started # {}
      <4>1. SaveJournal(marked, "recoverable", "boot")
        BY <2>15, <3>4 DEF MarkAllStartedAsUnknown
      <4> QED
        BY <2>15, <4>1, <3>1, <3>2, SaveJournalType
        DEF MarkAllStartedAsUnknown, TypeOK, world, local
    <3> QED
      BY <3>3, <3>4
  <2>16. ASSUME NEW s \in RunStatuses, NEW ok \in Pcs, NEW err \in Pcs,
                SaveRun(WithStatus(s), ok, err)
         PROVE  run' \in RunFiles /\ pc' \in Pcs /\ saveErrors' \in Nat
    BY <2>16, SaveRunType, WithStatusType
  <2>17. "recoverable" \in RunStatuses /\ "running" \in RunStatuses
         /\ "completed" \in RunStatuses /\ "failed" \in RunStatuses
         /\ "abandoned" \in RunStatuses /\ "crashed" \in RunStatuses
         /\ "resuming" \in RunStatuses /\ "reconciling" \in RunStatuses
    BY DEF RunStatuses
  <2>18. "boot" \in Pcs /\ "idle" \in Pcs /\ "reconcile" \in Pcs
         /\ "resuming" \in Pcs /\ pc \in Pcs /\ "normal" \in AllModes
    BY DEF Pcs, Working, Recovering, TypeOK, AllModes
  <2>19. CASE MarkRecoverable
    BY <2>19, <2>16, <2>17, <2>18 DEF MarkRecoverable, TypeOK, world, local
  <2>20. ASSUME NEW m \in Modes, BeginReconciling(m) PROVE TypeOK'
    <3>1. m \in AllModes
      BY InputAssumption
    <3>2. run' \in RunFiles /\ pc' \in Pcs /\ saveErrors' \in Nat
      BY <2>20, <2>16, <2>17, <2>18 DEF BeginReconciling
    <3> QED
      BY <2>20, <3>1, <3>2, <2>j DEF BeginReconciling, TypeOK, world
  <2>21. ASSUME NEW o \in Ops, ReconcileOne(o) PROVE TypeOK'
    <3> DEFINE verdict == Reconcile(OpType[o], target[o])
    <3>1. verdict.status \in OperationStatuses
      BY ReconcileStatus DEF OperationStatuses
    <3>2. [Journal EXCEPT ![o] = verdict.status] \in Journals
      BY <2>j, <3>1 DEF Journals
    <3>3. SaveJournal([Journal EXCEPT ![o] = verdict.status], "reconcile", "boot")
      BY <2>21 DEF ReconcileOne
    <3>4. /\ disk' \in [file : {"absent", "ok", "torn"}, ops : Journals]
          /\ cache' \in [loaded : BOOLEAN, ops : Journals]
          /\ pc' \in Pcs
          /\ saveErrors' \in Nat
      BY <2>18, <3>2, <3>3, SaveJournalType
    <3>5. ask' \in BOOLEAN
      BY <2>21 DEF ReconcileOne, TypeOK
    <3> QED
      BY <2>21, <3>4, <3>5 DEF ReconcileOne, TypeOK, world
  <2>22. CASE AskUser
    BY <2>22, <2>16, <2>17, <2>18 DEF AskUser, ForgetResume, TypeOK, world
  <2>23. CASE BeginResuming
    <3>1. [WithStatus("resuming") EXCEPT !.resume_count = @ + 1] \in RunFiles
      BY <2>17, WithStatusType DEF RunFiles
    <3> QED
      BY <2>23, <2>18, <3>1, SaveRunType DEF BeginResuming, TypeOK, world, local
  <2>24. CASE EndDryRun
    BY <2>24, <2>16, <2>17, <2>18 DEF EndDryRun, ForgetResume, TypeOK, world
  <2>25. CASE FinishResume
    BY <2>25, <2>16, <2>17, <2>18 DEF FinishResume, ForgetResume, TypeOK, world
  <2>26. CASE MarkRunCompleted
    BY <2>26, <2>16, <2>17, <2>18 DEF MarkRunCompleted, TypeOK, world, local
  <2>27. CASE MarkRunFailed
    BY <2>27, <2>16, <2>17, <2>18 DEF MarkRunFailed, TypeOK, world, local
  <2>28. CASE MarkRunAbandoned
    BY <2>28, <2>16, <2>17, <2>18 DEF MarkRunAbandoned, TypeOK, world, local
  <2>29. CASE MarkCrashed
    <3>1. [WithStatus("crashed") EXCEPT !.crash_count = @ + 1] \in RunFiles
      BY <2>17, WithStatusType DEF RunFiles
    <3> QED
      BY <2>29, <2>18, <3>1, SaveRunType DEF MarkCrashed, TypeOK, world, local
  <2>30. ASSUME NEW s \in RunStatuses, Transition(s) PROVE TypeOK'
    BY <2>30, <2>16, <2>18 DEF Transition, TypeOK, world, local
  <2>31. CASE Crash
    <3>1. run' \in RunFiles
      BY <2>31 DEF Crash, TypeOK, RunFiles
    <3>2. disk' \in [file : {"absent", "ok", "torn"}, ops : Journals]
      BY <2>31, <2>n DEF Crash, TypeOK, TornFile
    <3>3. owner' \in [Ops -> {"new", "mine", "past"}]
      BY <2>31 DEF Crash, TypeOK
    <3>4. cache' \in [loaded : BOOLEAN, ops : Journals]
      BY <2>31, <2>n DEF Crash, NoCache
    <3>5. /\ pc' = "off" /\ todo' = {} /\ ask' = FALSE /\ mode' = "normal"
          /\ crashes' = crashes + 1
          /\ UNCHANGED <<target, executed, cur, saveErrors>>
      BY <2>31 DEF Crash, ForgetResume
    <3>6. crashes' \in Nat
      BY <3>5 DEF TypeOK
    <3> QED
      BY <2>p, <2>18, <3>1, <3>2, <3>3, <3>4, <3>5, <3>6 DEF TypeOK
  <2>32. CASE Restart
    BY <2>32, <2>p DEF Restart, TypeOK, world, local
  <2>33. CASE UNCHANGED vars
    BY <2>33 DEF vars, TypeOK
  <2> QED
    BY <2>1, <2>2, <2>4, <2>5, <2>6, <2>7, <2>8, <2>9, <2>10, <2>11, <2>12,
       <2>13, <2>14, <2>15, <2>19, <2>20, <2>21, <2>22, <2>23, <2>24, <2>25,
       <2>26, <2>27, <2>28, <2>29, <2>30, <2>31, <2>32, <2>33
    DEF Next, Execute, Recover, SetStatus
<1> QED
  BY <1>1, <1>2, PTL DEF Spec

-----------------------------------------------------------------------------
(* The journal's invariant.                                                *)

(* A verdict reached with the default collectors is true of a target that  *)
(* shows a finished write or delete.                                       *)
LEMMA ReconcileIsTrue ==
  ASSUME NEW t \in OperationTypes, NEW g \in TargetStates
  PROVE  LET s == Reconcile(t, g).status IN
         /\ s = "reconciled_completed" =>
              \/ t = "filesystem.write"  /\ g = "expected"
              \/ t = "filesystem.delete" /\ g = "missing"
         /\ s = "reconciled_not_executed" =>
              /\ DetermineRetryPolicy(t) \notin {"unsafe_retry", "user_decision"}
              /\ t = "filesystem.write"  => g = "missing"
              /\ t = "filesystem.delete" => g # "missing"
<1> USE DEF Reconcile, AnalyzeEvidence, AnalyzeByType, CollectEvidence, NoEvidence,
            EvidenceKeys, Got, YesNo, MarkCompleted, Retry, RequireUser,
            Verdict, TargetStates, OperationTypes, PhaseTypes,
            DetermineRetryPolicy, Classify
<1>1. CASE t = "filesystem.write"
  <2> DEFINE e == CollectEvidence(t, g)
  <2>1. CASE g = "undecodable"
    <3>1. e["collection_error"] = "yes"
      BY <1>1, <2>1
    <3>2. Reconcile(t, g) = RequireUser
      BY <3>1
    <3> QED
      BY <3>2
  <2>2. CASE g # "undecodable"
    <3>1. /\ e["collection_error"] = "absent"
          /\ e["file_exists"] = YesNo(g # "missing")
          /\ e["content_matches"] = YesNo(g = "expected")
      BY <1>1, <2>2
    <3>2. Reconcile(t, g) = AnalyzeFilesystemWrite(e)
      BY <1>1, <3>1
    <3> HIDE DEF e
    <3> QED
      BY <1>1, <3>1, <3>2 DEF AnalyzeFilesystemWrite
  <2> QED
    BY <2>1, <2>2
<1>2. CASE t = "filesystem.read"
  BY <1>2
<1>3. CASE t = "filesystem.delete"
  BY <1>3 DEF AnalyzeFilesystemDelete
<1>4. CASE t = "shell.execute"
  BY <1>4 DEF AnalyzeShellExecute
<1>5. CASE t = "git.operation"
  BY <1>5 DEF AnalyzeGitOperation
<1>6. CASE t = "mcp.tool"
  BY <1>6 DEF AnalyzeMcpTool
<1>7. CASE t = "model.call"
  BY <1>7 DEF AnalyzeModelCall
<1>8. CASE t \in PhaseTypes
  BY <1>8 DEF AnalyzePhaseOperation
<1>9. CASE t \in {"capability", "state.commit", "checkpoint"}
  BY <1>9
<1> QED
  BY <1>1, <1>2, <1>3, <1>4, <1>5, <1>6, <1>7, <1>8, <1>9

(* What is held of an operation after a save.                              *)
LEMMA SaveHeld ==
  ASSUME TypeOK, NEW j \in Journals, NEW ok, NEW err,
         SaveJournal(j, ok, err), NEW o \in Ops
  PROVE  /\ Held(o)' \subseteq {disk.ops[o], j[o], "none"}
         /\ disk'.ops[o] \in {disk.ops[o], j[o], "none"}
         /\ cache'.loaded /\ cache'.ops[o] = j[o]
         /\ disk'.ops[o] \in Held(o)' /\ cache'.ops[o] \in Held(o)'
BY DEF SaveJournal, Held, TornFile, NoOps, TypeOK, Journals

(* What the executor reads is what the file or the cache holds.            *)
LEMMA JournalIsHeld ==
  ASSUME TypeOK, NEW o \in Ops
  PROVE  Journal[o] \in Held(o) /\ disk.ops[o] \in Held(o)
BY DEF Journal, Held, TypeOK

(* A step that leaves both stores and the world alone, and does not enter  *)
(* the executor or resume()'s loop, keeps the invariant.                   *)
LEMMA QuietStep ==
  ASSUME TypeOK, IndInv, UNCHANGED <<disk, cache, world>>,
         pc' \notin {"intent", "started", "acting", "acted", "raised",
                     "reconcile"},
         pc' = "resuming" => run'.status = "resuming",
         pc' \notin {"boot", "off"} => run'.file # "absent",
         run'.file = "absent" \/ pc' = "create" =>
           run.file = "absent" \/ pc = "create"
  PROVE  IndInv'
<1> USE DEF world
<1>1. \A o \in Ops : Held(o)' = Held(o)
  BY DEF Held
<1>2. CreatedFirst'
  BY DEF IndInv, CreatedFirst
<1>3. IssuedOnce'
  BY <1>1 DEF IndInv, IssuedOnce
<1>4. UnderWay'
  BY DEF UnderWay
<1>5. EffectShows'
  BY DEF IndInv, EffectShows
<1>6. HeldIsTrue'
  BY <1>1 DEF IndInv, HeldIsTrue, TrueOf
<1>7. CacheKnowsOutcomes'
  BY DEF IndInv, CacheKnowsOutcomes
<1>8. ResumeUnderWay'
  BY DEF ResumeUnderWay
<1> QED
  BY <1>2, <1>3, <1>4, <1>5, <1>6, <1>7, <1>8 DEF IndInv

(* A save of a journal that revises no outcome and says nothing untrue.    *)
LEMMA SaveStep ==
  ASSUME TypeOK, IndInv, NEW j \in Journals, NEW ok, NEW err,
         SaveJournal(j, ok, err),
         UNCHANGED <<run, target, executed>>,
         pc \notin {"boot", "off"}, ok # "create", err # "create",
         \A o \in Ops : TrueOf(o, j[o]),
         \A o \in Ops : disk.ops[o] \in Decided => j[o] = disk.ops[o],
         \A o \in Ops : owner'[o] = "new" => owner[o] = "new" /\ j[o] = "none"
  PROVE  /\ CreatedFirst' /\ EffectShows' /\ HeldIsTrue' /\ CacheKnowsOutcomes'
         /\ \A o \in Ops : owner'[o] = "new" =>
              executed'[o] = "no" /\ Held(o)' = {"none"}
<1>1. run.file # "absent"
  BY DEF IndInv, CreatedFirst
<1>2. pc' # "create"
  BY DEF SaveJournal
<1>3. CreatedFirst'
  BY <1>1, <1>2 DEF CreatedFirst
<1>4. EffectShows'
  BY DEF IndInv, EffectShows
<1>5. HeldIsTrue'
  <2> SUFFICES ASSUME NEW o \in Ops, NEW s \in Held(o)' PROVE TrueOf(o, s)'
    BY DEF HeldIsTrue
  <2>1. s \in {disk.ops[o], j[o], "none"}
    BY SaveHeld
  <2>2. TrueOf(o, disk.ops[o]) /\ TrueOf(o, j[o])
    BY JournalIsHeld DEF IndInv, HeldIsTrue
  <2>3. TrueOf(o, s)
    BY <2>1, <2>2 DEF TrueOf
  <2> QED
    BY <2>3 DEF TrueOf
<1>6. CacheKnowsOutcomes'
  <2> SUFFICES ASSUME NEW o \in Ops, disk'.ops[o] \in Decided
               PROVE  cache'.ops[o] = disk'.ops[o]
    BY DEF CacheKnowsOutcomes
  <2>1. disk'.ops[o] \in {disk.ops[o], j[o], "none"} /\ cache'.ops[o] = j[o]
    BY SaveHeld
  <2>2. "none" \notin Decided
    BY DEF Decided
  <2> QED
    BY <2>1, <2>2
<1>7. ASSUME NEW o \in Ops, owner'[o] = "new"
      PROVE  executed'[o] = "no" /\ Held(o)' = {"none"}
  <2>1. owner[o] = "new" /\ j[o] = "none"
    BY <1>7
  <2>2. executed[o] = "no" /\ disk.ops[o] = "none"
    BY <2>1, JournalIsHeld DEF IndInv, IssuedOnce
  <2>3. Held(o)' \subseteq {"none"} /\ disk'.ops[o] \in Held(o)'
    BY <2>1, <2>2, SaveHeld
  <2> QED
    BY <2>2, <2>3
<1> QED
  BY <1>3, <1>4, <1>5, <1>6, <1>7

(* _update_status of the operation being executed, to a status that is     *)
(* true of it, while the file holds no outcome of it.                      *)
LEMMA UpdateStep ==
  ASSUME TypeOK, IndInv, NEW s \in OperationStatuses, NEW ok, NEW err,
         UpdateStatus(s, ok, err),
         UNCHANGED <<run, world, local>>,
         pc \in {"intent", "acting", "acted", "raised"},
         ok # "create", err # "create",
         s = "completed" => executed[cur] = "yes",
         s \notin {"reconciled_completed", "reconciled_not_executed"},
         disk.ops[cur] \notin Decided
  PROVE  /\ CreatedFirst' /\ EffectShows' /\ HeldIsTrue' /\ CacheKnowsOutcomes'
         /\ \A o \in Ops : owner'[o] = "new" =>
              executed'[o] = "no" /\ Held(o)' = {"none"}
         /\ owner'[cur'] # "new"
         /\ Held(cur)' \subseteq {disk.ops[cur], s, "none"}
<1> DEFINE j == [Journal EXCEPT ![cur] = s]
<1> USE DEF world, local
<1>1. j \in Journals /\ cur \in Ops /\ j[cur] = s
  BY JournalType DEF Journals, TypeOK
<1>2. \A o \in Ops : o # cur => j[o] = Journal[o]
  BY JournalType DEF Journals
<1>3. SaveJournal(j, ok, err)
  BY DEF UpdateStatus
<1>4. owner[cur] # "new"
  BY DEF IndInv, IssuedOnce
<1>5. ASSUME NEW o \in Ops PROVE TrueOf(o, j[o])
  <2>1. CASE o = cur
    BY <1>1, <2>1 DEF TrueOf
  <2>2. CASE o # cur
    BY <1>2, <2>2, JournalIsHeld DEF IndInv, HeldIsTrue
  <2> QED
    BY <2>1, <2>2
<1>6. ASSUME NEW o \in Ops, disk.ops[o] \in Decided PROVE j[o] = disk.ops[o]
  <2>1. o # cur /\ j[o] = Journal[o]
    BY <1>2, <1>6
  <2> QED
    BY <1>6, <2>1 DEF IndInv, CacheKnowsOutcomes, Journal
<1>7. ASSUME NEW o \in Ops, owner'[o] = "new"
      PROVE  owner[o] = "new" /\ j[o] = "none"
  BY <1>2, <1>4, <1>7, JournalIsHeld DEF IndInv, IssuedOnce
<1> HIDE DEF j
<1>8. pc \notin {"boot", "off"}
  OBVIOUS
<1>9. Held(cur)' \subseteq {disk.ops[cur], s, "none"}
  BY <1>1, <1>3, SaveHeld DEF Held
<1> QED
  BY <1>1, <1>3, <1>4, <1>5, <1>6, <1>7, <1>8, <1>9, SaveStep

(* A run that has not been created satisfies the invariant.                *)
LEMMA IndInvInit == Init => IndInv
BY DEF Init, IndInv, CreatedFirst, IssuedOnce, UnderWay, EffectShows,
   HeldIsTrue, TrueOf, CacheKnowsOutcomes, ResumeUnderWay, Held, NoOps,
   NoCache, Decided

(* The executor's steps keep the invariant.                                *)
LEMMA ExecuteStep == TypeOK /\ IndInv /\ Execute => IndInv'
<1> SUFFICES ASSUME TypeOK, IndInv, Execute PROVE IndInv'
  OBVIOUS
<1>1. ASSUME NEW o \in Ops, RecordIntent(o) PROVE IndInv'
  <2> DEFINE j == [Journal EXCEPT ![o] = "intent"]
  <2>1. j \in Journals /\ j[o] = "intent" /\ \A q \in Ops : q # o => j[q] = Journal[q]
    BY JournalType DEF Journals, OperationStatuses
  <2>2. /\ SaveJournal(j, "intent", "idle")
        /\ UNCHANGED <<run, target, executed, todo>>
        /\ owner[o] = "new" /\ cur' = o /\ pc = "idle"
        /\ owner' = [owner EXCEPT ![o] = "mine"]
    BY <1>1 DEF RecordIntent
  <2>3. Held(o) = {"none"} /\ disk.ops[o] = "none"
    BY <2>2, JournalIsHeld DEF IndInv, IssuedOnce
  <2>4. ASSUME NEW q \in Ops PROVE TrueOf(q, j[q])
    <3>1. CASE q = o
      BY <2>1, <3>1 DEF TrueOf
    <3>2. CASE q # o
      BY <2>1, <3>2, JournalIsHeld DEF IndInv, HeldIsTrue
    <3> QED
      BY <3>1, <3>2
  <2>5. ASSUME NEW q \in Ops, disk.ops[q] \in Decided PROVE j[q] = disk.ops[q]
    <3>1. q # o
      BY <2>3, <2>5 DEF Decided
    <3> QED
      BY <2>1, <2>5, <3>1 DEF IndInv, CacheKnowsOutcomes, Journal
  <2>6. ASSUME NEW q \in Ops, owner'[q] = "new"
        PROVE  owner[q] = "new" /\ j[q] = "none"
    <3>1. q # o /\ owner[q] = "new"
      BY <2>2, <2>6 DEF TypeOK
    <3> QED
      BY <2>1, <3>1, JournalIsHeld DEF IndInv, IssuedOnce
  <2>7. owner'[cur'] # "new"
    BY <2>2 DEF TypeOK
  <2>8. pc' \in {"intent", "idle"}
    BY <2>2 DEF SaveJournal
  <2>9. disk'.ops[cur'] \notin Decided
    <3>1. disk'.ops[o] \in {disk.ops[o], j[o], "none"}
      BY <2>1, <2>2, SaveHeld
    <3> QED
      BY <2>1, <2>2, <2>3, <3>1 DEF Decided
  <2> HIDE DEF j
  <2>10. /\ CreatedFirst' /\ EffectShows' /\ HeldIsTrue' /\ CacheKnowsOutcomes'
         /\ \A q \in Ops : owner'[q] = "new" =>
              executed'[q] = "no" /\ Held(q)' = {"none"}
    BY <2>1, <2>2, <2>4, <2>5, <2>6, SaveStep
  <2>11. IssuedOnce'
    BY <2>7, <2>10 DEF IssuedOnce
  <2>12. UnderWay' /\ ResumeUnderWay'
    BY <2>8, <2>9 DEF UnderWay, ResumeUnderWay
  <2> QED
    BY <2>10, <2>11, <2>12 DEF IndInv
<1>2. CASE RecordStart
  <2>1. /\ UpdateStatus("started", "started", "idle") /\ pc = "intent"
        /\ UNCHANGED <<run, world, local>>
    BY <1>2 DEF RecordStart
  <2>2. disk.ops[cur] \notin Decided /\ "started" \in OperationStatuses
    BY <2>1 DEF IndInv, UnderWay, OperationStatuses
  <2>3. /\ CreatedFirst' /\ EffectShows' /\ HeldIsTrue' /\ CacheKnowsOutcomes'
        /\ \A o \in Ops : owner'[o] = "new" =>
             executed'[o] = "no" /\ Held(o)' = {"none"}
        /\ owner'[cur'] # "new"
    BY <2>1, <2>2, UpdateStep
  <2>4. IssuedOnce'
    BY <2>3 DEF IssuedOnce
  <2>5. UnderWay' /\ ResumeUnderWay'
    <3>1. CASE pc' = "idle"
      BY <3>1 DEF UnderWay, ResumeUnderWay
    <3> DEFINE j == [Journal EXCEPT ![cur] = "started"]
    <3>a. j[cur] = "started" /\ j \in Journals
      BY <2>2, JournalType DEF Journals, TypeOK
    <3>b. SaveJournal(j, "started", "idle") /\ cur' = cur
      BY <2>1 DEF UpdateStatus, local
    <3> HIDE DEF j
    <3>2. CASE pc' # "idle"
      <4>1. /\ pc' = "started" /\ cache'.loaded
            /\ disk'.ops[cur] = "started" /\ cache'.ops[cur] = "started"
        BY <3>a, <3>b, <3>2 DEF SaveJournal
      <4>2. Held(cur)' = {"started"}
        BY <3>b, <4>1 DEF Held
      <4> QED
        BY <3>b, <4>1, <4>2 DEF UnderWay, ResumeUnderWay
    <3> QED
      BY <3>1, <3>2
  <2> QED
    BY <2>3, <2>4, <2>5 DEF IndInv
<1>3. CASE BeginOperation
  <2>1. /\ pc = "started" /\ pc' = "acting" /\ cur' = cur
        /\ UNCHANGED <<run, disk, cache, owner>>
        /\ executed' = [executed EXCEPT ![cur] = "partial"]
        /\ \A o \in Ops : o # cur => target'[o] = target[o]
    BY <1>3 DEF BeginOperation, local, TypeOK
  <2>2. \A o \in Ops : Held(o)' = Held(o)
    BY <2>1 DEF Held
  <2>3. Held(cur) \subseteq {"started", "progress"} /\ cache.loaded
        /\ owner[cur] # "new" /\ cur \in Ops
    BY <2>1 DEF IndInv, UnderWay, IssuedOnce, TypeOK
  <2>4. \A o \in Ops : o # cur => executed'[o] = executed[o]
    BY <2>1 DEF TypeOK
  <2>5. executed'[cur] = "partial"
    BY <2>1, <2>3 DEF TypeOK
  <2>6. CreatedFirst'
    BY <2>1 DEF IndInv, CreatedFirst
  <2>7. IssuedOnce'
    BY <2>1, <2>2, <2>3, <2>4 DEF IndInv, IssuedOnce
  <2>8. UnderWay' /\ ResumeUnderWay'
    BY <2>1, <2>2, <2>3 DEF UnderWay, ResumeUnderWay
  <2>9. EffectShows'
    BY <2>1, <2>4, <2>5 DEF IndInv, EffectShows
  <2>10. HeldIsTrue'
    <3> SUFFICES ASSUME NEW o \in Ops, NEW s \in Held(o)' PROVE TrueOf(o, s)'
      BY DEF HeldIsTrue
    <3>1. s \in Held(o)
      BY <2>2
    <3>2. CASE o = cur
      BY <2>3, <3>1, <3>2 DEF TrueOf
    <3>3. CASE o # cur
      BY <2>1, <2>4, <3>1, <3>3 DEF IndInv, HeldIsTrue, TrueOf
    <3> QED
      BY <3>2, <3>3
  <2>11. CacheKnowsOutcomes'
    BY <2>1 DEF IndInv, CacheKnowsOutcomes
  <2> QED
    BY <2>6, <2>7, <2>8, <2>9, <2>10, <2>11 DEF IndInv
<1>4. CASE RecordProgress
  <2>1. /\ UpdateStatus("progress", "acting", "raised") /\ pc = "acting"
        /\ UNCHANGED <<run, world, local>>
    BY <1>4 DEF RecordProgress
  <2>2. /\ Held(cur) \subseteq {"started", "progress"}
        /\ "progress" \in OperationStatuses /\ cur \in Ops
    BY <2>1 DEF IndInv, UnderWay, OperationStatuses, TypeOK
  <2>3. disk.ops[cur] \in {"started", "progress"} /\ disk.ops[cur] \notin Decided
    BY <2>2, JournalIsHeld DEF Decided
  <2>4. /\ CreatedFirst' /\ EffectShows' /\ HeldIsTrue' /\ CacheKnowsOutcomes'
        /\ \A o \in Ops : owner'[o] = "new" =>
             executed'[o] = "no" /\ Held(o)' = {"none"}
        /\ owner'[cur'] # "new"
        /\ Held(cur)' \subseteq {disk.ops[cur], "progress", "none"}
    BY <2>1, <2>2, <2>3, UpdateStep
  <2>5. IssuedOnce'
    BY <2>4 DEF IssuedOnce
  <2>6. UnderWay' /\ ResumeUnderWay'
    <3> DEFINE j == [Journal EXCEPT ![cur] = "progress"]
    <3>1. j[cur] = "progress" /\ j \in Journals
      BY <2>2, JournalType DEF Journals
    <3>2. SaveJournal(j, "acting", "raised") /\ cur' = cur
      BY <2>1 DEF UpdateStatus, local
    <3> HIDE DEF j
    <3>3. CASE pc' = "acting"
      <4>1. cache'.loaded /\ disk'.ops[cur] = "progress" /\ cache'.ops[cur] = "progress"
        BY <3>1, <3>2, <3>3 DEF SaveJournal
      <4>2. Held(cur)' = {"progress"}
        BY <3>2, <4>1 DEF Held
      <4> QED
        BY <3>3, <4>1, <4>2 DEF UnderWay, ResumeUnderWay
    <3>4. CASE pc' # "acting"
      <4>1. pc' = "raised"
        BY <3>2, <3>4 DEF SaveJournal
      <4>2. disk'.ops[cur] \in {disk.ops[cur], "progress", "none"}
        BY <2>2, <3>1, <3>2, SaveHeld
      <4> QED
        BY <2>3, <3>2, <4>1, <4>2 DEF UnderWay, ResumeUnderWay, Decided
    <3> QED
      BY <3>3, <3>4
  <2> QED
    BY <2>4, <2>5, <2>6 DEF IndInv
<1>5. CASE FinishOperation
  <2>1. /\ pc = "acting" /\ pc' = "acted" /\ cur' = cur
        /\ UNCHANGED <<run, disk, cache, owner>>
        /\ executed' = [executed EXCEPT ![cur] = "yes"]
        /\ \A o \in Ops : o # cur => target'[o] = target[o]
        /\ OpType[cur] = "filesystem.write"  => target'[cur] = "expected"
        /\ OpType[cur] = "filesystem.delete" => target'[cur] = "missing"
    BY <1>5 DEF FinishOperation, local, TypeOK
  <2>2. \A o \in Ops : Held(o)' = Held(o)
    BY <2>1 DEF Held
  <2>3. Held(cur) \subseteq {"started", "progress"} /\ cache.loaded
        /\ owner[cur] # "new" /\ cur \in Ops
    BY <2>1 DEF IndInv, UnderWay, IssuedOnce, TypeOK
  <2>4. \A o \in Ops : o # cur => executed'[o] = executed[o]
    BY <2>1 DEF TypeOK
  <2>5. executed'[cur] = "yes"
    BY <2>1, <2>3 DEF TypeOK
  <2>6. CreatedFirst'
    BY <2>1 DEF IndInv, CreatedFirst
  <2>7. IssuedOnce'
    BY <2>1, <2>2, <2>3, <2>4 DEF IndInv, IssuedOnce
  <2>8. UnderWay' /\ ResumeUnderWay'
    BY <2>1, <2>2, <2>3, <2>5 DEF UnderWay, ResumeUnderWay
  <2>9. EffectShows'
    BY <2>1, <2>4, <2>5 DEF IndInv, EffectShows
  <2>10. HeldIsTrue'
    <3> SUFFICES ASSUME NEW o \in Ops, NEW s \in Held(o)' PROVE TrueOf(o, s)'
      BY DEF HeldIsTrue
    <3>1. s \in Held(o)
      BY <2>2
    <3>2. CASE o = cur
      BY <2>3, <3>1, <3>2 DEF TrueOf
    <3>3. CASE o # cur
      BY <2>1, <2>4, <3>1, <3>3 DEF IndInv, HeldIsTrue, TrueOf
    <3> QED
      BY <3>2, <3>3
  <2>11. CacheKnowsOutcomes'
    BY <2>1 DEF IndInv, CacheKnowsOutcomes
  <2> QED
    BY <2>6, <2>7, <2>8, <2>9, <2>10, <2>11 DEF IndInv
<1>6. CASE OperationRaises
  <2>1. /\ pc \in {"started", "acting", "acted"} /\ pc' = "raised"
        /\ UNCHANGED <<run, disk, cache, target, executed, owner, cur>>
    BY <1>6 DEF OperationRaises, world, local
  <2>2. \A o \in Ops : Held(o)' = Held(o)
    BY <2>1 DEF Held
  <2>3. disk.ops[cur] \notin Decided
    BY <2>1, JournalIsHeld DEF IndInv, UnderWay, Decided, TypeOK
  <2>4. CreatedFirst' /\ IssuedOnce'
    BY <2>1, <2>2 DEF IndInv, CreatedFirst, IssuedOnce
  <2>5. UnderWay' /\ ResumeUnderWay'
    BY <2>1, <2>3 DEF UnderWay, ResumeUnderWay
  <2>6. EffectShows' /\ CacheKnowsOutcomes'
    BY <2>1 DEF IndInv, EffectShows, CacheKnowsOutcomes
  <2>7. HeldIsTrue'
    BY <2>1, <2>2 DEF IndInv, HeldIsTrue, TrueOf
  <2> QED
    BY <2>4, <2>5, <2>6, <2>7 DEF IndInv
<1>7. CASE RecordCompletion
  <2>1. /\ UpdateStatus("completed", "idle", "raised") /\ pc = "acted"
        /\ UNCHANGED <<run, world, local>>
    BY <1>7 DEF RecordCompletion
  <2>2. /\ Held(cur) \subseteq {"started", "progress"}
        /\ "completed" \in OperationStatuses /\ cur \in Ops
        /\ executed[cur] = "yes"
    BY <2>1 DEF IndInv, UnderWay, OperationStatuses, TypeOK
  <2>3. disk.ops[cur] \notin Decided
    BY <2>2, JournalIsHeld DEF Decided
  <2>4. /\ CreatedFirst' /\ EffectShows' /\ HeldIsTrue' /\ CacheKnowsOutcomes'
        /\ \A o \in Ops : owner'[o] = "new" =>
             executed'[o] = "no" /\ Held(o)' = {"none"}
        /\ owner'[cur'] # "new"
    BY <2>1, <2>2, <2>3, UpdateStep
  <2>5. IssuedOnce'
    BY <2>4 DEF IssuedOnce
  <2>6. UnderWay' /\ ResumeUnderWay'
    <3>1. CASE pc' = "idle"
      BY <3>1 DEF UnderWay, ResumeUnderWay
    <3>2. CASE pc' # "idle"
      <4>1. pc' = "raised" /\ disk' \in {disk, TornFile} /\ cur' = cur
        BY <2>1, <3>2 DEF UpdateStatus, SaveJournal, local
      <4>2. disk'.ops[cur] \notin Decided
        BY <2>2, <2>3, <4>1 DEF TornFile, NoOps, Decided
      <4> QED
        BY <4>1, <4>2 DEF UnderWay, ResumeUnderWay
    <3> QED
      BY <3>1, <3>2
  <2> QED
    BY <2>4, <2>5, <2>6 DEF IndInv
<1>8. CASE RecordFailure
  <2>1. /\ UpdateStatus("failed", "idle", "idle") /\ pc = "raised"
        /\ UNCHANGED <<run, world, local>>
    BY <1>8 DEF RecordFailure
  <2>2. "failed" \in OperationStatuses /\ disk.ops[cur] \notin Decided
    BY <2>1 DEF IndInv, UnderWay, OperationStatuses
  <2>3. /\ CreatedFirst' /\ EffectShows' /\ HeldIsTrue' /\ CacheKnowsOutcomes'
        /\ \A o \in Ops : owner'[o] = "new" =>
             executed'[o] = "no" /\ Held(o)' = {"none"}
        /\ owner'[cur'] # "new"
    BY <2>1, <2>2, UpdateStep
  <2>4. pc' = "idle"
    BY <2>1 DEF UpdateStatus, SaveJournal
  <2>5. IssuedOnce' /\ UnderWay' /\ ResumeUnderWay'
    BY <2>3, <2>4 DEF IssuedOnce, UnderWay, ResumeUnderWay
  <2> QED
    BY <2>3, <2>5 DEF IndInv
<1> QED
  BY <1>1, <1>2, <1>3, <1>4, <1>5, <1>6, <1>7, <1>8 DEF Execute

(* A save of the run goes on at one of its two places, and the file of a   *)
(* created run never vanishes.                                             *)
LEMMA SaveRunStep ==
  ASSUME TypeOK, NEW r \in RunFiles, NEW ok, NEW err, SaveRun(r, ok, err)
  PROVE  /\ pc' \in {ok, err}
         /\ run.file # "absent" /\ r.file # "absent" => run'.file # "absent"
         /\ pc' # err => run' = r
BY DEF SaveRun, TypeOK, RunFiles

(* Setting the status of a readable run file leaves it readable.           *)
LEMMA WithStatusFile ==
  ASSUME TypeOK, NEW s \in RunStatuses
  PROVE  /\ WithStatus(s) \in RunFiles
         /\ WithStatus(s).file = run.file
         /\ WithStatus(s).status = s
BY DEF WithStatus, TypeOK, RunFiles

(* get_journal, which may fill the cache, changes nothing that is held.    *)
LEMMA LoadStep ==
  ASSUME TypeOK, IndInv, UNCHANGED <<disk, world>>,
         cache' = [loaded |-> HasJournal, ops |-> Journal]
  PROVE  /\ \A o \in Ops : Held(o)' \subseteq Held(o) /\ Held(o)' # {}
         /\ EffectShows' /\ HeldIsTrue' /\ CacheKnowsOutcomes'
         /\ \A o \in Ops : owner'[o] = "new" =>
              executed'[o] = "no" /\ Held(o)' = {"none"}
         /\ Journal' = Journal
<1> USE DEF world
<1>1. cache'.loaded = HasJournal /\ cache'.ops = Journal
  OBVIOUS
<1>2. ASSUME NEW o \in Ops PROVE Held(o)' \subseteq Held(o) /\ Held(o)' # {}
  BY <1>1, JournalIsHeld DEF Held
<1>3. EffectShows'
  BY DEF IndInv, EffectShows
<1>4. HeldIsTrue'
  BY <1>2 DEF IndInv, HeldIsTrue, TrueOf
<1>5. CacheKnowsOutcomes'
  BY <1>1 DEF IndInv, CacheKnowsOutcomes, Journal
<1>6. ASSUME NEW o \in Ops, owner'[o] = "new"
      PROVE  executed'[o] = "no" /\ Held(o)' = {"none"}
  <2>1. executed[o] = "no" /\ Held(o) = {"none"}
    BY <1>6 DEF IndInv, IssuedOnce
  <2> QED
    BY <1>2, <2>1
<1>7. Journal' = Journal
  BY <1>1 DEF Journal, HasJournal
<1> QED
  BY <1>2, <1>3, <1>4, <1>5, <1>6, <1>7

(* The steps of detection and of resume() keep the invariant.              *)
LEMMA RecoverStep == TypeOK /\ IndInv /\ Recover => IndInv'
<1> SUFFICES ASSUME TypeOK, IndInv, Recover PROVE IndInv'
  OBVIOUS
<1>s. /\ "recoverable" \in RunStatuses /\ "reconciling" \in RunStatuses
      /\ "resuming" \in RunStatuses /\ "running" \in RunStatuses
      /\ "crashed" \in RunStatuses
  BY DEF RunStatuses
<1>f. pc \notin {"boot", "off"} => run.file # "absent"
  BY DEF IndInv, CreatedFirst
<1>1. CASE DetectCrash
  <2> DEFINE r == [run EXCEPT !.status = "crashed", !.crash_count = @ + 1]
  <2>1. r \in RunFiles /\ r.file = run.file
    <3>1. run \in RunFiles /\ run.crash_count + 1 \in Nat
      BY DEF TypeOK, RunFiles
    <3> QED
      BY <1>s, <3>1 DEF RunFiles
  <2>2. /\ run.file = "ok" /\ UNCHANGED <<disk, cache, world>>
        /\ \/ pc' = "mark" /\ UNCHANGED run
           \/ SaveRun(r, "mark", "boot")
    BY <1>1 DEF DetectCrash
  <2> HIDE DEF r
  <2>3. pc' \in {"mark", "boot"} /\ run'.file # "absent"
    BY <2>1, <2>2, SaveRunStep
  <2> QED
    BY <2>2, <2>3, QuietStep
<1>2. CASE MarkAllStartedAsUnknown
  <2> DEFINE started == {o \in Ops : Journal[o] = "started"}
             marked  == [o \in Ops |-> IF o \in started THEN "unknown"
                                                        ELSE Journal[o]]
  <2>1. pc = "mark" /\ UNCHANGED <<run, world>>
    BY <1>2 DEF MarkAllStartedAsUnknown
  <2>2. CASE started = {}
    <3>1. /\ cache' = [loaded |-> HasJournal, ops |-> Journal]
          /\ pc' = "recoverable" /\ UNCHANGED disk
      BY <1>2, <2>2 DEF MarkAllStartedAsUnknown
    <3>2. /\ EffectShows' /\ HeldIsTrue' /\ CacheKnowsOutcomes'
          /\ \A o \in Ops : owner'[o] = "new" =>
               executed'[o] = "no" /\ Held(o)' = {"none"}
      BY <2>1, <3>1, LoadStep
    <3>3. CreatedFirst' /\ IssuedOnce' /\ UnderWay' /\ ResumeUnderWay'
      BY <1>f, <2>1, <3>1, <3>2
      DEF CreatedFirst, IssuedOnce, UnderWay, ResumeUnderWay
    <3> QED
      BY <3>2, <3>3 DEF IndInv
  <2>3. CASE started # {}
    <3>1. SaveJournal(marked, "recoverable", "boot")
      BY <1>2, <2>3 DEF MarkAllStartedAsUnknown
    <3>2. marked \in Journals
      BY JournalType DEF Journals, OperationStatuses
    <3>3. ASSUME NEW o \in Ops PROVE TrueOf(o, marked[o])
      <4>1. marked[o] = "unknown" \/ marked[o] = Journal[o]
        OBVIOUS
      <4> QED
        BY <4>1, JournalIsHeld DEF IndInv, HeldIsTrue, TrueOf
    <3>4. ASSUME NEW o \in Ops, disk.ops[o] \in Decided
          PROVE  marked[o] = disk.ops[o]
      <4>1. Journal[o] = disk.ops[o]
        BY <3>4 DEF IndInv, CacheKnowsOutcomes, Journal
      <4> QED
        BY <3>4, <4>1 DEF Decided
    <3>5. ASSUME NEW o \in Ops, owner'[o] = "new"
          PROVE  owner[o] = "new" /\ marked[o] = "none"
      <4>1. owner[o] = "new" /\ Journal[o] = "none"
        BY <2>1, <3>5, JournalIsHeld DEF IndInv, IssuedOnce, world
      <4> QED
        BY <4>1
    <3> HIDE DEF marked
    <3>6. /\ CreatedFirst' /\ EffectShows' /\ HeldIsTrue' /\ CacheKnowsOutcomes'
          /\ \A o \in Ops : owner'[o] = "new" =>
               executed'[o] = "no" /\ Held(o)' = {"none"}
      BY <2>1, <3>1, <3>2, <3>3, <3>4, <3>5, SaveStep DEF world
    <3>7. pc' \in {"recoverable", "boot"}
      BY <3>1 DEF SaveJournal
    <3>8. IssuedOnce' /\ UnderWay' /\ ResumeUnderWay'
      BY <3>6, <3>7 DEF IssuedOnce, UnderWay, ResumeUnderWay
    <3> QED
      BY <3>6, <3>8 DEF IndInv
  <2> QED
    BY <2>2, <2>3
<1>3. ASSUME NEW s \in RunStatuses, NEW ok, NEW err, SaveRun(WithStatus(s), ok, err),
             run.file # "absent", UNCHANGED <<disk, cache, world>>,
             {ok, err} \subseteq {"boot", "idle"}
      PROVE  IndInv'
  BY <1>3, WithStatusFile, SaveRunStep, QuietStep
<1>4. CASE MarkRecoverable
  BY <1>3, <1>4, <1>f, <1>s DEF MarkRecoverable
<1>5. ASSUME NEW m \in Modes, BeginReconciling(m) PROVE IndInv'
  <2>1. /\ run.file = "ok" /\ UNCHANGED <<disk, world>>
        /\ SaveRun(WithStatus("reconciling"), "reconcile", "boot")
        /\ todo' = {o \in Ops : Journal[o] = "unknown"}
        /\ cache' = [loaded |-> HasJournal, ops |-> Journal]
    BY <1>5 DEF BeginReconciling
  <2>2. /\ pc' \in {"reconcile", "boot"} /\ run'.file # "absent"
        /\ pc' = "reconcile" => run'.status = "reconciling"
    BY <1>s, <2>1, WithStatusFile, SaveRunStep
  <2>3. /\ EffectShows' /\ HeldIsTrue' /\ CacheKnowsOutcomes' /\ Journal' = Journal
        /\ \A o \in Ops : owner'[o] = "new" =>
             executed'[o] = "no" /\ Held(o)' = {"none"}
    BY <2>1, LoadStep
  <2>4. CreatedFirst' /\ IssuedOnce' /\ UnderWay'
    BY <2>2, <2>3 DEF CreatedFirst, IssuedOnce, UnderWay
  <2>5. ResumeUnderWay'
    BY <2>1, <2>2, <2>3 DEF ResumeUnderWay
  <2> QED
    BY <2>3, <2>4, <2>5 DEF IndInv
<1>6. ASSUME NEW o \in Ops, ReconcileOne(o) PROVE IndInv'
  <2> DEFINE s == Reconcile(OpType[o], target[o]).status
             j == [Journal EXCEPT ![o] = s]
  <2>1. /\ pc = "reconcile" /\ o \in todo /\ todo' = todo \ {o}
        /\ SaveJournal(j, "reconcile", "boot") /\ UNCHANGED <<run, world>>
    BY <1>6 DEF ReconcileOne
  <2>2. s \in {"reconciled_completed", "reconciled_not_executed",
               "requires_decision"}
    BY ReconcileStatus
  <2>3. TrueOf(o, s)
    <3>1. OpType[o] \in OperationTypes /\ target[o] \in TargetStates
      BY OpTypeAssumption DEF TypeOK
    <3>2. /\ s = "reconciled_completed" =>
               \/ OpType[o] = "filesystem.write"  /\ target[o] = "expected"
               \/ OpType[o] = "filesystem.delete" /\ target[o] = "missing"
          /\ s = "reconciled_not_executed" =>
               /\ DetermineRetryPolicy(OpType[o]) \notin {"unsafe_retry", "user_decision"}
               /\ OpType[o] = "filesystem.write"  => target[o] = "missing"
               /\ OpType[o] = "filesystem.delete" => target[o] # "missing"
      BY <3>1, ReconcileIsTrue
    <3> HIDE DEF s
    <3> QED
      BY <2>2, <3>2 DEF IndInv, EffectShows, TrueOf
  <2> HIDE DEF s
  <2>4. /\ j \in Journals /\ j[o] = s
        /\ \A q \in Ops : q # o => j[q] = Journal[q]
    BY <2>2, JournalType DEF Journals, OperationStatuses
  <2>5. Journal[o] = "unknown" /\ disk.ops[o] \notin Decided
    BY <2>1 DEF IndInv, ResumeUnderWay, CacheKnowsOutcomes, Journal, Decided
  <2>6. ASSUME NEW q \in Ops PROVE TrueOf(q, j[q])
    BY <2>3, <2>4, JournalIsHeld DEF IndInv, HeldIsTrue
  <2>7. ASSUME NEW q \in Ops, disk.ops[q] \in Decided PROVE j[q] = disk.ops[q]
    BY <2>4, <2>5, <2>7 DEF IndInv, CacheKnowsOutcomes, Journal
  <2>8. ASSUME NEW q \in Ops, owner'[q] = "new"
        PROVE  owner[q] = "new" /\ j[q] = "none"
    <3>1. owner[q] = "new" /\ Journal[q] = "none"
      BY <2>1, <2>8, JournalIsHeld DEF IndInv, IssuedOnce, world
    <3> QED
      BY <2>4, <2>5, <3>1
  <2> HIDE DEF j
  <2>9. /\ CreatedFirst' /\ EffectShows' /\ HeldIsTrue' /\ CacheKnowsOutcomes'
        /\ \A q \in Ops : owner'[q] = "new" =>
             executed'[q] = "no" /\ Held(q)' = {"none"}
    BY <2>1, <2>4, <2>6, <2>7, <2>8, SaveStep DEF world
  <2>10. pc' \in {"reconcile", "boot"} /\ Journal' = j
    BY <2>1 DEF SaveJournal, Journal
  <2>11. IssuedOnce' /\ UnderWay'
    BY <2>9, <2>10 DEF IssuedOnce, UnderWay
  <2>12. ResumeUnderWay'
    BY <2>1, <2>4, <2>10 DEF IndInv, ResumeUnderWay, TypeOK
  <2> QED
    BY <2>9, <2>11, <2>12 DEF IndInv
<1>7. CASE AskUser
  BY <1>3, <1>7, <1>f, <1>s DEF AskUser
<1>8. CASE BeginResuming
  <2> DEFINE r == [WithStatus("resuming") EXCEPT !.resume_count = @ + 1]
  <2>1. r \in RunFiles /\ r.file = run.file /\ r.status = "resuming"
    BY <1>s, WithStatusFile DEF RunFiles
  <2>2. /\ pc = "reconcile" /\ SaveRun(r, "resuming", "boot")
        /\ UNCHANGED <<disk, cache, world>>
    BY <1>8 DEF BeginResuming
  <2> HIDE DEF r
  <2>3. /\ pc' \in {"resuming", "boot"} /\ run'.file # "absent"
        /\ pc' = "resuming" => run'.status = "resuming"
    BY <1>f, <2>1, <2>2, SaveRunStep
  <2> QED
    BY <2>2, <2>3, QuietStep
<1>9. CASE EndDryRun
  BY <1>3, <1>9, <1>f, <1>s DEF EndDryRun
<1>10. CASE FinishResume
  BY <1>3, <1>10, <1>f, <1>s DEF FinishResume
<1> QED
  BY <1>1, <1>2, <1>4, <1>5, <1>6, <1>7, <1>8, <1>9, <1>10 DEF Recover

(* So do creation, heartbeats, time, the status setters, and death.        *)
LEMMA OtherStep ==
  ASSUME TypeOK, IndInv,
         \/ RegisterRun \/ CreateJournal \/ Heartbeat \/ TimePasses
         \/ SetStatus \/ Crash \/ Restart \/ UNCHANGED vars
  PROVE  IndInv'
<1>s. /\ "completed" \in RunStatuses /\ "failed" \in RunStatuses
      /\ "abandoned" \in RunStatuses /\ "crashed" \in RunStatuses
  BY DEF RunStatuses
<1>1. CASE RegisterRun
  <2> DEFINE r == [run EXCEPT !.file = "ok", !.updated = "fresh"]
  <2>1. r \in RunFiles /\ r.file = "ok"
    BY DEF TypeOK, RunFiles
  <2>2. /\ run.file = "absent" /\ UNCHANGED <<disk, cache, world>>
        /\ SaveRun(r, "create", "boot")
    BY <1>1 DEF RegisterRun
  <2> HIDE DEF r
  <2>3. pc' \in {"create", "boot"} /\ (pc' = "create" => run'.file # "absent")
    BY <2>1, <2>2, SaveRunStep
  <2> QED
    BY <2>2, <2>3, QuietStep
<1>2. CASE CreateJournal
  <2>1. /\ pc = "create" /\ SaveJournal(NoOps, "idle", "idle")
        /\ UNCHANGED <<run, target, executed, owner>>
    BY <1>2 DEF CreateJournal, world
  <2>2. ASSUME NEW o \in Ops
        PROVE  /\ NoOps[o] = "none" /\ TrueOf(o, NoOps[o])
               /\ owner[o] = "new" /\ disk.ops[o] \notin Decided
    BY <2>1, JournalIsHeld
    DEF IndInv, CreatedFirst, IssuedOnce, NoOps, TrueOf, Decided
  <2>3. NoOps \in Journals /\ pc' = "idle"
    BY <2>1 DEF NoOps, Journals, OperationStatuses, SaveJournal
  <2>4. /\ CreatedFirst' /\ EffectShows' /\ HeldIsTrue' /\ CacheKnowsOutcomes'
        /\ \A o \in Ops : owner'[o] = "new" =>
             executed'[o] = "no" /\ Held(o)' = {"none"}
    BY <2>1, <2>2, <2>3, SaveStep
  <2>5. IssuedOnce' /\ UnderWay' /\ ResumeUnderWay'
    BY <2>3, <2>4 DEF IssuedOnce, UnderWay, ResumeUnderWay
  <2> QED
    BY <2>4, <2>5 DEF IndInv
<1>3. CASE Heartbeat
  <2> DEFINE r == [run EXCEPT !.heartbeat = "fresh", !.updated = "fresh"]
  <2>1. r \in RunFiles /\ r.file = run.file
    BY DEF TypeOK, RunFiles
  <2>2. /\ run.file = "ok" /\ UNCHANGED <<disk, cache, world>>
        /\ SaveRun(r, "idle", "idle")
    BY <1>3 DEF Heartbeat
  <2> HIDE DEF r
  <2>3. pc' = "idle" /\ run'.file # "absent"
    BY <2>1, <2>2, SaveRunStep
  <2> QED
    BY <2>2, <2>3, QuietStep
<1>4. CASE TimePasses
  <2>1. /\ run'.file = run.file /\ run.file = "ok" /\ pc' \in {"off", "boot"}
        /\ UNCHANGED <<disk, cache, world>>
    BY <1>4 DEF TimePasses, TypeOK, RunFiles
  <2> QED
    BY <2>1, QuietStep
<1>5. ASSUME NEW s \in RunStatuses, NEW p \in {"boot", "idle"},
             SaveRun(WithStatus(s), p, p), run.file # "absent",
             UNCHANGED <<disk, cache, world>>
      PROVE  IndInv'
  BY <1>5, WithStatusFile, SaveRunStep, QuietStep
<1>6. CASE SetStatus
  <2>1. CASE MarkRunCompleted
    BY <1>5, <1>s, <2>1 DEF MarkRunCompleted
  <2>2. CASE MarkRunFailed
    BY <1>5, <1>s, <2>2 DEF MarkRunFailed
  <2>3. CASE MarkRunAbandoned
    BY <1>5, <1>s, <2>3 DEF MarkRunAbandoned
  <2>4. CASE MarkCrashed
    <3> DEFINE r == [WithStatus("crashed") EXCEPT !.crash_count = @ + 1]
    <3>1. r \in RunFiles /\ r.file = run.file
      BY <1>s, WithStatusFile DEF RunFiles
    <3>2. /\ run.file = "ok" /\ UNCHANGED <<disk, cache, world>>
          /\ SaveRun(r, "boot", "boot")
      BY <2>4 DEF MarkCrashed
    <3> HIDE DEF r
    <3>3. pc' = "boot" /\ run'.file # "absent"
      BY <3>1, <3>2, SaveRunStep
    <3> QED
      BY <3>2, <3>3, QuietStep
  <2>5. ASSUME NEW s \in RunStatuses, Transition(s) PROVE IndInv'
    BY <1>5, <2>5 DEF Transition
  <2> QED
    BY <1>6, <2>1, <2>2, <2>3, <2>4, <2>5 DEF SetStatus
<1>7. CASE Crash
  <2>1. /\ pc' = "off" /\ cache' = NoCache /\ UNCHANGED <<target, executed>>
        /\ owner' = [o \in Ops |-> IF owner[o] = "mine" THEN "past" ELSE owner[o]]
        /\ disk' \in {disk, TornFile}
        /\ run' \in {run, [run EXCEPT !.file = "torn"]}
    BY <1>7 DEF Crash
  <2>2. ASSUME NEW o \in Ops
        PROVE  /\ Held(o)' = {disk'.ops[o]}
               /\ disk'.ops[o] \in {disk.ops[o], "none"}
               /\ owner'[o] = "new" => owner[o] = "new"
    BY <2>1 DEF Held, NoCache, TornFile, NoOps
  <2>3. CreatedFirst'
    <3>1. run'.file = "absent" => run.file = "absent"
      BY <2>1 DEF TypeOK, RunFiles
    <3> QED
      BY <2>1, <3>1 DEF IndInv, CreatedFirst
  <2>4. IssuedOnce'
    BY <2>1, <2>2, JournalIsHeld DEF IndInv, IssuedOnce
  <2>5. UnderWay' /\ ResumeUnderWay'
    BY <2>1 DEF UnderWay, ResumeUnderWay
  <2>6. EffectShows'
    BY <2>1 DEF IndInv, EffectShows
  <2>7. HeldIsTrue'
    <3> SUFFICES ASSUME NEW o \in Ops, NEW s \in Held(o)' PROVE TrueOf(o, s)'
      BY DEF HeldIsTrue
    <3>1. s \in {disk.ops[o], "none"} /\ TrueOf(o, disk.ops[o])
      BY <2>2, JournalIsHeld DEF IndInv, HeldIsTrue
    <3> QED
      BY <2>1, <3>1 DEF TrueOf
  <2>8. CacheKnowsOutcomes'
    BY <2>1 DEF CacheKnowsOutcomes, NoCache
  <2> QED
    BY <2>3, <2>4, <2>5, <2>6, <2>7, <2>8 DEF IndInv
<1>8. CASE Restart
  BY <1>8, QuietStep DEF Restart
<1>9. CASE UNCHANGED vars
  <2>1. \A o \in Ops : Held(o)' = Held(o)
    BY <1>9 DEF vars, Held
  <2>2. CreatedFirst' /\ IssuedOnce' /\ EffectShows'
    BY <1>9, <2>1 DEF vars, IndInv, CreatedFirst, IssuedOnce, EffectShows
  <2>4. UnderWay'
    BY <1>9 DEF vars, IndInv, UnderWay, Held
  <2>3. HeldIsTrue' /\ CacheKnowsOutcomes' /\ ResumeUnderWay'
    BY <1>9, <2>1
    DEF vars, IndInv, HeldIsTrue, TrueOf, CacheKnowsOutcomes, ResumeUnderWay,
        Journal
  <2> QED
    BY <2>2, <2>3, <2>4 DEF IndInv
<1> QED
  BY <1>1, <1>2, <1>3, <1>4, <1>6, <1>7, <1>8, <1>9

(* The journal's invariant holds in every reachable state.                 *)
THEOREM Invariant == Spec => []IndInv
<1>1. Init => IndInv
  BY IndInvInit
<1>2. TypeOK /\ IndInv /\ [Next]_vars => IndInv'
  BY ExecuteStep, RecoverStep, OtherStep DEF Next
<1> QED
  BY <1>1, <1>2, TypeCorrect, PTL DEF Spec

(* Whatever the calls and the faults, the journal never holds a verdict    *)
(* that is untrue of the world.                                            *)
THEOREM VerdictsTrue == Spec => []VerdictsAreTrue
<1>1. TypeOK /\ IndInv => VerdictsAreTrue
  <2> SUFFICES ASSUME TypeOK, IndInv, NEW o \in Ops PROVE TrueOf(o, disk.ops[o])
    BY DEF VerdictsAreTrue, TrueOf
  <2> QED
    BY JournalIsHeld DEF IndInv, HeldIsTrue
<1> QED
  BY <1>1, Invariant, TypeCorrect, PTL

(* The journaled outcome of an operation is not revised by any step.       *)
LEMMA SaveFinal ==
  ASSUME TypeOK, IndInv, NEW j \in Journals, NEW ok, NEW err,
         SaveJournal(j, ok, err), disk'.file # "torn",
         NEW o \in Ops, disk.ops[o] \in Decided, j[o] = disk.ops[o]
  PROVE  disk'.ops[o] = disk.ops[o]
BY DEF SaveJournal, TornFile

(* An outcome once journaled is final: no execution, detection, resume or  *)
(* restart revises it.                                                     *)
THEOREM OutcomesFinal == Spec => OutcomesAreFinal
<1> DEFINE Kept(o) == disk'.ops[o] = disk.ops[o]
<1>1. ASSUME TypeOK, IndInv, Next, disk'.file # "torn",
             NEW o \in Ops, disk.ops[o] \in Decided
      PROVE  Kept(o)
  <2>1. Journal[o] = disk.ops[o] /\ Journal \in Journals /\ owner[o] # "new"
        /\ Journal[o] \notin {"none", "intent", "started", "progress", "unknown"}
    BY <1>1, JournalType, JournalIsHeld
    DEF IndInv, CacheKnowsOutcomes, IssuedOnce, Journal, Decided
  <2>2. CASE UNCHANGED disk
    BY <2>2
  <2>3. CASE CreateJournal
    BY <1>1, <2>1, <2>3 DEF CreateJournal, IndInv, CreatedFirst
  <2>4. ASSUME NEW q \in Ops, RecordIntent(q) PROVE Kept(o)
    <3> DEFINE j == [Journal EXCEPT ![q] = "intent"]
    <3>1. j \in Journals /\ SaveJournal(j, "intent", "idle") /\ q # o
      BY <2>1, <2>4 DEF RecordIntent, Journals, OperationStatuses
    <3>2. j[o] = disk.ops[o]
      BY <2>1, <3>1 DEF Journals
    <3> HIDE DEF j
    <3> QED
      BY <1>1, <3>1, <3>2, SaveFinal
  <2>5. ASSUME NEW s \in OperationStatuses, NEW ok, NEW err,
               UpdateStatus(s, ok, err),
               pc \in {"intent", "acting", "acted", "raised"}
        PROVE  Kept(o)
    <3> DEFINE j == [Journal EXCEPT ![cur] = s]
    <3>1. j \in Journals /\ SaveJournal(j, ok, err)
      BY <2>1, <2>5 DEF UpdateStatus, Journals
    <3>2. cur # o
      <4>1. cur \in Ops /\ disk.ops[cur] \notin Decided
        BY <1>1, <2>5, JournalIsHeld DEF IndInv, UnderWay, Decided, TypeOK
      <4> QED
        BY <1>1, <4>1
    <3>3. j[o] = disk.ops[o]
      BY <2>1, <3>2 DEF Journals
    <3> HIDE DEF j
    <3> QED
      BY <1>1, <3>1, <3>3, SaveFinal
  <2>6. CASE RecordStart \/ RecordProgress \/ RecordCompletion \/ RecordFailure
    BY <2>5, <2>6 DEF RecordStart, RecordProgress, RecordCompletion,
                      RecordFailure, OperationStatuses
  <2>7. CASE MarkAllStartedAsUnknown
    <3> DEFINE marked == [p \in Ops |-> IF p \in {q \in Ops : Journal[q] = "started"}
                                        THEN "unknown" ELSE Journal[p]]
    <3>1. UNCHANGED disk \/ SaveJournal(marked, "recoverable", "boot")
      BY <2>7 DEF MarkAllStartedAsUnknown
    <3>2. marked \in Journals /\ marked[o] = disk.ops[o]
      BY <2>1 DEF Journals, OperationStatuses
    <3> HIDE DEF marked
    <3> QED
      BY <1>1, <3>1, <3>2, SaveFinal
  <2>8. ASSUME NEW q \in Ops, ReconcileOne(q) PROVE Kept(o)
    <3> DEFINE s == Reconcile(OpType[q], target[q]).status
               j == [Journal EXCEPT ![q] = s]
    <3>1. s \in OperationStatuses
      BY ReconcileStatus DEF OperationStatuses
    <3>2. SaveJournal(j, "reconcile", "boot") /\ q \in todo /\ pc = "reconcile"
      BY <2>8 DEF ReconcileOne
    <3> HIDE DEF s
    <3>3. q # o
      BY <1>1, <2>1, <3>2 DEF IndInv, ResumeUnderWay
    <3>4. j \in Journals /\ j[o] = disk.ops[o]
      BY <2>1, <3>1, <3>3 DEF Journals
    <3> HIDE DEF j
    <3> QED
      BY <1>1, <3>2, <3>4, SaveFinal
  <2>9. CASE Crash
    BY <1>1, <2>9 DEF Crash, TornFile
  <2>10. CASE RegisterRun \/ Heartbeat \/ TimePasses \/ SetStatus \/ Restart
    BY <2>2, <2>10 DEF RegisterRun, Heartbeat, TimePasses, SetStatus, Restart,
       MarkRunCompleted, MarkRunFailed, MarkRunAbandoned, MarkCrashed, Transition
  <2>11. CASE BeginOperation \/ FinishOperation \/ OperationRaises
    BY <2>2, <2>11 DEF BeginOperation, FinishOperation, OperationRaises
  <2>12. CASE DetectCrash \/ MarkRecoverable \/ AskUser \/ BeginResuming
              \/ EndDryRun \/ FinishResume \/ \E m \in Modes : BeginReconciling(m)
    BY <2>2, <2>12 DEF DetectCrash, MarkRecoverable, AskUser, BeginResuming,
       EndDryRun, FinishResume, BeginReconciling
  <2> QED
    BY <1>1, <2>3, <2>4, <2>6, <2>7, <2>8, <2>9, <2>10, <2>11, <2>12
    DEF Next, Execute, Recover
<1>2. TypeOK /\ IndInv /\ [Next]_vars =>
        [\A o \in Ops : disk.ops[o] \in Decided /\ disk'.file # "torn" =>
                          disk'.ops[o] = disk.ops[o]]_vars
  BY <1>1
<1> QED
  BY <1>2, Invariant, TypeCorrect, PTL DEF Spec, OutcomesAreFinal

(* What a save does to the status in the run file.                         *)
LEMMA SaveRunStatus ==
  ASSUME TypeOK, NEW r, NEW ok, NEW err, SaveRun(r, ok, err)
  PROVE  run'.status \in {run.status, r.status}
BY DEF SaveRun, TypeOK, RunFiles

(* A completed run is never recovered, resumed, failed or run again.       *)
THEOREM CompletedClosed == Spec => CompletedIsNotReopened
<1> DEFINE Closed == run'.status \in {"completed", "abandoned"}
<1>1. ASSUME TypeOK, IndInv, Next, run.status = "completed" PROVE Closed
  <2>0. run \in RunFiles /\ "abandoned" \in RunStatuses /\ "completed" \in RunStatuses
    BY <1>1 DEF TypeOK, RunStatuses
  <2>1. CASE run' = run
    BY <1>1, <2>1
  <2>2. CASE RegisterRun
    <3>1. SaveRun([run EXCEPT !.file = "ok", !.updated = "fresh"], "create", "boot")
      BY <2>2 DEF RegisterRun
    <3>2. [run EXCEPT !.file = "ok", !.updated = "fresh"].status = "completed"
      BY <1>1, <2>0 DEF RunFiles
    <3> QED
      BY <1>1, <3>1, <3>2, SaveRunStatus
  <2>3. CASE Heartbeat
    <3>1. SaveRun([run EXCEPT !.heartbeat = "fresh", !.updated = "fresh"], "idle", "idle")
      BY <2>3 DEF Heartbeat
    <3>2. [run EXCEPT !.heartbeat = "fresh", !.updated = "fresh"].status = "completed"
      BY <1>1, <2>0 DEF RunFiles
    <3> QED
      BY <1>1, <3>1, <3>2, SaveRunStatus
  <2>4. CASE TimePasses \/ Crash
    BY <1>1, <2>0, <2>4 DEF TimePasses, Crash, RunFiles
  <2>5. CASE DetectCrash
    BY <1>1, <2>1, <2>5 DEF DetectCrash
  <2>6. ASSUME NEW m \in Modes, BeginReconciling(m) PROVE FALSE
    BY <1>1, <2>6 DEF BeginReconciling, Resumable
  <2>7. CASE MarkRecoverable \/ MarkRunFailed \/ MarkCrashed \/ MarkRunCompleted
    BY <1>1, <2>7 DEF MarkRecoverable, MarkRunFailed, MarkCrashed, MarkRunCompleted
  <2>8. CASE AskUser \/ BeginResuming \/ EndDryRun \/ FinishResume
    BY <1>1, <2>8 DEF AskUser, BeginResuming, EndDryRun, FinishResume, IndInv,
       ResumeUnderWay
  <2>9. CASE MarkRunAbandoned
    <3>1. PICK p : SaveRun(WithStatus("abandoned"), p, p)
      BY <2>9 DEF MarkRunAbandoned
    <3> QED
      BY <1>1, <2>0, <3>1, SaveRunStatus, WithStatusFile
  <2>10. ASSUME NEW s \in RunStatuses, Transition(s) PROVE FALSE
    <3>1. s \in ValidTransitions["completed"]
      BY <1>1, <2>10 DEF Transition
    <3> QED
      BY <2>0, <3>1 DEF ValidTransitions
  <2>11. CASE CreateJournal \/ Restart
    BY <2>1, <2>11 DEF CreateJournal, Restart
  <2>12. CASE Execute
    BY <2>1, <2>12 DEF Execute, RecordIntent, RecordStart, BeginOperation,
       RecordProgress, FinishOperation, OperationRaises, RecordCompletion,
       RecordFailure
  <2>13. ASSUME NEW o \in Ops, ReconcileOne(o) PROVE Closed
    BY <2>1, <2>13 DEF ReconcileOne
  <2>14. CASE MarkAllStartedAsUnknown
    BY <2>1, <2>14 DEF MarkAllStartedAsUnknown
  <2> QED
    BY <1>1, <2>2, <2>3, <2>4, <2>5, <2>6, <2>7, <2>8, <2>9, <2>10, <2>11,
       <2>12, <2>13, <2>14 DEF Next, Recover, SetStatus
<1>2. TypeOK /\ IndInv /\ [Next]_vars =>
        [run.status = "completed" => run'.status \in {"completed", "abandoned"}]_vars
  BY <1>1
<1> QED
  BY <1>2, Invariant, TypeCorrect, PTL DEF Spec, CompletedIsNotReopened

-----------------------------------------------------------------------------
(* The journal is written ahead.                                           *)

(* What WriteAhead says of a step.                                         *)
Ahead ==
  \A o \in Ops :
    /\ executed'[o] # executed[o] =>
         disk.file = "ok" /\ disk.ops[o] \in {"started", "progress"}
    /\ disk.ops[o] \in Recorded /\ disk'.file # "torn" =>
         disk'.ops[o] \in Recorded

(* What the file has a record of, the executor finds one of.               *)
LEMMA RecordIsRead ==
  ASSUME CacheKnowsRecords, NEW o \in Ops, disk.ops[o] \in Recorded
  PROVE  Journal[o] \in Recorded
BY DEF CacheKnowsRecords, Journal

(* A save that drops no record of the file.                                *)
LEMMA RecordSave ==
  ASSUME CacheKnowsRecords, NEW j \in Journals, NEW ok, NEW err,
         SaveJournal(j, ok, err), UNCHANGED executed,
         \A o \in Ops : disk.ops[o] \in Recorded => j[o] \in Recorded
  PROVE  CacheKnowsRecords' /\ Ahead
<1>1. \/ disk' = disk
      \/ disk' = TornFile
      \/ disk' = [file |-> "ok", ops |-> j]
  BY DEF SaveJournal
<1>2. cache' = [loaded |-> TRUE, ops |-> j]
  BY DEF SaveJournal
<1>3. ASSUME NEW o \in Ops PROVE TornFile.ops[o] \notin Recorded /\ TornFile.file = "torn"
  BY DEF TornFile, NoOps, Recorded
<1>4. CacheKnowsRecords'
  BY <1>1, <1>2, <1>3 DEF CacheKnowsRecords
<1>5. Ahead
  BY <1>1, <1>3 DEF Ahead
<1> QED
  BY <1>4, <1>5

(* Every step keeps the records and takes effect only under way.           *)
LEMMA WriteAheadStep ==
  ASSUME TypeOK, IndInv, CacheKnowsRecords, [Next]_vars
  PROVE  CacheKnowsRecords' /\ Ahead
<1>h. \A o \in Ops : disk.ops[o] \in Recorded => Journal[o] \in Recorded
  BY RecordIsRead
<1>j. Journal \in Journals
  BY JournalType
<1>1. ASSUME UNCHANGED <<disk, executed>>,
             cache' = [loaded |-> HasJournal, ops |-> Journal]
      PROVE  CacheKnowsRecords' /\ Ahead
  <2>1. Ahead
    BY <1>1 DEF Ahead
  <2>2. CacheKnowsRecords'
    BY <1>1, <1>h DEF CacheKnowsRecords
  <2> QED
    BY <2>1, <2>2
<1>2. ASSUME UNCHANGED <<disk, cache, executed>> PROVE CacheKnowsRecords' /\ Ahead
  BY <1>2 DEF CacheKnowsRecords, Ahead
<1>3. ASSUME NEW s \in OperationStatuses, NEW ok, NEW err,
             UpdateStatus(s, ok, err), UNCHANGED executed, s \in Recorded
      PROVE  CacheKnowsRecords' /\ Ahead
  <2> DEFINE j == [Journal EXCEPT ![cur] = s]
  <2>1. /\ j \in Journals /\ SaveJournal(j, ok, err)
        /\ \A o \in Ops : disk.ops[o] \in Recorded => j[o] \in Recorded
    BY <1>3, <1>h, <1>j DEF UpdateStatus, Journals
  <2> HIDE DEF j
  <2> QED
    BY <1>3, <2>1, RecordSave
<1>4. CASE CreateJournal
  <2>1. NoOps \in Journals /\ SaveJournal(NoOps, "idle", "idle")
        /\ UNCHANGED executed
    BY <1>4 DEF CreateJournal, NoOps, Journals, OperationStatuses, world
  <2>2. \A o \in Ops : Held(o) = {"none"}
    BY <1>4 DEF CreateJournal, IndInv, CreatedFirst, IssuedOnce
  <2>3. \A o \in Ops : disk.ops[o] \notin Recorded
    BY <2>2, JournalIsHeld DEF Recorded
  <2> QED
    BY <2>1, <2>3, RecordSave
<1>5. ASSUME NEW q \in Ops, RecordIntent(q) PROVE CacheKnowsRecords' /\ Ahead
  <2> DEFINE j == [Journal EXCEPT ![q] = "intent"]
  <2>1. /\ SaveJournal(j, "intent", "idle") /\ UNCHANGED executed
        /\ Held(q) = {"none"}
    BY <1>5 DEF RecordIntent, IndInv, IssuedOnce
  <2>2. disk.ops[q] \notin Recorded
    BY <2>1, JournalIsHeld DEF Recorded
  <2>3. /\ j \in Journals
        /\ \A o \in Ops : disk.ops[o] \in Recorded => j[o] \in Recorded
    BY <1>h, <1>j, <2>2 DEF Journals, OperationStatuses
  <2> HIDE DEF j
  <2> QED
    BY <2>1, <2>3, RecordSave
<1>6. CASE RecordStart \/ RecordProgress \/ RecordCompletion \/ RecordFailure
  BY <1>3, <1>6 DEF RecordStart, RecordProgress, RecordCompletion,
                    RecordFailure, OperationStatuses, Recorded, world
<1>7. ASSUME UNCHANGED <<disk, cache>>, pc \in {"started", "acting"},
             \A o \in Ops : o # cur => executed'[o] = executed[o]
      PROVE  CacheKnowsRecords' /\ Ahead
  <2>1. cur \in Ops /\ Held(cur) \subseteq {"started", "progress"}
    BY <1>7 DEF IndInv, UnderWay, TypeOK
  <2>2. disk.ops[cur] \in {"started", "progress"} /\ disk.ops[cur] \in Recorded
    BY <2>1, JournalIsHeld DEF Recorded, OperationStatuses
  <2>3. disk.file = "ok"
    BY <2>1, <2>2 DEF CacheKnowsRecords
  <2> QED
    BY <1>7, <2>2, <2>3 DEF CacheKnowsRecords, Ahead
<1>8. CASE BeginOperation \/ FinishOperation
  BY <1>7, <1>8 DEF BeginOperation, FinishOperation, local, TypeOK
<1>9. CASE MarkAllStartedAsUnknown
  <2> DEFINE started == {q \in Ops : Journal[q] = "started"}
             marked  == [p \in Ops |-> IF p \in started THEN "unknown"
                                                        ELSE Journal[p]]
  <2>1. UNCHANGED executed
    BY <1>9 DEF MarkAllStartedAsUnknown, world
  <2>2. CASE started = {}
    BY <1>1, <2>1, <1>9, <2>2 DEF MarkAllStartedAsUnknown
  <2>3. CASE started # {}
    <3>1. SaveJournal(marked, "recoverable", "boot")
      BY <1>9, <2>3 DEF MarkAllStartedAsUnknown
    <3>2. marked \in Journals
      BY <1>j DEF Journals, OperationStatuses
    <3>3. \A o \in Ops : disk.ops[o] \in Recorded => marked[o] \in Recorded
      BY <1>h DEF Recorded, OperationStatuses
    <3> HIDE DEF marked
    <3> QED
      BY <2>1, <3>1, <3>2, <3>3, RecordSave
  <2> QED
    BY <2>2, <2>3
<1>10. ASSUME NEW m \in Modes, BeginReconciling(m) PROVE CacheKnowsRecords' /\ Ahead
  <2>1. /\ UNCHANGED <<disk, world>>
        /\ cache' = [loaded |-> HasJournal, ops |-> Journal]
    BY <1>10 DEF BeginReconciling
  <2> QED
    BY <1>1, <2>1 DEF world
<1>11. ASSUME NEW q \in Ops, ReconcileOne(q) PROVE CacheKnowsRecords' /\ Ahead
  <2> DEFINE s == Reconcile(OpType[q], target[q]).status
             j == [Journal EXCEPT ![q] = s]
  <2>1. SaveJournal(j, "reconcile", "boot") /\ UNCHANGED executed
    BY <1>11 DEF ReconcileOne, world
  <2>2. s \in Recorded /\ s \in OperationStatuses
    BY ReconcileStatus DEF Recorded, OperationStatuses
  <2> HIDE DEF s
  <2>3. /\ j \in Journals
        /\ \A o \in Ops : disk.ops[o] \in Recorded => j[o] \in Recorded
    BY <1>h, <1>j, <2>2 DEF Journals
  <2> HIDE DEF j
  <2> QED
    BY <2>1, <2>3, RecordSave
<1>12. CASE Crash
  <2>1. /\ cache' = NoCache /\ UNCHANGED executed
        /\ disk' = disk \/ disk' = TornFile
    BY <1>12 DEF Crash
  <2>2. \A o \in Ops : TornFile.ops[o] \notin Recorded
    BY DEF TornFile, NoOps, Recorded
  <2>3. TornFile.file = "torn"
    BY DEF TornFile
  <2>4. CacheKnowsRecords'
    BY <2>1, <2>2 DEF CacheKnowsRecords, NoCache
  <2>5. Ahead
    BY <2>1, <2>3 DEF Ahead
  <2> QED
    BY <2>4, <2>5
<1>13. CASE RegisterRun \/ Heartbeat \/ TimePasses \/ SetStatus \/ Restart
  BY <1>2, <1>13 DEF RegisterRun, Heartbeat, TimePasses, SetStatus, Restart,
     MarkRunCompleted, MarkRunFailed, MarkRunAbandoned, MarkCrashed, Transition,
     world
<1>14. CASE OperationRaises \/ DetectCrash \/ MarkRecoverable \/ AskUser
            \/ BeginResuming \/ EndDryRun \/ FinishResume \/ UNCHANGED vars
  BY <1>2, <1>14 DEF OperationRaises, DetectCrash, MarkRecoverable, AskUser,
     BeginResuming, EndDryRun, FinishResume, world, vars
<1> QED
  BY <1>4, <1>5, <1>6, <1>8, <1>9, <1>10, <1>11, <1>12, <1>13, <1>14
  DEF Next, Execute, Recover

(* For any operations, calls and faults, torn files among them: no         *)
(* operation takes effect unless the journal file says it is under way,    *)
(* and a record is lost only with the whole file.                          *)
THEOREM JournalIsAhead == Spec => WriteAhead
<1>1. Init => CacheKnowsRecords
  BY DEF Init, CacheKnowsRecords, Recorded, NoOps
<1>2. TypeOK /\ IndInv /\ CacheKnowsRecords /\ [Next]_vars
        => CacheKnowsRecords' /\ Ahead
  BY WriteAheadStep
<1>3. Ahead =>
      [\A o \in Ops :
         /\ executed'[o] # executed[o] =>
              disk.file = "ok" /\ disk.ops[o] \in {"started", "progress"}
         /\ disk.ops[o] \in Recorded /\ disk'.file # "torn" =>
              disk'.ops[o] \in Recorded]_vars
  BY DEF Ahead
<1> QED
  BY <1>1, <1>2, <1>3, Invariant, TypeCorrect, PTL DEF Spec, WriteAhead

-----------------------------------------------------------------------------
(* Counting crashes, for callers that leave the status to detection,       *)
(* recovery and completion.                                                *)

(* Saving the journal moves the process and nothing that is counted.       *)
LEMMA JournalSaveMoves ==
  ASSUME NEW j, NEW ok, NEW err, SaveJournal(j, ok, err)
  PROVE  pc' \in {ok, err}
BY DEF SaveJournal

(* A save of the run writes it, or leaves it as it was or torn.            *)
LEMMA RunSaveCases ==
  ASSUME TypeOK, NEW r, NEW ok, NEW err, SaveRun(r, ok, err)
  PROVE  \/ run' = r /\ pc' = ok
         \/ /\ pc' = err
            /\ run' = run \/ run'.file = "torn"
            /\ run'.status = run.status
            /\ run'.crash_count = run.crash_count
            /\ run'.resume_count = run.resume_count
BY DEF SaveRun, SaveRaises, TypeOK, RunFiles

(* Each action keeps the counts in step with the status and the deaths.    *)
LEMMA CountingStep ==
  ASSUME Calls \cap {"mark_crashed", "transition", "mark_run_failed",
                     "mark_run_abandoned"} = {},
         "dry_run" \notin Modes,
         TypeOK, Counting, [Next]_vars
  PROVE  Counting'
<1> USE DEF Counting
<1>t. /\ run \in RunFiles /\ run.crash_count \in Nat
      /\ run.resume_count \in Nat /\ crashes \in Nat
  BY DEF TypeOK, RunFiles
<1>1. ASSUME UNCHANGED <<run, crashes, mode>>,
             \/ pc' = pc
             \/ pc \in Working /\ pc' \in Working
             \/ pc \in {"mark", "recoverable"} /\ pc' = "recoverable"
             \/ pc \in {"mark", "reconcile", "recoverable", "resuming"}
                /\ pc' = "boot"
             \/ pc = "create" /\ pc' = "idle"
             \/ pc = "off" /\ pc' = "boot"
      PROVE  Counting'
  BY <1>1, <1>t DEF CountedByStatus, StatusOfStep, DeathsUncounted, Working
<1>2. CASE RegisterRun
  <2> DEFINE r == [run EXCEPT !.file = "ok", !.updated = "fresh"]
  <2>1. /\ SaveRun(r, "create", "boot") /\ pc = "boot" /\ run.file = "absent"
        /\ UNCHANGED <<crashes, mode>>
    BY <1>2 DEF RegisterRun, local
  <2>2. /\ r.status = run.status /\ r.crash_count = run.crash_count
        /\ r.resume_count = run.resume_count
    BY <1>t DEF RunFiles
  <2>3. run.status \in {"running", "completed"}
    BY <1>2 DEF RegisterRun, StatusOfStep
  <2> HIDE DEF r
  <2> QED
    BY <2>1, <2>2, <2>3, <1>t, RunSaveCases
    DEF CountedByStatus, StatusOfStep, DeathsUncounted, Working
<1>3. CASE CreateJournal
  BY <1>1, <1>3, JournalSaveMoves DEF CreateJournal, local
<1>4. CASE Execute
  <2>1. UNCHANGED <<run, crashes, mode>>
    BY <1>4 DEF Execute, RecordIntent, RecordStart, BeginOperation,
       RecordProgress, FinishOperation, OperationRaises, RecordCompletion,
       RecordFailure, world, local
  <2>2. pc \in Working
    BY <1>4 DEF Execute, RecordIntent, RecordStart, BeginOperation,
       RecordProgress, FinishOperation, OperationRaises, RecordCompletion,
       RecordFailure, Working
  <2>3. pc' \in Working
    <3>1. ASSUME NEW o \in Ops, RecordIntent(o) PROVE pc' \in Working
      BY <3>1, JournalSaveMoves DEF RecordIntent, Working
    <3>2. CASE RecordStart \/ RecordProgress \/ RecordCompletion
               \/ RecordFailure
      BY <3>2, JournalSaveMoves DEF RecordStart, RecordProgress,
         RecordCompletion, RecordFailure, UpdateStatus, Working
    <3>3. CASE BeginOperation \/ FinishOperation \/ OperationRaises
      BY <3>3 DEF BeginOperation, FinishOperation, OperationRaises, Working
    <3> QED
      BY <1>4, <3>1, <3>2, <3>3 DEF Execute
  <2> QED
    BY <1>1, <2>1, <2>2, <2>3
<1>5. CASE Heartbeat
  BY <1>5, <1>t DEF local, Heartbeat, SaveRun, SaveRaises, CountedByStatus,
     StatusOfStep, DeathsUncounted, Working, RunFiles
<1>6. CASE TimePasses
  BY <1>6, <1>t DEF local, TimePasses, CountedByStatus, StatusOfStep,
     DeathsUncounted, RunFiles
<1>7. CASE DetectCrash
  <2> DEFINE r == [run EXCEPT !.status = "crashed", !.crash_count = @ + 1]
  <2>1. /\ r.status = "crashed" /\ r.crash_count = run.crash_count + 1
        /\ r.resume_count = run.resume_count /\ r.file = run.file
    BY <1>t DEF RunFiles
  <2>2. CASE run.status = "crashed" /\ pc' = "mark" /\ UNCHANGED run
    BY <1>7, <2>2 DEF DetectCrash, local, CountedByStatus, StatusOfStep,
       DeathsUncounted, Working
  <2>3. CASE run.status = "running" /\ SaveRun(r, "mark", "boot")
    <3>1. /\ UNCHANGED <<crashes, mode>> /\ pc = "boot" /\ run.file = "ok"
      BY <1>7 DEF DetectCrash, local
    <3> HIDE DEF r
    <3>2. CASE run' = r /\ pc' = "mark"
      <4>1. run.crash_count = run.resume_count /\ run.crash_count < crashes
        BY <2>3, <3>1 DEF CountedByStatus, DeathsUncounted
      <4>2. /\ run'.status = "crashed" /\ run'.file # "absent"
            /\ run'.crash_count = run'.resume_count + 1
            /\ run'.crash_count =< crashes'
        BY <2>1, <2>3, <3>1, <3>2, <4>1, <1>t
      <4> QED
        BY <3>1, <3>2, <4>2
        DEF CountedByStatus, StatusOfStep, DeathsUncounted, Working
    <3>3. CASE /\ pc' = "boot"
               /\ run' = run \/ run'.file = "torn"
               /\ run'.status = run.status
               /\ run'.crash_count = run.crash_count
               /\ run'.resume_count = run.resume_count
      BY <2>3, <3>1, <3>3, <1>t
      DEF CountedByStatus, StatusOfStep, DeathsUncounted, Working
    <3> QED
      BY <2>3, <3>2, <3>3, RunSaveCases
  <2> QED
    BY <1>7, <2>2, <2>3 DEF DetectCrash
<1>8. CASE MarkAllStartedAsUnknown
  <2>1. UNCHANGED <<run, crashes, mode>> /\ pc = "mark"
    BY <1>8 DEF MarkAllStartedAsUnknown, local
  <2>2. pc' \in {"recoverable", "boot"}
    BY <1>8, JournalSaveMoves DEF MarkAllStartedAsUnknown
  <2> QED
    BY <1>1, <2>1, <2>2
<1>9. CASE MarkRecoverable
  BY <1>9, <1>t DEF local, MarkRecoverable, SaveRun, SaveRaises, WithStatus,
     CountedByStatus, StatusOfStep, DeathsUncounted, Working, RunFiles
<1>10. ASSUME NEW m \in Modes, BeginReconciling(m) PROVE Counting'
  BY <1>10, <1>t DEF BeginReconciling, ForgetResume, Resumable, SaveRun, SaveRaises,
     WithStatus, CountedByStatus, StatusOfStep, DeathsUncounted, Working,
     RunFiles
<1>11. ASSUME NEW o \in Ops, ReconcileOne(o) PROVE Counting'
  <2>1. UNCHANGED <<run, crashes, mode>> /\ pc = "reconcile"
    BY <1>11 DEF ReconcileOne
  <2>2. pc' \in {"reconcile", "boot"}
    BY <1>11, JournalSaveMoves DEF ReconcileOne
  <2> QED
    BY <1>1, <2>1, <2>2
<1>12. CASE AskUser \/ BeginResuming \/ EndDryRun \/ FinishResume
  <2>1. CASE AskUser
    BY <2>1, <1>t DEF AskUser, ForgetResume, local, SaveRun, SaveRaises, WithStatus,
       CountedByStatus, StatusOfStep, DeathsUncounted, Working, RunFiles
  <2>2. CASE BeginResuming
    BY <2>2, <1>t DEF BeginResuming, local, SaveRun, SaveRaises, WithStatus,
       CountedByStatus, StatusOfStep, DeathsUncounted, Working, RunFiles
  <2>3. CASE EndDryRun
    BY <2>3, <1>t DEF EndDryRun
  <2>4. CASE FinishResume
    BY <2>4, <1>t DEF FinishResume, ForgetResume, local, SaveRun, SaveRaises, WithStatus,
       CountedByStatus, StatusOfStep, DeathsUncounted, Working, RunFiles
  <2> QED
    BY <1>12, <2>1, <2>2, <2>3, <2>4
<1>13. CASE MarkRunCompleted
  BY <1>13, <1>t DEF local, MarkRunCompleted, SaveRun, SaveRaises, WithStatus,
     CountedByStatus, StatusOfStep, DeathsUncounted, Working, RunFiles
<1>14. CASE Crash
  BY <1>14, <1>t DEF Crash, ForgetResume, CountedByStatus, StatusOfStep, DeathsUncounted,
     Working, RunFiles
<1>15. CASE Restart \/ UNCHANGED vars
  BY <1>1, <1>15 DEF Restart, vars, local
<1>16. ~MarkRunFailed /\ ~MarkRunAbandoned /\ ~MarkCrashed
       /\ \A s \in RunStatuses : ~Transition(s)
  BY DEF MarkRunFailed, MarkRunAbandoned, MarkCrashed, Transition
<1> QED
  BY <1>2, <1>3, <1>4, <1>5, <1>6, <1>7, <1>8, <1>9, <1>10, <1>11, <1>12,
     <1>13, <1>14, <1>15, <1>16
  DEF Next, Recover, SetStatus

(* If nobody sets the status outright and no resume is a dry run, a crash  *)
(* is counted once, and a resume only answers a crash that was counted,    *)
(* however often detection and recovery raise, die or are repeated.        *)
THEOREM CountedOnce ==
  ASSUME Calls \cap {"mark_crashed", "transition", "mark_run_failed",
                     "mark_run_abandoned"} = {},
         "dry_run" \notin Modes
  PROVE  Spec => []CrashesCountedOnce
<1>1. Init => Counting
  BY DEF Init, Counting, CountedByStatus, StatusOfStep, DeathsUncounted,
     Working
<1>2. TypeOK /\ Counting /\ [Next]_vars => Counting'
  BY CountingStep
<1>3. TypeOK /\ Counting => CrashesCountedOnce
  BY DEF TypeOK, RunFiles, Counting, CountedByStatus, DeathsUncounted,
     CrashesCountedOnce
<1> QED
  BY <1>1, <1>2, <1>3, TypeCorrect, PTL DEF Spec

-----------------------------------------------------------------------------
(* What recovery leaves behind, for callers that keep to its documented    *)
(* order, as long as no save raised.                                       *)

(* Callers send heartbeats and report progress beside the documented order *)
(* of detection, recovery and resumption, and no resume is a dry run.      *)
Orderly == /\ Calls \subseteq {"heartbeat", "record_progress"}
           /\ "dry_run" \notin Modes

(* When no save has raised by now, this one has not and none had before.   *)
LEMMA NoSaveRaised ==
  ASSUME TypeOK, [Next]_vars, saveErrors' = 0 PROVE saveErrors = 0
<1>1. saveErrors \in Nat /\ (saveErrors' = saveErrors \/ saveErrors' = saveErrors + 1)
  BY DEF TypeOK, Next, RegisterRun, CreateJournal, Execute, RecordIntent, RecordStart, BeginOperation,
     RecordProgress, FinishOperation, OperationRaises, RecordCompletion, RecordFailure, Heartbeat, TimePasses,
     Recover, DetectCrash, MarkAllStartedAsUnknown, MarkRecoverable, BeginReconciling, ReconcileOne, AskUser,
     BeginResuming, EndDryRun, FinishResume, SetStatus, MarkRunCompleted, MarkRunFailed, MarkRunAbandoned,
     MarkCrashed, Transition, Crash, Restart, vars, UpdateStatus, SaveJournal, SaveRun, SaveRaises
<1> QED
  BY <1>1

(* When no save raises, saving the journal stores it and goes on.          *)
LEMMA CleanSave ==
  ASSUME saveErrors' = 0, TypeOK, NEW j, NEW ok, NEW err, SaveJournal(j, ok, err)
  PROVE  /\ cache' = [loaded |-> TRUE, ops |-> j]
         /\ disk' = [file |-> "ok", ops |-> j]
         /\ pc' = ok
BY DEF TypeOK, SaveJournal, SaveRaises

(* When no save raises, saving the run file stores it and goes on.         *)
LEMMA CleanSaveRun ==
  ASSUME saveErrors' = 0, TypeOK, NEW r, NEW ok, NEW err, SaveRun(r, ok, err)
  PROVE  run' = r /\ pc' = ok
BY DEF TypeOK, SaveRun, SaveRaises

(* Between saves that do not raise, the cache is no different from a       *)
(* readable journal file.                                                  *)
LEMMA JournalIsFile ==
  ASSUME Swept PROVE Journal = disk.ops
BY DEF Swept, Journal

(* The steps of the executor.                                              *)
LEMMA SweptExecute ==
  ASSUME Orderly, saveErrors' = 0, TypeOK, Swept, StatusOfStep, Execute PROVE Swept'
<1> USE DEF Swept
<1>j. Journal = disk.ops /\ disk.ops \in Journals
  BY JournalIsFile DEF TypeOK
<1>c. cur \in Ops
  BY DEF TypeOK
<1>1. ASSUME NEW s \in OperationStatuses \ {"unknown"},
             NEW ok \in Working, NEW err,
             UpdateStatus(s, ok, err), UNCHANGED <<run, owner, cur>>,
             pc \in {"intent", "started", "acting", "acted", "raised"}
      PROVE  Swept'
  <2> DEFINE j == [Journal EXCEPT ![cur] = s]
  <2>1. SaveJournal(j, ok, err)
    BY <1>1 DEF UpdateStatus
  <2>2. \A o \in Ops : j[o] = IF o = cur THEN s ELSE disk.ops[o]
    BY <1>j, <1>c DEF Journals
  <2> HIDE DEF j
  <2>3. cache'.ops = j /\ disk'.ops = j /\ pc' = ok
    BY <2>1, CleanSave
  <2>4. run.status \in {"running", "completed"}
    BY <1>1 DEF StatusOfStep, Working
  <2>5. owner[cur] = "mine"
    BY <1>1
  <2>6. OrphansDecided'
    BY <1>1, <2>2, <2>3, <2>5 DEF OrphansDecided, Working
  <2> QED
    BY <1>1, <2>2, <2>3, <2>4, <2>5, <2>6 DEF Working
<1>2. ASSUME NEW o \in Ops, RecordIntent(o) PROVE Swept'
  <2> DEFINE j == [Journal EXCEPT ![o] = "intent"]
  <2>1. /\ SaveJournal(j, "intent", "idle") /\ pc = "idle"
        /\ owner' = [owner EXCEPT ![o] = "mine"] /\ cur' = o
        /\ run' = run
    BY <1>2 DEF RecordIntent
  <2>2. \A q \in Ops : j[q] = IF q = o THEN "intent" ELSE disk.ops[q]
    BY <1>j DEF Journals
  <2> HIDE DEF j
  <2>3. cache'.ops = j /\ disk'.ops = j /\ pc' = "intent"
    BY <2>1, CleanSave
  <2>4. run.status \in {"running", "completed"}
    BY <2>1 DEF StatusOfStep, Working
  <2>5. \A q \in Ops : owner'[q] = IF q = o THEN "mine" ELSE owner[q]
    BY <2>1 DEF TypeOK
  <2>6. OrphansDecided'
    BY <2>1, <2>2, <2>3, <2>5 DEF OrphansDecided, Working
  <2> QED
    BY <2>1, <2>2, <2>3, <2>4, <2>5, <2>6
<1>3. CASE RecordStart
  BY <1>1, <1>3 DEF RecordStart, world, local, Working, OperationStatuses
<1>4. CASE RecordCompletion
  BY <1>1, <1>4 DEF RecordCompletion, world, local, Working, OperationStatuses
<1>5. CASE RecordFailure
  BY <1>1, <1>5 DEF RecordFailure, world, local, Working, OperationStatuses
<1>6. CASE BeginOperation \/ FinishOperation \/ OperationRaises
  BY <1>6 DEF BeginOperation, FinishOperation, OperationRaises, world, local,
     OrphansDecided, Working
<1>7. CASE RecordProgress
  BY <1>1, <1>7 DEF RecordProgress, world, local, Working, OperationStatuses
<1> QED
  BY <1>2, <1>3, <1>4, <1>5, <1>6, <1>7 DEF Execute

(* The steps of detection and resume().                                    *)
LEMMA SweptRecover ==
  ASSUME Orderly, saveErrors' = 0, TypeOK, Swept, StatusOfStep, Recover PROVE Swept'
<1> USE DEF Swept
<1>j. Journal = disk.ops /\ disk.ops \in Journals
  BY JournalIsFile DEF TypeOK
<1>r. run \in RunFiles
  BY DEF TypeOK
<1>1. CASE DetectCrash
  <2>1. /\ UNCHANGED <<disk, cache, world, local>> /\ pc = "boot"
        /\ pc' = "mark" /\ run'.status = "crashed"
    BY <1>1, <1>r, CleanSaveRun DEF DetectCrash, RunFiles
  <2> QED
    BY <2>1 DEF OrphansDecided, Working, world, local
<1>2. CASE MarkAllStartedAsUnknown
  <2> DEFINE started == {o \in Ops : Journal[o] = "started"}
             marked  == [o \in Ops |-> IF o \in started THEN "unknown"
                                                        ELSE Journal[o]]
  <2>1. UNCHANGED <<run, world, local>> /\ run.status = "crashed"
    BY <1>2 DEF MarkAllStartedAsUnknown, StatusOfStep
  <2>2. CASE started = {}
    <3>1. /\ cache'.ops = Journal /\ pc' = "recoverable" /\ disk' = disk
      BY <1>2, <2>2 DEF MarkAllStartedAsUnknown
    <3> QED
      BY <1>j, <2>1, <2>2, <3>1 DEF OrphansDecided, Working
  <2>3. CASE started # {}
    <3>1. SaveJournal(marked, "recoverable", "boot")
      BY <1>2, <2>3 DEF MarkAllStartedAsUnknown
    <3>2. \A o \in Ops : marked[o] # "started"
      BY <1>j
    <3> HIDE DEF marked
    <3>3. cache'.ops = marked /\ disk'.ops = marked /\ pc' = "recoverable"
      BY <3>1, CleanSave
    <3> QED
      BY <2>1, <3>2, <3>3 DEF OrphansDecided, Working
  <2> QED
    BY <2>2, <2>3
<1>3. CASE MarkRecoverable
  <2>1. /\ UNCHANGED <<disk, cache, world, local>> /\ pc = "recoverable"
        /\ pc' = "boot"
    BY <1>3, CleanSaveRun DEF MarkRecoverable
  <2> QED
    BY <2>1 DEF OrphansDecided, Working, world, local
<1>4. ASSUME NEW m \in Modes, BeginReconciling(m) PROVE Swept'
  <2>1. /\ UNCHANGED <<disk, world>> /\ cache'.ops = Journal
        /\ todo' = {o \in Ops : Journal[o] = "unknown"}
        /\ pc' = "reconcile" /\ run.status = "recoverable"
    BY <1>4, CleanSaveRun DEF BeginReconciling, Orderly
  <2> QED
    BY <1>j, <2>1 DEF OrphansDecided, Working, world
<1>5. ASSUME NEW q \in Ops, ReconcileOne(q) PROVE Swept'
  <2> DEFINE s == Reconcile(OpType[q], target[q]).status
             j == [Journal EXCEPT ![q] = s]
  <2>1. /\ SaveJournal(j, "reconcile", "boot") /\ pc = "reconcile"
        /\ todo' = todo \ {q} /\ UNCHANGED <<run, world>>
    BY <1>5 DEF ReconcileOne
  <2>2. s \notin {"started", "progress", "unknown"}
    BY ReconcileStatus
  <2> HIDE DEF s
  <2>3. \A o \in Ops : j[o] = IF o = q THEN s ELSE disk.ops[o]
    BY <1>j DEF Journals
  <2> HIDE DEF j
  <2>4. cache'.ops = j /\ disk'.ops = j /\ pc' = "reconcile"
    BY <2>1, CleanSave
  <2>5. run.status = "reconciling"
    BY <2>1 DEF StatusOfStep
  <2> QED
    BY <2>1, <2>2, <2>3, <2>4, <2>5 DEF OrphansDecided, Working
<1>6. CASE AskUser
  <2>1. /\ UNCHANGED <<disk, cache, world>> /\ pc = "reconcile" /\ pc' = "boot"
    BY <1>6, CleanSaveRun DEF AskUser
  <2>2. run.status = "reconciling"
    BY <2>1 DEF StatusOfStep
  <2> QED
    BY <2>1, <2>2 DEF OrphansDecided, Working, world
<1>7. CASE BeginResuming
  <2>1. /\ UNCHANGED <<disk, cache, world>> /\ pc = "reconcile"
        /\ pc' = "resuming" /\ todo = {}
    BY <1>7, CleanSaveRun DEF BeginResuming
  <2>2. run.status = "reconciling"
    BY <2>1 DEF StatusOfStep
  <2> QED
    BY <2>1, <2>2 DEF OrphansDecided, Working, world
<1>8. CASE EndDryRun \/ FinishResume
  <2>1. /\ UNCHANGED <<disk, cache, world>> /\ pc = "resuming"
        /\ pc' \in {"boot", "idle"}
    BY <1>8, CleanSaveRun DEF EndDryRun, FinishResume
  <2>2. run.status = "resuming"
    BY <2>1 DEF StatusOfStep
  <2> QED
    BY <2>1, <2>2 DEF OrphansDecided, Working, world
<1> QED
  BY <1>1, <1>2, <1>3, <1>4, <1>5, <1>6, <1>7, <1>8 DEF Recover

(* Every step of an orderly run.                                           *)
LEMMA SweptStep ==
  ASSUME Orderly, saveErrors' = 0, TypeOK, IndInv, Counting, Swept, [Next]_vars
  PROVE  Swept'
<1>s. StatusOfStep
  BY DEF Counting
<1>1. CASE Execute \/ Recover
  BY <1>1, <1>s, SweptExecute, SweptRecover
<1> USE DEF Swept
<1>2. CASE RegisterRun
  <2>1. /\ UNCHANGED <<disk, cache, world, local>> /\ pc' = "create"
        /\ pc = "boot" /\ run.file = "absent"
        /\ run' = [run EXCEPT !.file = "ok", !.updated = "fresh"]
    BY <1>2, CleanSaveRun DEF RegisterRun
  <2>2. run'.status = run.status
    BY <2>1 DEF TypeOK, RunFiles
  <2> QED
    BY <2>1, <2>2 DEF OrphansDecided, Working, world, local
<1>3. CASE CreateJournal
  <2>1. /\ SaveJournal(NoOps, "idle", "idle") /\ pc = "create"
        /\ UNCHANGED <<run, world, local>>
    BY <1>3 DEF CreateJournal
  <2>2. cache'.ops = NoOps /\ disk'.ops = NoOps /\ pc' = "idle"
    BY <2>1, CleanSave
  <2> QED
    BY <2>1, <2>2 DEF OrphansDecided, NoOps, world, local
<1>4. CASE Heartbeat \/ TimePasses
  <2>1. UNCHANGED <<disk, cache, world, local, pc>>
    BY <1>4, CleanSaveRun DEF Heartbeat, TimePasses
  <2>2. run'.status = run.status
    <3>1. CASE Heartbeat
      <4> DEFINE r == [run EXCEPT !.heartbeat = "fresh", !.updated = "fresh"]
      <4>1. SaveRun(r, "idle", "idle")
        BY <3>1 DEF Heartbeat
      <4>2. r.status = run.status
        BY DEF TypeOK, RunFiles
      <4> HIDE DEF r
      <4> QED
        BY <4>1, <4>2, CleanSaveRun
    <3>2. CASE TimePasses
      BY <3>2 DEF TimePasses, TypeOK, RunFiles
    <3> QED
      BY <1>4, <3>1, <3>2
  <2> QED
    BY <2>1, <2>2 DEF OrphansDecided, world, local
<1>5. CASE MarkRunCompleted
  <2>1. /\ UNCHANGED <<disk, cache, world, local>> /\ pc = "idle"
        /\ pc' = "idle" /\ run' = WithStatus("completed")
    BY <1>5, CleanSaveRun DEF MarkRunCompleted
  <2>2. run'.status = "completed"
    BY <2>1 DEF WithStatus, TypeOK, RunFiles
  <2> QED
    BY <2>1, <2>2 DEF OrphansDecided, world, local
<1>6. ~MarkRunFailed /\ ~MarkRunAbandoned /\ ~MarkCrashed
      /\ \A s \in RunStatuses : ~Transition(s)
  BY DEF MarkRunFailed, MarkRunAbandoned, MarkCrashed, Transition, Orderly
<1>7. CASE Crash
  <2>1. /\ pc' = "off" /\ cache' = NoCache
        /\ disk' = disk \/ disk'.ops = NoOps
        /\ run'.status = run.status
    BY <1>7 DEF Crash, TornFile, TypeOK, RunFiles
  <2>2. ~cache'.loaded
    BY <2>1 DEF NoCache
  <2>3. \A o \in Ops : disk'.ops[o] \in {disk.ops[o], "none"}
    BY <2>1 DEF NoOps
  <2>4. pc = "recoverable" => run.status = "crashed"
    BY <1>s DEF StatusOfStep
  <2> QED
    BY <2>1, <2>2, <2>3, <2>4 DEF OrphansDecided, Working
<1>8. CASE Restart \/ UNCHANGED vars
  BY <1>8 DEF Restart, vars, world, local, OrphansDecided, Working
<1> QED
  BY <1>1, <1>2, <1>3, <1>4, <1>5, <1>6, <1>7, <1>8 DEF Next, SetStatus

(* If callers run detection before they resume, then, as long as no save   *)
(* raised, a run that is RUNNING again has no operation of a dead process  *)
(* left STARTED or UNKNOWN, wherever processes died and whatever file a    *)
(* death destroyed.                                                        *)
THEOREM NothingForgotten ==
  ASSUME Orderly
  PROVE  Spec => []NoOrphans
<1> DEFINE Clean == saveErrors = 0 => Swept
<1>1. Init => Counting /\ Clean
  BY DEF Init, Counting, CountedByStatus, StatusOfStep, DeathsUncounted,
     Working, Swept, NoCache, NoOps, OrphansDecided
<1>2. TypeOK /\ IndInv /\ Counting /\ Clean /\ [Next]_vars
        => Counting' /\ Clean'
  <2> SUFFICES ASSUME TypeOK, IndInv, Counting, Clean, [Next]_vars PROVE Counting' /\ Clean'
    OBVIOUS
  <2>1. Counting'
    BY CountingStep DEF Orderly
  <2>2. ASSUME saveErrors' = 0 PROVE Swept'
    <3>1. Swept
      BY <2>2, NoSaveRaised
    <3> QED
      BY <2>2, <3>1, SweptStep
  <2> QED
    BY <2>1, <2>2
<1>3. Clean => NoOrphans
  BY DEF Swept, NoOrphans
<1> QED
  BY <1>1, <1>2, <1>3, TypeCorrect, Invariant, PTL DEF Spec
=============================================================================
