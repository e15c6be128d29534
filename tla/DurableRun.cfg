SPECIFICATION Spec
CONSTANTS
  o1 = o1
  o2 = o2
  o3 = o3
  Ops = {o1, o2}
  OpType <- MCOpType2
  InitialTargets <- MCTargets
  Modes = {"normal", "dry_run", "reconcile"}
  Calls = {"record_progress", "direct_resume", "mark_crashed", "transition", "mark_run_failed", "mark_run_abandoned"}
  TornSaves = FALSE
  CrashInRecovery = TRUE
  MaxCrashes = 2
  MaxResumes = 2
  MaxSaveErrors = 1
INVARIANTS TypeOK JournalBeforeEffect VerdictsAreTrue
PROPERTIES OutcomesAreFinal CompletedIsNotReopened
CHECK_DEADLOCK FALSE
