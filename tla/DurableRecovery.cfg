SPECIFICATION Spec
CONSTANTS
  o1 = o1
  o2 = o2
  o3 = o3
  Ops = {o1, o2, o3}
  OpType <- MCOpType
  InitialTargets <- MCTargets
  Modes = {"normal", "reconcile"}
  Calls = {"heartbeat", "record_progress"}
  TornSaves = TRUE
  CrashInRecovery = TRUE
  MaxCrashes = 2
  MaxResumes = 2
  MaxSaveErrors = 1
INVARIANTS CrashesCountedOnce NoOrphans
PROPERTIES WriteAhead
CHECK_DEADLOCK FALSE
