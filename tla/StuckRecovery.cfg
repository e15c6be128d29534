SPECIFICATION FairSpec
CONSTANTS
  o1 = o1
  o2 = o2
  o3 = o3
  Ops = {o1, o2}
  OpType <- MCOpType2
  InitialTargets <- MCTargets
  Modes = {"normal"}
  Calls = {}
  TornSaves = FALSE
  CrashInRecovery = TRUE
  MaxCrashes = 2
  MaxResumes = 2
  MaxSaveErrors = 0
PROPERTIES DeadRunIsResumed
CHECK_DEADLOCK FALSE
