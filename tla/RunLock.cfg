SPECIFICATION FairSpec
CONSTANTS
  NoOne = NoOne
  Procs = {p1, p2}
  Forces = TRUE
  MaxCrashes = 2
INVARIANTS TypeOK
PROPERTIES ImplementsLease DeadHolderIsReplaced
CHECK_DEADLOCK FALSE
