SPECIFICATION Spec
CONSTANTS
  NoOne = NoOne
  Procs = {p1, p2}
  Forces = FALSE
  MaxCrashes = 0
INVARIANTS SoleHolder
CHECK_DEADLOCK FALSE
