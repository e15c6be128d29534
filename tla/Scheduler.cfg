SPECIFICATION FairSpec
CONSTANTS
  t1 = t1
  t2 = t2
  t3 = t3
  t4 = t4
  NoTask = NoTask
  Tasks = {t1, t2, t3, t4}
  MaxWorkers = 2
  MaxQueue = 3
  MaxPools = 2
INVARIANTS TypeOK BoundedConcurrency BoundedBacklog Accounting
PROPERTIES AcceptedTaskEnds
CHECK_DEADLOCK FALSE
