SPECIFICATION Spec
CONSTANTS
    Components = {"gateway"}
    MaxIterations = 3  MaxToolCalls = 3  MaxConsecutiveFailures = 2  MaxNoProgress = 2  MaxBatch = 2
    MaxRepairAttempts = 2  MaxPlanRevisions = 1  RepeatWindow = 3  Commands = 2
    Engineering = TRUE  HasModel = TRUE  MaxRuns = 1
    CoreTools = {"tool"}  MaxTasks = 2
    StrategyLimit <- MCStrategyLimit  RecoveryAttempts = 4  PlannerAttempts = 3  PlannerReplans = 1
    MaxCycles = 3  MaxRecoveries = 2
    t1 = t1  t2 = t2  Threads = {t1, t2}  MaxRequests = 1  MaxRetries = 2
    Servers <- MCServers  Models = {"auto", "m2"}  NoRequest = NoRequest  MaxArrivals = 2
    FailureThreshold = 2  HalfOpenMax = 2  QuarantineThreshold = 2  BackoffAttempts = 1
INVARIANT RateLimitHolds
CHECK_DEADLOCK FALSE
