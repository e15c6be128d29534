SPECIFICATION Spec
CONSTANTS
    Components = {"subagents", "mcp", "bus", "log", "run", "checkpoints", "loop", "router", "git", "table", "capacity", "contention", "approvals",
             "security", "review", "release", "validation", "harness", "benchmark", "verification",
             "reality", "aggregation", "health"}
    p1 = p1  p2 = p2  q1 = q1  q2 = q2  Nobody = Nobody  Nothing = Nothing
    Agents = {p1, p2}  Roles = {q1, q2}  Executors = {1, 2}  RoleDefaults <- MCRoleDefaults
    BudgetOverrides <- MCBudgetOverrides  Reports = {"completed"}  Amounts = {1, 2}
    RemoteServers = {p1, p2}  StartTasks = {q1, q2}  McpTools = {"tool"}  McpIds = {"x"}  FullToolId <- MCFullToolId
    McpPolicies = {"allow", "ask"}  MaxProcesses = 2
    Emitters = {p1, p2}  Callbacks = {"good", "bad"}  EventTypes = {"a", "b"}  Filters = {{"a"}}  Faulty = {"bad"}
    MaxEmitted = 2  MaxSubscribers = 2  MaxKept = 1
    Recordable <- MCRecordable  MaxLog = 4  ThisRun = "r"  NoCap = "none"
    PlanLength = 2  HasStore = TRUE  MaxUpdates = 4  MaxSnapshots = 1
    RunIds = {"r1", "r2"}  Operations = {"o1"}  MaxCheckpoints = 2
    LoopCapabilities = {"a", "b", "c", "d", "e"}  MaxRecovers = 3  MaxAlternatives = 3  Verifying = TRUE  MaxQueries = 1
    RouterIds <- MCRouterIds  RouterKinds <- MCRouterKinds  MaxHistory = 1
    Files = {"code", "text"}  Code = {"code"}  Alike <- MCAlike
    Workers = {p1, p2}  Resources = {"runs", "tokens"}  LimitOf <- MCLimitOf  MostTaken = 2
    Lockers = {p1, p2}  LockNames = {"a", "b"}  NoThread = Nobody
    ApprovalAsks <- MCApprovalAsks  MaxRequests = 2
    Questions <- MCQuestions
INVARIANTS TypeOK SubagentsAreAttended  McpIsCoherent StartsAreWaitedFor ReplayIsTrue RecordsAreTrue
    ReportsMatchEffects ReconcilingIsSafe PolicyIsCoherent ApprovalIsEarned PassIsEarned FiguresAgree
PROPERTIES EventsAreDelivered
SYMMETRY Symmetry
CHECK_DEADLOCK FALSE
