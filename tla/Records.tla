------------------------------ MODULE Records ------------------------------
(***************************************************************************)
(* The components that keep registries, logs, files and reports, and the   *)
(* ones that judge: subagents, MCP servers, the event bus, the replay of a *)
(* run's events, its state, its checkpoints, the adaptive loop, the router *)
(* of capabilities, the git workflow, the reconciler's table, what threads *)
(* share of capacity and locks, the approvals, and the verdicts of         *)
(* security, review, release, validation, harness, benchmark, reality and  *)
(* verification.  None of them shares state with another: a behaviour      *)
(* chooses one part and runs it, the others rest.                          *)
(***************************************************************************)
EXTENDS Integers, FiniteSets, Sequences, TLC

CONSTANTS Components,             \* the parts a behaviour may choose, those that judge included
          Agents, Roles, Executors, Nobody, RoleDefaults, BudgetOverrides, Reports, Amounts,  \* of subagents
          RemoteServers, StartTasks, McpTools, McpIds, FullToolId, Nothing, McpPolicies, MaxProcesses,  \* of MCP
          Emitters, Callbacks, EventTypes, Filters, Faulty, MaxEmitted, MaxSubscribers, MaxKept,  \* of the bus
          Recordable, MaxLog, ThisRun, NoCap,              \* of the log that is replayed
          PlanLength, HasStore, MaxUpdates, MaxSnapshots,  \* of the state of a run
          RunIds, Operations, MaxCheckpoints,              \* of its checkpoints
          LoopCapabilities, MaxRecovers, MaxAlternatives, Verifying, MaxQueries,  \* of the adaptive loop
          RouterIds, RouterKinds, MaxHistory,              \* of the router
          Files, Code, Alike,                              \* of the git workflow
          Workers, Resources, LimitOf, MostTaken,          \* of the shared capacity
          Lockers, LockNames, NoThread,                    \* of the locks
          ApprovalAsks, MaxRequests,       \* of approvals
          Questions               \* part that judges -> the inputs it may be given

VARIABLES part,
  known, sub, override, limits, exec, unattended,
  entry, tools, task, processes, blocked, permitted, policy, contested, cancelled, barred,
  active, subscribers, pub, tracked, received, kept, collecting, met,
  log,
  cached, saved, updates, snapshots,
  files, made, next,
  pc, todo, tries, did, trace, queries,
  usable, responds, history, recent, result,
  head, index, work, diff, approved, report,
  type, target, happened, evidence, verdict,
  usage, use,
  inner, owner, doing, holds, graph, owners,
  requested, stored, prompted, resolving, answers, outlived,
  input, judgement

subagentVars == <<known, sub, override, limits, exec, unattended>>
mcpVars == <<entry, tools, task, processes, blocked, permitted, policy, contested, cancelled, barred>>
eventVars == <<active, subscribers, pub, tracked, received, kept, collecting, met>>
stateVars == <<cached, saved, updates, snapshots>>
checkpointVars == <<files, made, next>>
loopVars == <<pc, todo, tries, did, trace, queries>>
routerVars == <<usable, responds, history, recent, result>>
gitVars == <<head, index, work, diff, approved, report>>
tableVars == <<type, target, happened, evidence, verdict>>
capacityVars == <<usage, use>>
contentionVars == <<inner, owner, doing, holds, graph, owners>>
approvalVars == <<requested, stored, prompted, resolving, answers, outlived>>
sharedVars == <<capacityVars, contentionVars, approvalVars>>
vars == <<part, subagentVars, mcpVars, eventVars, log, stateVars, checkpointVars, loopVars, routerVars, gitVars, tableVars,
          sharedVars, input, judgement>>

-----------------------------------------------------------------------------
Sub == INSTANCE Subagents WITH Defaults <- RoleDefaults, Overrides <- BudgetOverrides, Answers <- Reports

Mcp == INSTANCE McpServers WITH Servers <- RemoteServers, Tasks <- StartTasks, Tools <- McpTools, CapabilityIds <- McpIds,
                                 Policies <- McpPolicies

Bus == INSTANCE EventBus WITH Threads <- Emitters, Types <- EventTypes, MaxEvents <- MaxEmitted

Log == INSTANCE Replay WITH Kinds <- Recordable, MaxEvents <- MaxLog

Run == INSTANCE StateRun

Saved == INSTANCE Checkpoints WITH Runs <- RunIds

Adaptive == INSTANCE AdaptiveLoop WITH Capabilities <- LoopCapabilities, Alternatives <- MaxAlternatives, Verification <- Verifying

Router == INSTANCE Capabilities WITH Ids <- RouterIds, KindOf <- RouterKinds

Git == INSTANCE GitWorkflow

Table == INSTANCE ReconcilerTable

Cap == INSTANCE Capacity

Con == INSTANCE Contention WITH Locks <- LockNames

App == INSTANCE Approvals WITH Asks <- ApprovalAsks

Kernel == INSTANCE Security
Rev == INSTANCE Review
Rel == INSTANCE Release
Val == INSTANCE Validation
Har == INSTANCE Harness
Ben == INSTANCE Benchmark
Ver == INSTANCE Verification
Rea == INSTANCE Reality

Acting == {"subagents", "mcp", "bus", "log", "run", "checkpoints", "loop", "router", "git", "table", "capacity",
           "contention", "approvals"}
Judging == {"security", "review", "release", "validation", "harness", "benchmark", "verification", "reality",
            "aggregation", "health"}

\* What the parts are told is of the kind they are made for.
ASSUME RecordsAssumption ==
  /\ Sub!SubagentsAssumption /\ Mcp!McpAssumption /\ Bus!EventBusAssumption /\ Log!ReplayAssumption
  /\ Run!StateRunAssumption /\ Saved!CheckpointsAssumption /\ Adaptive!AdaptiveAssumption
  /\ Router!CapabilitiesAssumption /\ Git!GitAssumption /\ Cap!CapacityAssumption /\ Con!ContentionAssumption
  /\ App!ApprovalsAssumption
  /\ Components \subseteq Acting \cup Judging /\ DOMAIN Questions = Judging
  /\ Questions["security"] \subseteq Kernel!Invocations
  /\ Questions["review"] \subseteq Rev!ReviewEvidence /\ Questions["release"] \subseteq Rel!Builds
  /\ Questions["validation"] \subseteq [answer : Val!Answers, scenario : DOMAIN Val!Scenarios]
  /\ Questions["harness"] \subseteq [task : Har!Tasks, work : Har!Works]
  /\ Questions["verification"] \subseteq [project : Ver!Projects, registered : Seq(DOMAIN Ver!Suites), name : {"all"} \cup DOMAIN Ver!Suites]

-----------------------------------------------------------------------------
Answer ==
  CASE part = "security"     -> Kernel!Evaluate(input)
    [] part = "review"       -> Rev!ReviewStatus(input)
    [] part = "release"      -> Rel!ReleaseDecision(input)
    [] part = "validation"   -> Val!RunScenario(input.answer, input.scenario)
    [] part = "harness"      -> Har!RunTask(input.task, input.work)
    [] part = "benchmark"    -> Ben!Experiment(input.results)
    [] part = "verification" -> Ver!Verify(input.project, input.registered, input.name)
    [] part = "reality"      -> Rea!RealityDecision(input)
    [] part = "aggregation"  -> Sub!Aggregate(input)
    [] part = "health"       -> Mcp!ServerHealth(input)

Init ==
  /\ part \in Components
  /\ Sub!Init /\ Mcp!Init /\ Bus!Init /\ Log!Init /\ Run!Init /\ Saved!Init /\ Adaptive!Init /\ Router!Init
  /\ Git!Init /\ (part # "git" => \A f \in Files : head[f] = "absent")
  /\ Table!Init /\ (part # "table" => type = "filesystem.read" /\ target = "missing" /\ ~happened)
  /\ Cap!Init /\ Con!Init /\ App!Init
  /\ input \in IF part \in Judging THEN Questions[part] ELSE {"nothing"}
  /\ judgement = <<>>

Others == <<part, input, judgement>>
SubagentStep == /\ part = "subagents" /\ Sub!Next /\ UNCHANGED <<Others, mcpVars, eventVars, log, stateVars>>
                /\ UNCHANGED <<checkpointVars, loopVars, routerVars, gitVars, tableVars, sharedVars>>
McpStep == /\ part = "mcp" /\ Mcp!Next /\ UNCHANGED <<Others, subagentVars, eventVars, log, stateVars>>
           /\ UNCHANGED <<checkpointVars, loopVars, routerVars, gitVars, tableVars, sharedVars>>
BusStep == /\ part = "bus" /\ Bus!Next /\ UNCHANGED <<Others, subagentVars, mcpVars, log, stateVars>>
           /\ UNCHANGED <<checkpointVars, loopVars, routerVars, gitVars, tableVars, sharedVars>>
LogStep == /\ part = "log" /\ Log!Next /\ UNCHANGED <<Others, subagentVars, mcpVars, eventVars, stateVars>>
           /\ UNCHANGED <<checkpointVars, loopVars, routerVars, gitVars, tableVars, sharedVars>>
RunStep == /\ part = "run" /\ Run!Next /\ UNCHANGED <<Others, subagentVars, mcpVars, eventVars, log>>
           /\ UNCHANGED <<checkpointVars, loopVars, routerVars, gitVars, tableVars, sharedVars>>
CheckpointStep == /\ part = "checkpoints" /\ Saved!Next /\ UNCHANGED <<Others, subagentVars, mcpVars, eventVars, log>>
                  /\ UNCHANGED <<stateVars, loopVars, routerVars, gitVars, tableVars, sharedVars>>
LoopStep == /\ part = "loop" /\ Adaptive!Next /\ UNCHANGED <<Others, subagentVars, mcpVars, eventVars, log>>
            /\ UNCHANGED <<stateVars, checkpointVars, routerVars, gitVars, tableVars, sharedVars>>
RouterStep == /\ part = "router" /\ Router!Next /\ UNCHANGED <<Others, subagentVars, mcpVars, eventVars, log>>
              /\ UNCHANGED <<stateVars, checkpointVars, loopVars, gitVars, tableVars, sharedVars>>
GitStep == /\ part = "git" /\ Git!Next /\ UNCHANGED <<Others, subagentVars, mcpVars, eventVars, log>>
           /\ UNCHANGED <<stateVars, checkpointVars, loopVars, routerVars, tableVars, sharedVars>>
TableStep == /\ part = "table" /\ Table!Next /\ UNCHANGED <<Others, subagentVars, mcpVars, eventVars, log>>
             /\ UNCHANGED <<stateVars, checkpointVars, loopVars, routerVars, gitVars, sharedVars>>
CapacityStep == /\ part = "capacity" /\ Cap!Next /\ UNCHANGED <<Others, subagentVars, mcpVars, eventVars, log>>
                /\ UNCHANGED <<stateVars, checkpointVars, loopVars, routerVars, gitVars, tableVars, contentionVars, approvalVars>>
ContentionStep == /\ part = "contention" /\ Con!Next /\ UNCHANGED <<Others, subagentVars, mcpVars, eventVars, log>>
                  /\ UNCHANGED <<stateVars, checkpointVars, loopVars, routerVars, gitVars, tableVars, capacityVars, approvalVars>>
ApprovalStep == /\ part = "approvals" /\ App!Next /\ UNCHANGED <<Others, subagentVars, mcpVars, eventVars, log>>
                /\ UNCHANGED <<stateVars, checkpointVars, loopVars, routerVars, gitVars, tableVars, capacityVars, contentionVars>>
Judge == /\ part \in Judging /\ judgement = <<>> /\ judgement' = <<Answer>>
         /\ UNCHANGED <<part, input, subagentVars, mcpVars, eventVars, log>>
         /\ UNCHANGED <<stateVars, checkpointVars, loopVars, routerVars, gitVars, tableVars, sharedVars>>
Next == \/ SubagentStep \/ McpStep \/ BusStep \/ LogStep \/ RunStep \/ CheckpointStep
        \/ LoopStep \/ RouterStep \/ GitStep \/ TableStep
        \/ CapacityStep \/ ContentionStep \/ ApprovalStep \/ Judge
Spec == Init /\ [][Next]_vars

-----------------------------------------------------------------------------
\* A part that rests is in its initial state: only the one that runs is looked at.
Of(p, invariant) == part = p => invariant
Judged(p, earned) == part = p /\ judgement # <<>> => earned

TypeOK ==
  /\ part \in Components
  /\ Of("subagents", Sub!TypeOK) /\ Of("mcp", Mcp!TypeOK) /\ Of("bus", Bus!TypeOK) /\ Of("log", Log!TypeOK)
  /\ Of("run", Run!TypeOK) /\ Of("checkpoints", Saved!TypeOK) /\ Of("loop", Adaptive!TypeOK)
  /\ Of("router", Router!TypeOK) /\ Of("git", Git!TypeOK) /\ Of("table", Table!TypeOK)
  /\ Of("capacity", Cap!TypeOK) /\ Of("contention", Con!TypeOK) /\ Of("approvals", App!TypeOK)

\* A subagent's stamps tell its history, and one that runs has an executor unless it was
\* started without one or its report was refused while it was paused.
SubagentsAreAttended == Of("subagents", Sub!StampsMatchStatus /\ Sub!RunningIsExecuted)

\* No execution has a limit its caller or its role did not ask for, and threads that ask for a
\* resource and then take it hold no more than its limit, and what is in use is what they hold.
BudgetsHold == Of("subagents", Sub!BudgetsHaveCause) /\ Of("capacity", Cap!CapacityIsKept)

\* The MCP registry's two tables agree, save on ids two servers registered, and a blocked tool
\* stays denied until its full id is allowed again.
McpIsCoherent == Of("mcp", Mcp!RegistryAgrees /\ Mcp!BlockedIsDenied)

\* An MCP server whose start is under way has a task that will end it, also when it was
\* stopped, unregistered and registered again meanwhile, unless a start of it was cancelled.
StartsAreWaitedFor == Of("mcp", Mcp!InitializingIsWaitedFor)

\* Every subscriber of a publication has its event although others raise or subscriptions
\* change meanwhile, and a collector holds the newest unless two threads were in it at once.
EventsAreDelivered == Bus!NoSubscriberMissed /\ []Of("bus", Bus!CollectorKeepsNewest)

\* What the replay of a log says of it is true: a valid log is sound, an execution reported to
\* follow a denial did, and every event has its place in the tree.
ReplayIsTrue == Of("log", Log!ValidLogIsSound /\ Log!DenialReportIsTrue /\ Log!EveryEventIsPlaced)

\* In every record of a run's state a step that is active is the current one or was set active
\* over the manager's head, and a checkpoint that can be loaded holds what was saved, as JSON
\* gives it back.
RecordsAreTrue ==
  Of("run", Run!OneActiveStep) /\ Of("checkpoints", Saved!LoadedIsSaved)

\* The adaptive loop reports the call that succeeded, the router never settles on what cannot
\* run, and the git workflow committed what it says it did; a lock's owner holds it, and a
\* deadlock that is reported is one.
ReportsMatchEffects ==
  /\ Of("contention", Con!OwnerIsHolder /\ Con!AlarmIsReal)
  /\ Of("loop", Adaptive!ReportMatchesEffects) /\ Of("router", Router!ChoiceIsSound) /\ Of("git", Git!ReportedIsCommitted)

\* The verdict on an operation with an unknown outcome is true of its target, and nothing
\* unrepeatable is retried on silence.
ReconcilingIsSafe == Of("table", Table!DefaultVerdictIsTrue /\ Table!RetryRespectsIdempotency)

\* What the kernel allows is within its limits, its sandbox and every looser policy.
PolicyIsCoherent == Judged("security", Kernel!PolicyIsCoherent(input))

\* A review that passes and a release that qualifies rest on the evidence they ask for, and what
\* the approval manager lets pass was granted by the first answer and not withdrawn since, save
\* by a clearing of everything that came while it was being resolved.
ApprovalIsEarned ==
  /\ Of("approvals", App!FirstAnswerStands)
  /\ Judged("review", Rev!ReviewIsEarned(input, judgement[1])) /\ Judged("release", Rel!QualifiedIsSound(input, judgement[1]))

\* A scenario passes only for an agent that answered and left the files asked for, a task
\* succeeds only with every criterion met and not by its score alone, and a verification that
\* passed hides no criterion that failed, raised, was skipped or was never reached.
PassIsEarned ==
  /\ Judged("validation", Val!PassedIsClean(input.answer, input.scenario, judgement[1]))
  /\ Judged("harness", Har!SuccessIsVerified(input.task, input.work))
  /\ Judged("verification", Ver!PassedHidesNothing(input.project, input.registered, input.name))

\* Figures that are computed in two places agree: those of a benchmark, the status and the
\* confidence of what several subagents found, and the counters of an MCP server's health; and
\* the totals of the reality suite look no better when something in it goes wrong.
FiguresAgree ==
  /\ Judged("benchmark", /\ Ben!MedianIsP50(input.results) /\ Ben!BudgetsAddUp(input.results)
                         /\ Ben!RegressionIsConcluded(input.baseline, input.results)
                         /\ (Len(input.results) = 1 => Ben!ProvidersAreBlamedAlike(input.results[1])))
  /\ Judged("aggregation", Sub!AggregateAgrees(input)) /\ Judged("health", Mcp!HealthTellsHistory(input))
  /\ Judged("reality", Rea!FaultsNeverHelp(input))
=============================================================================
