------------------------------ MODULE Requests ------------------------------
(***************************************************************************)
(* The components that work on a request until it ends: the agent's loop,  *)
(* the loop of agentcore, the recovery engine, the gateway and the         *)
(* resilience of one provider.  In the code none of them shares state with *)
(* another, so a product would show nothing that a part does not: a        *)
(* behaviour chooses one part and runs it, the others rest.                *)
(***************************************************************************)
EXTENDS Naturals, FiniteSets, Sequences

CONSTANTS Components,             \* the parts a behaviour may choose
          MaxIterations, MaxToolCalls, MaxConsecutiveFailures, MaxNoProgress, MaxBatch,  \* of both agents
          MaxRepairAttempts, MaxPlanRevisions, RepeatWindow, Commands, Engineering, HasModel, MaxRuns,  \* of argus
          CoreTools, MaxTasks,    \* of agentcore
          StrategyLimit, RecoveryAttempts, PlannerAttempts, PlannerReplans, MaxCycles, MaxRecoveries,
          Threads,                \* of the gateway and of a provider's callers
          MaxRequests, MaxRetries,  \* of both
          Servers, Models, NoRequest, MaxArrivals,
          FailureThreshold, HalfOpenMax, QuarantineThreshold, BackoffAttempts

VARIABLES part,
  pc, cancelled, run, batch, eng, recent, runs,
  corePc, coreState, iterations, used, coreFailures, stuck, anyFailed, calls, coreBatch, coreLast, coreCancelled,
  coreLate, coreResult, tasks,
  recoveryPc, late, attempts, spent, state, result, recoveries,
  server, bucket, clock, window, cooling, last, req, allowed,
  circuit, failures, trials, lapsed, quarantine, inWindow, thread, streak

agentVars == <<pc, cancelled, run, batch, eng, recent, runs>>
coreVars == <<corePc, coreState, iterations, used, coreFailures, stuck, anyFailed, calls, coreBatch, coreLast,
              coreCancelled, coreLate, coreResult, tasks>>
recoveryVars == <<recoveryPc, late, attempts, spent, state, result, recoveries>>
gatewayVars == <<server, bucket, clock, window, cooling, last, req, allowed>>
providerVars == <<circuit, failures, trials, lapsed, quarantine, inWindow, thread, streak>>
vars == <<part, agentVars, coreVars, recoveryVars, gatewayVars, providerVars>>

-----------------------------------------------------------------------------
Agent == INSTANCE AgentRun

Core == INSTANCE AgentCore WITH
  Tools <- CoreTools, pc <- corePc, state <- coreState, failures <- coreFailures, batch <- coreBatch, last <- coreLast,
  cancelled <- coreCancelled, late <- coreLate, result <- coreResult

Engine == INSTANCE Recovery WITH Limit <- StrategyLimit, MaxAttempts <- RecoveryAttempts, pc <- recoveryPc

Gate == INSTANCE Gateway

Resilient == INSTANCE Resilience WITH MaxAttempts <- BackoffAttempts

ASSUME RequestsAssumption ==
  /\ Agent!AgentRunAssumption /\ Core!AgentCoreAssumption /\ Engine!RecoveryAssumption
  /\ Gate!GatewayAssumption /\ Resilient!ResilienceAssumption
  /\ Components \subseteq {"agent", "core", "recovery", "gateway", "provider"}

-----------------------------------------------------------------------------
Init ==
  /\ part \in Components
  /\ Agent!Init /\ Core!Init /\ Engine!Init /\ Gate!Init /\ Resilient!Init
  /\ part # "gateway" => server = 1

AgentStep    == part = "agent"    /\ Agent!Next     /\ UNCHANGED <<part, coreVars, recoveryVars, gatewayVars, providerVars>>
CoreStep     == part = "core"     /\ Core!Next      /\ UNCHANGED <<part, agentVars, recoveryVars, gatewayVars, providerVars>>
RecoveryStep == part = "recovery" /\ Engine!Next    /\ UNCHANGED <<part, agentVars, coreVars, gatewayVars, providerVars>>
GatewayStep  == part = "gateway"  /\ Gate!Next      /\ UNCHANGED <<part, agentVars, coreVars, recoveryVars, providerVars>>
ProviderStep == part = "provider" /\ Resilient!Next /\ UNCHANGED <<part, agentVars, coreVars, recoveryVars, gatewayVars>>
Next == AgentStep \/ CoreStep \/ RecoveryStep \/ GatewayStep \/ ProviderStep

\* The fairness each part states for itself.
Fairness ==
  /\ WF_agentVars(part = "agent" /\ Agent!Step)
  /\ WF_coreVars(part = "core" /\ Core!Step) /\ WF_coreVars(part = "core" /\ Core!TimePasses)
  /\ WF_recoveryVars(part = "recovery" /\ Engine!EngineStep)
  /\ \A t \in Threads : /\ WF_gatewayVars(part = "gateway" /\ Gate!Serve(t))
                         /\ WF_providerVars(part = "provider" /\ Resilient!AskCircuit(t))
                         /\ WF_providerVars(part = "provider" /\ Resilient!Reply(t))
  /\ WF_providerVars(part = "provider" /\ Resilient!Lapse)
Spec == Init /\ [][Next]_vars /\ Fairness

-----------------------------------------------------------------------------
\* A part that rests is in its initial state: only the one that runs is looked at.
Of(p, invariant) == part = p => invariant

TypeOK == /\ part \in Components
          /\ Of("agent", Agent!TypeOK) /\ Of("core", Core!TypeOK) /\ Of("recovery", Engine!TypeOK)
          /\ Of("gateway", Gate!TypeOK) /\ Of("provider", Resilient!TypeOK)

\* No request of an agent goes beyond its iterations, tool calls, failures, repairs and plan
\* revisions, and no recovery engine overdraws its budget over several failures.
LimitsHold == Of("agent", Agent!LimitsHold) /\ Of("core", Core!LimitsHold) /\ Of("recovery", Engine!BudgetNeverOverdrawn)

\* COMPLETED is said of a change only when every command passed after the last edit, and a
\* request that went on failing is a failure whatever the verification of the project says.
VerdictsAreEarned == Of("agent", Agent!CompletedIsVerified) /\ Of("core", Core!HopelessTaskFails)

\* An anonymous request of the gateway never reaches a provider that is paid or unavailable.
OnlyFreeProvidersServe == Of("gateway", Gate!OnlyFreeProvidersServe)

\* The gateway's limiter lets no more requests of a window through than it is told to, as
\* test_rate_limiter_blocks_over_limit says (tests/test_argus.py:2600).
RateLimitHolds == Of("gateway", Gate!LimitHolds)

\* A request that is not a stream has one answer, whatever its attempts and its writes met.
OneAnswer == Of("gateway", Gate!OneAnswer)

\* A circuit opens only for failures in a row or a failed trial, and closes with none left.
CircuitIsHonest == []Of("provider", Resilient!ClosedIsHealthy) /\ Resilient!OpensForCause

\* Whatever a request waits for comes: an answer of the agent, the end of a task of agentcore
\* or of a recovery, an answer of the gateway, another trial of a provider that was given up.
Begun(t) == \/ part = "agent" /\ Agent!Asked
            \/ part = "core" /\ Core!Working
            \/ part = "recovery" /\ Engine!Recovering
            \/ part = "gateway" /\ Gate!Waiting(t)
            \/ part = "provider" /\ circuit = "open"
Ended(t) == CASE part = "agent"    -> Agent!Answered
              [] part = "core"     -> ~Core!Working
              [] part = "recovery" -> Engine!Recovered
              [] part = "gateway"  -> Gate!Served(t)
              [] part = "provider" -> circuit # "open"
EveryRequestEnds == \A t \in Threads : Begun(t) ~> Ended(t)

\* What argus says of a run it stopped, for exhausted tools ("Stopped after {n} consecutive
\* tool failures", agent.py:350) or because the user said so (agent.py:356): it is no success.
StoppedRunFails == Agent!StoppedRunFails
=============================================================================
