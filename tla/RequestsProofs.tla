--------------------------- MODULE RequestsProofs ---------------------------
(***************************************************************************)
(* The theorems about Requests: its invariants and its action property,    *)
(* for every value of the constants.  A behaviour runs one component, and  *)
(* the others rest in their initial states; the invariant is that of the   *)
(* component that runs, and a step is a step of it or a stutter.           *)
(***************************************************************************)
EXTENDS ProvidersProofs

Inv == /\ part \in Components
       /\ Of("agent", AgentInv) /\ Of("core", CoreInv) /\ Of("recovery", EngineInv)
       /\ Of("gateway", GatewayInv) /\ Of("provider", ProviderInv)

\* Every component starts with its invariant, whichever it is.
LEMMA InitInv == Init => Inv
<1> SUFFICES ASSUME Init PROVE Inv
  OBVIOUS
<1>1. /\ part \in Components
      /\ Agent!Init /\ Core!Init /\ Engine!Init /\ Gate!Init /\ Resilient!Init
  BY DEF Init
<1>2. AgentInv /\ CoreInv /\ EngineInv /\ GatewayInv /\ ProviderInv
  BY <1>1, AgentInit, CoreInit, EngineInit, GatewayInit, ProviderInit
<1> QED
  BY <1>1, <1>2 DEF Inv, Of

\* A step of the component that runs keeps its invariant; so does a stutter of all of them.
LEMMA NextInv == Inv /\ [Next]_vars => Inv'
<1> SUFFICES ASSUME Inv, [Next]_vars PROVE Inv'
  OBVIOUS
<1>1. part' = part
  BY DEF Next, AgentStep, CoreStep, RecoveryStep, GatewayStep, ProviderStep, vars
<1>2. CASE part = "agent"
  <2>1. AgentInv /\ (Agent!Next \/ UNCHANGED agentVars)
    BY <1>2 DEF Inv, Of, Next, AgentStep, CoreStep, RecoveryStep, GatewayStep, ProviderStep, vars
  <2>2. AgentInv'
    BY <2>1, AgentSteps, AgentCancels
  <2> QED
    BY <1>1, <1>2, <2>2 DEF Inv, Of
<1>3. CASE part = "core"
  <2>1. CoreInv /\ (Core!Next \/ UNCHANGED coreVars)
    BY <1>3 DEF Inv, Of, Next, AgentStep, CoreStep, RecoveryStep, GatewayStep, ProviderStep, vars
  <2>2. CoreInv'
    BY <2>1, CoreSteps, CoreWaits
  <2> QED
    BY <1>1, <1>3, <2>2 DEF Inv, Of
<1>4. CASE part = "recovery"
  <2>1. EngineInv /\ (Engine!Next \/ UNCHANGED recoveryVars)
    BY <1>4 DEF Inv, Of, Next, AgentStep, CoreStep, RecoveryStep, GatewayStep, ProviderStep, vars
  <2>2. EngineInv'
    BY <2>1, EngineSteps, EngineGivesUp
  <2> QED
    BY <1>1, <1>4, <2>2 DEF Inv, Of
<1>5. CASE part = "gateway"
  <2>1. GatewayInv /\ (Gate!Next \/ UNCHANGED gatewayVars)
    BY <1>5 DEF Inv, Of, Next, AgentStep, CoreStep, RecoveryStep, GatewayStep, ProviderStep, vars
  <2>2. GatewayInv'
    BY <2>1, GatewaySteps, GatewayWaits
  <2> QED
    BY <1>1, <1>5, <2>2 DEF Inv, Of
<1>6. CASE part = "provider"
  <2>1. ProviderInv /\ (Resilient!Next \/ UNCHANGED providerVars)
    BY <1>6 DEF Inv, Of, Next, AgentStep, CoreStep, RecoveryStep, GatewayStep, ProviderStep, vars
  <2>2. ProviderInv'
    BY <2>1, ProviderSteps, ProviderWaits
  <2> QED
    BY <1>1, <1>6, <2>2 DEF Inv, Of
<1>7. part \in {"agent", "core", "recovery", "gateway", "provider"}
  BY RequestsAssumption DEF Inv
<1> QED
  BY <1>2, <1>3, <1>4, <1>5, <1>6, <1>7

\* The invariant of the component that runs, in every reachable state.
THEOREM InvHolds == Spec => []Inv
  BY InitInv, NextInv, PTL DEF Spec

\* Every variable of the component that runs has its type: a request of the gateway names a
\* provider of the configuration, a batch the tools it asked for, a circuit its states.
THEOREM TypesHold == Spec => []TypeOK
<1>1. Inv => TypeOK
  BY DEF Inv, Of, TypeOK, AgentInv, CoreInv, EngineInv, GatewayInv, ProviderInv
<1> QED
  BY <1>1, InvHolds, PTL

\* However a model asks, plans and repairs, no request goes beyond its iterations, tool calls,
\* failures, repairs and plan revisions, and no sequence of failures overdraws the recovery budget.
THEOREM RequestsAreLimited == Spec => []LimitsHold
<1>1. Inv => LimitsHold
  BY DEF Inv, Of, LimitsHold, AgentInv, CoreInv, EngineInv
<1> QED
  BY <1>1, InvHolds, PTL

\* COMPLETED is said of a modified project only after a round of commands that passed since the
\* last edit; a request that ended for repeated failures is a failure.
THEOREM VerdictsAreJust == Spec => []VerdictsAreEarned
<1>1. Inv => VerdictsAreEarned
  BY DEF Inv, Of, VerdictsAreEarned, AgentInv, CoreInv
<1> QED
  BY <1>1, InvHolds, PTL

\* Whatever servers there are and whatever a request names, an anonymous one is served by free
\* providers that are available.
THEOREM AnonymousRequestsAreFree == Spec => []OnlyFreeProvidersServe
<1>1. Inv => OnlyFreeProvidersServe
  BY GatewayServesFreely DEF Inv, Of, OnlyFreeProvidersServe
<1> QED
  BY <1>1, InvHolds, PTL

\* A request of the gateway that is not a stream has one answer: a status line is begun again
\* only after one that could not be written, and none after the answer the client was given.
THEOREM RequestsHaveOneAnswer == Spec => []OneAnswer
<1>1. Inv => OneAnswer
  BY GatewayServesFreely DEF Inv, Of, OneAnswer
<1> QED
  BY <1>1, InvHolds, PTL

\* A circuit opens for as many failures in a row as its threshold or for a failed trial, whatever
\* the threads do in between, and one that is closed counts fewer failures than the threshold.
THEOREM CircuitsAreHonest == Spec => CircuitIsHonest
<1>1. Inv => Of("provider", Resilient!ClosedIsHealthy)
  BY DEF Inv, Of, ProviderInv
<1>2. Inv /\ [Next]_vars =>
        [circuit # "open" /\ circuit' = "open" => circuit = "half_open" \/ streak' >= FailureThreshold]_(Resilient!vars)
  <2> SUFFICES ASSUME Inv, [Next]_vars, circuit # "open", circuit' = "open"
               PROVE  circuit = "half_open" \/ streak' >= FailureThreshold
    OBVIOUS
  <2>1. part = "provider" /\ Resilient!Next
    BY DEF Next, AgentStep, CoreStep, RecoveryStep, GatewayStep, ProviderStep, vars, providerVars
  <2> QED
    BY <2>1, ProviderOpens DEF Inv, Of
<1> QED
  BY <1>1, <1>2, InvHolds, PTL DEF Spec, CircuitIsHonest, Resilient!OpensForCause
=============================================================================
