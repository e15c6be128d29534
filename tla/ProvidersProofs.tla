--------------------------- MODULE ProvidersProofs ---------------------------
(***************************************************************************)
(* The invariants of the gateway and of the gates around one provider, and *)
(* that every step of these two components keeps them.                     *)
(***************************************************************************)
EXTENDS AgentsProofs

\* The constants of the gates around a provider; Cap is beyond both thresholds.
LEMMA ProviderConstants ==
  /\ FailureThreshold \in Nat \ {0} /\ HalfOpenMax \in Nat \ {0}
  /\ QuarantineThreshold \in Nat /\ MaxRequests \in Nat /\ MaxRetries \in Nat /\ BackoffAttempts \in Nat
  /\ Resilient!Cap \in Nat /\ FailureThreshold <= Resilient!Cap
  /\ Resilient!WindowCap \in Nat /\ 0 \in 0..Resilient!WindowCap
<1>1. /\ FailureThreshold \in Nat \ {0} /\ HalfOpenMax \in Nat \ {0}
      /\ QuarantineThreshold \in Nat /\ MaxRequests \in Nat /\ MaxRetries \in Nat /\ BackoffAttempts \in Nat
  BY RequestsAssumption DEF Resilient!ResilienceAssumption
<1>2. Resilient!Cap \in Nat /\ FailureThreshold <= Resilient!Cap
  BY <1>1 DEF Resilient!Cap
<1>3. Resilient!WindowCap \in Nat /\ 0 \in 0..Resilient!WindowCap
  BY <1>1 DEF Resilient!WindowCap
<1> QED
  BY <1>1, <1>2, <1>3

\* A trial is left in a half open circuit.
ProviderRounds == circuit = "half_open" => trials < HalfOpenMax

ProviderInv == Resilient!TypeOK /\ ProviderRounds /\ Resilient!ClosedIsHealthy

Quarantines == [failures : 0..Resilient!Cap, on : BOOLEAN, lapsed : BOOLEAN, overridden : BOOLEAN]
Calls == [phase : Resilient!Phases, attempt : 0..MaxRetries, kept : 0..Resilient!WindowCap]
Callers == [Threads -> Calls]
Window == 0..Resilient!WindowCap

\* The types, in the form the steps below use.
LEMMA ProviderFields ==
  Resilient!TypeOK <=>
    /\ circuit \in {"closed", "open", "half_open"}
    /\ failures \in 0..Resilient!Cap /\ streak \in 0..Resilient!Cap /\ trials \in 0..HalfOpenMax
    /\ lapsed \in BOOLEAN /\ quarantine \in Quarantines /\ inWindow \in Window /\ thread \in Callers
  BY DEF Resilient!TypeOK, Quarantines, Callers, Calls, Window

\* The same of the next state.
LEMMA ProviderFieldsNext ==
  ASSUME circuit' \in {"closed", "open", "half_open"},
         failures' \in 0..Resilient!Cap, streak' \in 0..Resilient!Cap, trials' \in 0..HalfOpenMax,
         lapsed' \in BOOLEAN, quarantine' \in Quarantines, inWindow' \in Window, thread' \in Callers
  PROVE  Resilient!TypeOK'
  BY DEF Resilient!TypeOK, Quarantines, Callers, Calls, Window

\* A provider nobody called satisfies the invariant.
LEMMA ProviderInit == Resilient!Init => ProviderInv
<1> SUFFICES ASSUME Resilient!Init PROVE ProviderInv
  OBVIOUS
<1> USE ProviderConstants
<1>1. quarantine \in Quarantines
  BY DEF Resilient!Init, Quarantines
<1>2. thread \in Callers
  <2>1. thread = [t \in Threads |-> Resilient!Rest]
    BY DEF Resilient!Init
  <2>2. Resilient!Rest \in Calls
    <3>1. 0 \in 0..MaxRetries
      OBVIOUS
    <3> QED
      BY <3>1 DEF Resilient!Rest, Calls, Resilient!Phases
  <2> QED
    BY <2>1, <2>2 DEF Callers
<1>a. 0 \in 0..Resilient!Cap /\ 0 \in 0..HalfOpenMax /\ 0 \in Window
  BY DEF Window
<1>b. failures = 0 /\ streak = 0 /\ trials = 0 /\ inWindow = 0 /\ circuit = "closed" /\ lapsed = FALSE
  BY DEF Resilient!Init
<1>5. Resilient!TypeOK
  BY <1>a, <1>b, <1>1, <1>2, ProviderFields
<1>6. ProviderRounds /\ Resilient!ClosedIsHealthy
  BY <1>b DEF ProviderRounds, Resilient!ClosedIsHealthy
<1> QED
  BY <1>5, <1>6 DEF ProviderInv

\* A thread that moves keeps the rest of its record.
LEMMA ProviderMoves ==
  ASSUME ProviderInv, NEW t \in Threads, NEW from, NEW to \in Resilient!Phases, Resilient!Step(t, from, to)
  PROVE  thread' \in Callers
<1>1. thread \in Callers /\ thread' = [thread EXCEPT ![t].phase = to]
  BY ProviderFields DEF ProviderInv, Resilient!Step
<1> QED
  BY <1>1 DEF Callers, Calls

\* Where the circuit does not change, only the types are looked at.
LEMMA ProviderRests ==
  ASSUME ProviderInv, UNCHANGED <<circuit, failures, trials, lapsed, streak>>,
         inWindow' \in Window, quarantine' \in Quarantines, thread' \in Callers
  PROVE  ProviderInv'
<1>1. Resilient!TypeOK'
  BY ProviderFields, ProviderFieldsNext DEF ProviderInv
<1> QED
  BY <1>1 DEF ProviderInv, ProviderRounds, Resilient!ClosedIsHealthy

\* A caller goes on to the next of the gates, or is refused by one.
LEMMA ProviderAsks ==
  ASSUME ProviderInv, NEW t \in Threads,
         \/ Resilient!AskQuarantine(t) \/ Resilient!FilterWindow(t) \/ Resilient!StoreWindow(t)
         \/ Resilient!AskBudget(t) \/ Resilient!Send(t)
  PROVE  ProviderInv'
<1>1. UNCHANGED <<circuit, failures, trials, lapsed, streak, quarantine>>
  BY DEF Resilient!AskQuarantine, Resilient!FilterWindow, Resilient!StoreWindow, Resilient!AskBudget, Resilient!Send,
         Resilient!breaker
<1>2. /\ inWindow \in Window /\ quarantine \in Quarantines /\ thread \in Callers /\ thread[t] \in Calls
      /\ thread[t].kept \in Window
  BY ProviderFields DEF ProviderInv, Callers, Calls, Window
<1>3. /\ {"idle", "cleared", "budgeted", "flying", "filtered", "stored"} \subseteq Resilient!Phases
      /\ 0 \in Window
  BY ProviderConstants DEF Resilient!Phases, Window
<1>4. CASE Resilient!AskQuarantine(t)
  <2>1. PICK to \in {"idle", "cleared"} : Resilient!Step(t, "asked", to)
    BY <1>4 DEF Resilient!AskQuarantine
  <2>2. thread' \in Callers
    BY <1>3, <2>1, ProviderMoves
  <2> QED
    BY <1>1, <1>2, <1>4, <2>2, ProviderRests DEF Resilient!AskQuarantine
<1>5. CASE Resilient!FilterWindow(t)
  <2>1. thread' = [thread EXCEPT ![t].phase = "filtered", ![t].kept = inWindow] /\ inWindow' = inWindow
    BY <1>5 DEF Resilient!FilterWindow
  <2>2. thread' \in Callers
    BY <1>2, <1>3, <2>1 DEF Callers, Calls, Window
  <2> QED
    BY <1>1, <1>2, <2>1, <2>2, ProviderRests
<1>6. CASE Resilient!StoreWindow(t)
  <2>1. thread' = [thread EXCEPT ![t].phase = "stored", ![t].kept = 0] /\ inWindow' = thread[t].kept
    BY <1>6 DEF Resilient!StoreWindow
  <2>2. thread' \in Callers
    BY <1>2, <1>3, <2>1 DEF Callers, Calls, Window
  <2> QED
    BY <1>1, <1>2, <2>1, <2>2, ProviderRests
<1>7. CASE Resilient!AskBudget(t)
  <2>1. PICK to \in {"idle", "budgeted"} : Resilient!Step(t, "stored", to)
    BY <1>7 DEF Resilient!AskBudget
  <2>2. thread' \in Callers
    BY <1>3, <2>1, ProviderMoves
  <2> QED
    BY <1>1, <1>2, <1>7, <2>2, ProviderRests DEF Resilient!AskBudget
<1>8. CASE Resilient!Send(t)
  <2>1. Resilient!Step(t, "budgeted", "flying")
    BY <1>8 DEF Resilient!Send
  <2>2. thread' \in Callers
    BY <1>3, <2>1, ProviderMoves
  <2>3. inWindow' \in Window
    BY <1>2, <1>8, ProviderConstants DEF Resilient!Send, Window
  <2> QED
    BY <1>1, <1>2, <2>2, <2>3, ProviderRests
<1> QED
  BY <1>4, <1>5, <1>6, <1>7, <1>8

\* The circuit that is asked is closed, open or half open, with a trial left when it is that.
LEMMA ProviderState ==
  ASSUME ProviderInv
  PROVE  /\ Resilient!State \in {"closed", "open", "half_open"} /\ Resilient!Trials \in 0..HalfOpenMax
         /\ Resilient!State = "half_open" => Resilient!Trials < HalfOpenMax
         /\ Resilient!State = "closed" <=> circuit = "closed"
         /\ Resilient!State = "open" => circuit = "open"
<1>1. circuit \in {"closed", "open", "half_open"} /\ trials \in 0..HalfOpenMax /\ lapsed \in BOOLEAN
  BY ProviderFields DEF ProviderInv
<1>2. CASE circuit = "open" /\ lapsed
  BY <1>2, ProviderConstants DEF Resilient!State, Resilient!Trials
<1>3. CASE ~(circuit = "open" /\ lapsed)
  BY <1>1, <1>3 DEF Resilient!State, Resilient!Trials, ProviderInv, ProviderRounds
<1> QED
  BY <1>2, <1>3

\* Where the window stays, only the circuit is looked at.
LEMMA ProviderTrips ==
  ASSUME ProviderInv, inWindow' = inWindow,
         circuit' \in {"closed", "open", "half_open"},
         failures' \in 0..Resilient!Cap, streak' \in 0..Resilient!Cap, trials' \in 0..HalfOpenMax,
         lapsed' \in BOOLEAN, quarantine' \in Quarantines, thread' \in Callers,
         circuit' = "half_open" => trials' < HalfOpenMax,
         circuit' = "closed" => failures' < FailureThreshold /\ failures' <= streak'
  PROVE  ProviderInv'
<1>1. Resilient!TypeOK'
  BY ProviderFields, ProviderFieldsNext DEF ProviderInv
<1> QED
  BY <1>1 DEF ProviderInv, ProviderRounds, Resilient!ClosedIsHealthy

\* The circuit lets a caller through, as one of its trials when it is half open.
LEMMA ProviderAsksCircuit ==
  ASSUME ProviderInv, NEW t \in Threads, Resilient!AskCircuit(t)
  PROVE  ProviderInv'
<1>1. /\ circuit' = Resilient!State /\ trials' = Resilient!Trials
      /\ UNCHANGED <<failures, lapsed, streak, quarantine, inWindow>>
  BY DEF Resilient!AskCircuit
<1>2. thread' \in Callers
  <2>1. CASE Resilient!Step(t, "idle", "asked")
    BY <2>1, ProviderMoves DEF Resilient!Phases
  <2>2. CASE UNCHANGED thread
    BY <2>2, ProviderFields DEF ProviderInv
  <2> QED
    BY <2>1, <2>2 DEF Resilient!AskCircuit
<1>3. /\ failures \in 0..Resilient!Cap /\ streak \in 0..Resilient!Cap /\ lapsed \in BOOLEAN /\ quarantine \in Quarantines
  BY ProviderFields DEF ProviderInv
<1>4. circuit' = "closed" => failures' < FailureThreshold /\ failures' <= streak'
  BY <1>1, ProviderState DEF ProviderInv, Resilient!ClosedIsHealthy
<1> QED
  BY <1>1, <1>2, <1>3, <1>4, ProviderState, ProviderTrips

\* A caller that is through with its request.
LEMMA ProviderRest == Resilient!Rest \in Calls
<1>1. 0 \in 0..MaxRetries /\ 0 \in 0..Resilient!WindowCap
  BY ProviderConstants
<1> QED
  BY <1>1 DEF Resilient!Rest, Calls, Resilient!Phases

\* A success closes a circuit under trial and ends the failures in a row.
LEMMA ProviderSucceeds ==
  ASSUME ProviderInv, NEW t \in Threads, Resilient!Success(t)
  PROVE  ProviderInv'
<1> USE ProviderConstants
<1>1. thread' = [thread EXCEPT ![t] = Resilient!Rest] /\ UNCHANGED <<quarantine, inWindow, lapsed>> /\ streak' = 0
  BY DEF Resilient!Success, Resilient!RecordSuccess
<1>2. thread' \in Callers
  BY <1>1, ProviderRest, ProviderFields DEF ProviderInv, Callers
<1>3. /\ failures \in 0..Resilient!Cap /\ lapsed \in BOOLEAN /\ quarantine \in Quarantines
  BY ProviderFields DEF ProviderInv
<1>4. /\ circuit' \in {"closed", "open", "half_open"} /\ failures' \in 0..Resilient!Cap /\ trials' \in 0..HalfOpenMax
      /\ circuit' = "half_open" => trials' < HalfOpenMax
      /\ circuit' = "closed" => failures' = 0
  <2>1. CASE Resilient!State = "half_open"
    <3> DEFINE n == Resilient!Trials + 1
    <3>1. /\ trials' = n
          /\ circuit' = IF n >= HalfOpenMax THEN "closed" ELSE "half_open"
          /\ failures' = IF n >= HalfOpenMax THEN 0 ELSE failures
      BY <2>1 DEF Resilient!Success, Resilient!RecordSuccess
    <3>2. n \in 0..HalfOpenMax
      BY <2>1, ProviderState
    <3> QED
      BY <3>1, <3>2, <1>3
  <2>2. CASE Resilient!State # "half_open"
    <3>1. failures' = 0 /\ circuit' = Resilient!State /\ trials' = Resilient!Trials
      BY <2>2 DEF Resilient!Success, Resilient!RecordSuccess
    <3> QED
      BY <2>2, <3>1, ProviderState
  <2> QED
    BY <2>1, <2>2
<1>5. streak' \in 0..Resilient!Cap /\ (failures' = 0 => failures' < FailureThreshold /\ failures' <= streak')
  BY <1>1
<1> QED
  BY <1>1, <1>2, <1>3, <1>4, <1>5, ProviderTrips

\* A counter goes up by one, or stays at the cap.
LEMMA ProviderUpTo ==
  ASSUME NEW n \in 0..Resilient!Cap
  PROVE  /\ Resilient!UpTo(n + 1) \in 0..Resilient!Cap
         /\ \A m \in 0..Resilient!Cap : m <= n => Resilient!UpTo(m + 1) <= Resilient!UpTo(n + 1)
         /\ n + 1 >= FailureThreshold => Resilient!UpTo(n + 1) >= FailureThreshold
         /\ n + 1 < FailureThreshold => Resilient!UpTo(n + 1) = n + 1
  BY ProviderConstants DEF Resilient!UpTo

\* A failure is counted, and opens a circuit that reached its threshold or was under trial.
LEMMA ProviderFails ==
  ASSUME ProviderInv, NEW t \in Threads, NEW retryable \in BOOLEAN, Resilient!Failure(t, retryable)
  PROVE  ProviderInv'
<1> USE ProviderConstants
<1>1. /\ failures \in 0..Resilient!Cap /\ streak \in 0..Resilient!Cap /\ trials \in 0..HalfOpenMax
      /\ quarantine \in Quarantines /\ thread \in Callers /\ circuit \in {"closed", "open", "half_open"}
  BY ProviderFields DEF ProviderInv
<1>2. /\ failures' = Resilient!UpTo(failures + 1) /\ streak' = Resilient!UpTo(streak + 1)
      /\ lapsed' = FALSE /\ trials' = trials /\ inWindow' = inWindow
      /\ circuit' = IF circuit = "half_open" \/ failures + 1 >= FailureThreshold THEN "open" ELSE circuit
  BY DEF Resilient!Failure, Resilient!RecordFailure
<1>3. quarantine' \in Quarantines
  <2> DEFINE n == Resilient!UpTo(quarantine.failures + 1)
             reached == n >= QuarantineThreshold
  <2>1. quarantine' = [quarantine EXCEPT !.failures = n, !.on = @ \/ reached, !.lapsed = @ /\ ~reached]
    <3>1. n \in 0..Resilient!Cap
      BY <1>1, ProviderUpTo DEF Quarantines
    <3>2. reached <=> ~(n < QuarantineThreshold)
      BY <3>1
    <3>3. quarantine' = [quarantine EXCEPT !.failures = n, !.on = @ \/ n >= QuarantineThreshold,
                                           !.lapsed = @ /\ n < QuarantineThreshold]
      BY DEF Resilient!Failure, Resilient!Quarantined
    <3> QED
      BY <3>2, <3>3
  <2>2. n \in 0..Resilient!Cap
    BY <1>1, ProviderUpTo DEF Quarantines
  <2>3. reached \in BOOLEAN
    OBVIOUS
  <2> HIDE DEF n, reached
  <2> QED
    BY <1>1, <2>1, <2>2, <2>3 DEF Quarantines
<1>4. thread' \in Callers
  <2>1. thread[t] \in Calls /\ thread[t].attempt \in 0..MaxRetries
    BY <1>1 DEF Callers, Calls
  <2> DEFINE c == IF retryable /\ Resilient!MayRetry(thread[t].attempt)
                  THEN [thread[t] EXCEPT !.attempt = @ + 1]
                  ELSE Resilient!Rest
  <2>2. thread' = [thread EXCEPT ![t] = c]
    BY DEF Resilient!Failure, Resilient!Again
  <2>3. c \in Calls
    <3>1. CASE Resilient!MayRetry(thread[t].attempt) /\ c = [thread[t] EXCEPT !.attempt = @ + 1]
      <4> DEFINE n == thread[t].attempt + 1
      <4>1. n \in 0..MaxRetries
        BY <3>1, <2>1 DEF Resilient!MayRetry
      <4>2. c = [thread[t] EXCEPT !.attempt = n]
        BY <3>1
      <4> HIDE DEF n
      <4> QED
        BY <2>1, <4>1, <4>2 DEF Calls
    <3>2. CASE c = Resilient!Rest
      BY <3>2, ProviderRest
    <3> QED
      BY <3>1, <3>2
  <2> HIDE DEF c
  <2> QED
    BY <1>1, <2>2, <2>3 DEF Callers
<1>5. failures' \in 0..Resilient!Cap /\ streak' \in 0..Resilient!Cap
  BY <1>1, <1>2, ProviderUpTo
<1>6. /\ circuit' \in {"closed", "open", "half_open"} /\ circuit' # "half_open"
      /\ circuit' = "closed" => circuit = "closed" /\ ~(failures + 1 >= FailureThreshold)
  BY <1>1, <1>2
<1>7. circuit' = "closed" => failures' < FailureThreshold /\ failures' <= streak'
  <2> SUFFICES ASSUME circuit' = "closed" PROVE failures' < FailureThreshold /\ failures' <= streak'
    OBVIOUS
  <2>1. failures + 1 < FailureThreshold /\ failures <= streak
    BY <1>1, <1>6 DEF ProviderInv, Resilient!ClosedIsHealthy
  <2> QED
    BY <1>1, <1>2, <2>1, ProviderUpTo
<1> QED
  BY <1>1, <1>2, <1>3, <1>4, <1>5, <1>6, <1>7, ProviderTrips

\* Time passes for a circuit, the quarantine or the window, or an operator intervenes.
LEMMA ProviderWaits ==
  ASSUME ProviderInv, \/ Resilient!Lapse \/ Resilient!QuarantineLapse \/ Resilient!Slide \/ Resilient!ManualOverride
                      \/ Resilient!Reset \/ UNCHANGED providerVars
  PROVE  ProviderInv'
<1> USE ProviderConstants
<1>1. /\ failures \in 0..Resilient!Cap /\ streak \in 0..Resilient!Cap /\ trials \in 0..HalfOpenMax /\ inWindow \in Window
      /\ quarantine \in Quarantines /\ thread \in Callers /\ circuit \in {"closed", "open", "half_open"}
  BY ProviderFields DEF ProviderInv
<1>2. UNCHANGED thread
  BY DEF Resilient!Lapse, Resilient!QuarantineLapse, Resilient!Slide, Resilient!ManualOverride, Resilient!Reset,
         providerVars
<1>3. CASE Resilient!Lapse
  <2>1. /\ circuit = "open" /\ lapsed' = TRUE /\ UNCHANGED <<circuit, failures, trials, streak, quarantine, inWindow>>
    BY <1>3 DEF Resilient!Lapse
  <2> QED
    BY <1>1, <1>2, <2>1, ProviderTrips
<1>4. CASE Resilient!QuarantineLapse \/ Resilient!ManualOverride
  <2>1. UNCHANGED <<circuit, failures, trials, lapsed, streak, inWindow>>
    BY <1>4 DEF Resilient!QuarantineLapse, Resilient!ManualOverride, Resilient!breaker
  <2>2. quarantine' \in Quarantines
    BY <1>1, <1>4 DEF Resilient!QuarantineLapse, Resilient!ManualOverride, Quarantines
  <2> QED
    BY <1>1, <1>2, <2>1, <2>2, ProviderRests
<1>5. CASE Resilient!Slide
  <2>1. UNCHANGED <<circuit, failures, trials, lapsed, streak, quarantine>>
    BY <1>5 DEF Resilient!Slide, Resilient!breaker
  <2>2. inWindow' \in Window
    BY <1>1, <1>5 DEF Resilient!Slide, Window
  <2> QED
    BY <1>1, <1>2, <2>1, <2>2, ProviderRests
<1>6. CASE Resilient!Reset
  <2>1. circuit' = "closed" /\ failures' = 0 /\ trials' = 0 /\ lapsed' = FALSE /\ streak' = 0 /\ inWindow' = 0
    BY <1>6 DEF Resilient!Reset
  <2>2. quarantine' \in Quarantines
    BY <1>6 DEF Resilient!Reset, Quarantines
  <2>a. 0 \in 0..Resilient!Cap /\ 0 \in 0..HalfOpenMax /\ 0 \in Window
    BY DEF Window
  <2>3. Resilient!TypeOK'
    BY <1>1, <1>2, <2>a, <2>1, <2>2, ProviderFieldsNext
  <2>6. ProviderRounds' /\ Resilient!ClosedIsHealthy'
    BY <2>1 DEF ProviderRounds, Resilient!ClosedIsHealthy
  <2> QED
    BY <2>3, <2>6 DEF ProviderInv
<1>7. CASE UNCHANGED providerVars
  <2>1. UNCHANGED <<circuit, failures, trials, lapsed, streak, quarantine, inWindow>>
    BY <1>7 DEF providerVars
  <2> QED
    BY <1>1, <1>2, <2>1, ProviderRests
<1> QED
  BY <1>3, <1>4, <1>5, <1>6, <1>7

\* Every step of the gates, of the callers and of time keeps the invariant.
LEMMA ProviderSteps ==
  ASSUME ProviderInv, Resilient!Next
  PROVE  ProviderInv'
  BY ProviderAsksCircuit, ProviderAsks, ProviderSucceeds, ProviderFails, ProviderWaits
  DEF Resilient!Next, Resilient!Gate, Resilient!Reply

\* A closed circuit opens when the failures in a row have reached the threshold.
LEMMA ProviderOpens ==
  ASSUME ProviderInv, Resilient!Next, circuit # "open", circuit' = "open"
  PROVE  circuit = "half_open" \/ streak' >= FailureThreshold
<1> USE ProviderConstants
<1>1. /\ failures \in 0..Resilient!Cap /\ streak \in 0..Resilient!Cap /\ circuit \in {"closed", "open", "half_open"}
  BY ProviderFields DEF ProviderInv
<1>2. Resilient!State # "open"
  BY ProviderState
<1>3. PICK t \in Threads : \E b \in BOOLEAN : Resilient!Failure(t, b)
  <2>1. ASSUME NEW t \in Threads, Resilient!Gate(t) \/ Resilient!Success(t) PROVE FALSE
    BY <1>2, <2>1 DEF Resilient!Gate, Resilient!AskCircuit, Resilient!AskQuarantine, Resilient!FilterWindow,
                      Resilient!StoreWindow, Resilient!AskBudget, Resilient!Send,
                      Resilient!Success, Resilient!RecordSuccess, Resilient!breaker
  <2>2. ~ (Resilient!Lapse \/ Resilient!QuarantineLapse \/ Resilient!Slide \/ Resilient!ManualOverride \/ Resilient!Reset)
    BY DEF Resilient!Lapse, Resilient!QuarantineLapse, Resilient!Slide, Resilient!ManualOverride, Resilient!Reset, Resilient!breaker
  <2> QED
    BY <2>1, <2>2 DEF Resilient!Next, Resilient!Reply
<1>4. /\ streak' = Resilient!UpTo(streak + 1)
      /\ circuit = "half_open" \/ failures + 1 >= FailureThreshold
  BY <1>3 DEF Resilient!Failure, Resilient!RecordFailure
<1>5. CASE circuit = "closed" /\ failures + 1 >= FailureThreshold
  <2>1. streak + 1 >= FailureThreshold
    BY <1>1, <1>5 DEF ProviderInv, Resilient!ClosedIsHealthy
  <2> QED
    BY <1>1, <1>4, <2>1, ProviderUpTo
<1> QED
  BY <1>1, <1>4, <1>5

-----------------------------------------------------------------------------
(***************************************************************************)
(* The choice of a provider.                                               *)
(***************************************************************************)
\* The configuration of the server that runs.
LEMMA GatewayConstants ==
  /\ MaxRequests \in Nat /\ MaxArrivals \in Nat /\ MaxRetries \in Nat \ {0}
  /\ server \in DOMAIN Servers =>
       /\ Gate!strategy \in Gate!Strategies
       /\ Len(Gate!config) \in Nat /\ DOMAIN Gate!config = 1..Len(Gate!config)
       /\ \A i \in DOMAIN Gate!config :
            Gate!config[i].priority \in Int /\ Gate!config[i].window \in Int
  BY RequestsAssumption DEF Gate!GatewayAssumption, Gate!config, Gate!strategy

\* Of finitely many candidates with integer values one has the greatest.
LEMMA GreatestValue ==
  ASSUME NEW n \in Nat, NEW S \in SUBSET (1..n), S # {}, NEW f, \A i \in S : f[i] \in Int
  PROVE  \E i \in S : \A j \in S : f[i] >= f[j]
<1> DEFINE Below(k) == {i \in S : i <= k}
           Greatest(k) == \E i \in Below(k) : \A j \in Below(k) : f[i] >= f[j]
           Bad == {k \in 1..n : Below(k) # {} /\ ~Greatest(k)}
<1>0. /\ \A i \in S : i \in Nat /\ 1 <= i /\ i <= n
      /\ n \in 1..n
  <2>1. \A i \in S : i \in Nat /\ 1 <= i /\ i <= n
    OBVIOUS
  <2>2. PICK i \in S : TRUE
    OBVIOUS
  <2> QED
    BY <2>1, <2>2
<1>1. Bad = {}
  <2> SUFFICES ASSUME Bad # {} PROVE FALSE
    OBVIOUS
  <2>1. Bad \in SUBSET Nat
    OBVIOUS
  <2>2. PICK k \in Bad : \A m \in Bad : k <= m
    BY <2>1, LeastNatural
  <2>3. k \in 1..n /\ Below(k) # {} /\ ~Greatest(k) /\ k - 1 \notin Bad
    BY <2>2
  <2>4. \A i \in Below(k) : i = k \/ i \in Below(k - 1)
    BY <2>3
  <2>5. Below(k - 1) \subseteq Below(k)
    <3>1. \A i \in S : i <= k - 1 => i <= k
      BY <1>0, <2>3
    <3> QED
      BY <3>1
  <2>6. CASE Below(k - 1) = {}
    <3>1. Below(k) = {k}
      BY <2>3, <2>4, <2>6
    <3> QED
      BY <2>3, <3>1
  <2>7. CASE Below(k - 1) # {}
    <3>a. PICK h \in S : h <= k - 1
      BY <2>7
    <3>1. k - 1 \in 1..n
      BY <1>0, <2>3, <3>a
    <3>2. Greatest(k - 1)
      BY <2>3, <2>7, <3>1
    <3>3. PICK i \in Below(k - 1) : \A j \in Below(k - 1) : f[i] >= f[j]
      BY <3>2
    <3>4. CASE k \in S /\ f[k] > f[i]
      <4>1. k \in Below(k) /\ f[k] \in Int /\ f[i] \in Int
        BY <2>3, <3>3, <3>4
      <4>2. \A j \in Below(k) : f[k] >= f[j]
        BY <2>4, <3>3, <3>4, <4>1
      <4> QED
        BY <2>3, <4>1, <4>2
    <3>5. CASE ~(k \in S /\ f[k] > f[i])
      <4>a. i \in S /\ f[i] \in Int
        BY <3>3
      <4>b. k \in S => f[k] \in Int
        OBVIOUS
      <4>c. k \in S => f[i] >= f[k]
        BY <3>5, <4>a, <4>b
      <4>1. ASSUME NEW j \in Below(k) PROVE f[i] >= f[j]
        <5>1. CASE j = k
          BY <4>c, <5>1
        <5>2. CASE j \in Below(k - 1)
          BY <3>3, <5>2
        <5> QED
          BY <2>4, <5>1, <5>2
      <4> QED
        BY <2>3, <2>5, <3>3, <4>1
    <3> QED
      BY <3>4, <3>5
  <2> QED
    BY <2>6, <2>7
<1>2. Below(n) = S
  BY <1>0
<1> QED
  BY <1>0, <1>1, <1>2

\* Max of the values of the candidates is the value of one of them, Min of the candidates one.
LEMMA GatewayMax ==
  ASSUME NEW n \in Nat, NEW S \in SUBSET (1..n), S # {}, NEW f, \A i \in S : f[i] \in Int
  PROVE  \E i \in S : f[i] = Gate!Max({f[j] : j \in S})
<1> DEFINE V == {f[j] : j \in S}
<1>1. PICK i \in S : \A j \in S : f[i] >= f[j]
  BY GreatestValue
<1>2. f[i] \in V /\ \A v \in V : f[i] >= v
  BY <1>1
<1>3. Gate!Max(V) = CHOOSE x \in V : \A y \in V : x >= y
  BY DEF Gate!Max
<1> HIDE DEF V
<1>4. Gate!Max(V) \in V
  BY <1>2, <1>3
<1> QED
  BY <1>4 DEF V

\* The least of some candidates is one of them.
LEMMA GatewayMin ==
  ASSUME NEW n \in Nat, NEW S \in SUBSET (1..n), S # {}
  PROVE  Gate!Min(S) \in S
<1>1. PICK i \in S : \A j \in S : i <= j
  BY LeastNatural
<1>2. Gate!Min(S) = CHOOSE x \in S : \A y \in S : x <= y
  BY DEF Gate!Min
<1> QED
  BY <1>1, <1>2

\* The best of some candidates is one of them.
LEMMA GatewayBest ==
  ASSUME NEW n \in Nat, NEW S \in SUBSET (1..n), S # {}, NEW f, \A i \in S : f[i] \in Int
  PROVE  Gate!Best(S, f) \in S
<1> DEFINE top == Gate!Max({f[i] : i \in S})
           T == {i \in S : f[i] = top}
<1>a. \E i \in S : f[i] = top
  BY GatewayMax
<1> HIDE DEF top
<1>1. T # {} /\ T \in SUBSET (1..n) /\ T \subseteq S
  BY <1>a
<1>2. Gate!Best(S, f) = Gate!Min(T)
  BY DEF Gate!Best, top
<1> HIDE DEF T
<1> QED
  BY <1>1, <1>2, GatewayMin

\* So is the one taken by priority.
LEMMA GatewayPick ==
  ASSUME server \in DOMAIN Servers, NEW S \in SUBSET DOMAIN Gate!config, S # {}, NEW target,
         NEW f, \A i \in S : f[i] \in Int
  PROVE  Gate!PickBest(Gate!config, S, target, f) \in S
<1> DEFINE n == Len(Gate!config)
           serving == {i \in S : target \in Gate!config[i].models}
           pool == IF serving # {} THEN serving ELSE S
           priority == [i \in pool |-> Gate!config[i].priority]
           top == Gate!Max({Gate!config[i].priority : i \in pool})
           T == {i \in pool : Gate!config[i].priority = top}
<1>1. n \in Nat /\ S \in SUBSET (1..n) /\ \A i \in S : Gate!config[i].priority \in Int
  BY GatewayConstants
<1>2. pool # {} /\ pool \subseteq S
  OBVIOUS
<1>3. Gate!PickBest(Gate!config, S, target, f) = Gate!Best(T, f)
  BY Zenon DEF Gate!PickBest
<1> HIDE DEF pool, n
<1>4. {priority[j] : j \in pool} = {Gate!config[i].priority : i \in pool}
  OBVIOUS
<1>5. \E i \in pool : priority[i] = Gate!Max({priority[j] : j \in pool})
  <2>1. pool \in SUBSET (1..n) /\ \A i \in pool : priority[i] \in Int
    BY <1>1, <1>2
  <2> HIDE DEF priority
  <2> QED
    BY <1>1, <1>2, <2>1, GatewayMax
<1>6. T # {} /\ T \in SUBSET (1..n) /\ T \subseteq S
  BY <1>1, <1>2, <1>4, <1>5
<1>7. \A i \in T : f[i] \in Int
  BY <1>6
<1> HIDE DEF T
<1>8. Gate!Best(T, f) \in T
  BY <1>1, <1>6, <1>7, GatewayBest
<1> QED
  BY <1>3, <1>6, <1>8

\* The provider that is selected for an anonymous request is free and available.
LEMMA GatewaySelects ==
  ASSUME server \in DOMAIN Servers, NEW target
  PROVE  LET p == Gate!SelectProvider(Gate!config, cooling, Gate!strategy, FALSE, target, NoRequest, {}, last) IN
         p = Gate!NoProvider \/ (p \in DOMAIN Gate!config /\ Gate!config[p].free /\ Gate!config[p].on)
<1> DEFINE p == Gate!SelectProvider(Gate!config, cooling, Gate!strategy, FALSE, target, NoRequest, {}, last)
           able == Gate!Available(Gate!config, cooling, FALSE)
           free == Gate!FreeOnes(Gate!config, able)
           level == Gate!InOrder(Gate!config)
           windows == [i \in able |-> Gate!config[i].window]
<1>1. /\ DOMAIN Gate!config = 1..Len(Gate!config) /\ Len(Gate!config) \in Nat
      /\ \A i \in DOMAIN Gate!config : Gate!config[i].window \in Int
      /\ Gate!strategy \in Gate!Strategies
  BY GatewayConstants
<1>2. able \in SUBSET DOMAIN Gate!config /\ \A i \in able : Gate!config[i].free /\ Gate!config[i].on
  BY DEF Gate!Available, Gate!IsAvailable
<1>3. \A i \in DOMAIN Gate!config : level[i] \in Int
  BY DEF Gate!InOrder
<1>4. \A i \in able : windows[i] \in Int
  BY <1>1, <1>2
<1>5. free \subseteq able
  BY DEF Gate!FreeOnes
<1>6. ASSUME NEW S \in SUBSET able, S # {}
      PROVE  Gate!PickBest(Gate!config, S, target, level) \in S
  <2>1. S \in SUBSET DOMAIN Gate!config /\ \A i \in S : level[i] \in Int
    BY <1>2, <1>3
  <2> HIDE DEF level
  <2> QED
    BY <1>6, <2>1, GatewayPick
<1>7. able # {} => Gate!PickBest(Gate!config, able, target, windows) \in able
  <2> HIDE DEF able, windows
  <2> QED
    BY <1>2, <1>4, GatewayPick
<1>8. able # {} => Gate!Min(able) \in able
  <2> HIDE DEF able
  <2> QED
    BY <1>1, <1>2, GatewayMin
<1>9. p = Gate!NoProvider \/ p \in able
  <2>1. CASE able = {}
    BY <2>1 DEF Gate!SelectProvider
  <2>2. CASE able # {} /\ Gate!strategy = "manual"
    <3>1. p = IF last \in able THEN last ELSE Gate!Min(able)
      BY <2>2 DEF Gate!SelectProvider
    <3> QED
      BY <2>2, <3>1, <1>8
  <2>3. CASE able # {} /\ Gate!strategy = "quality_first"
    <3>1. p = Gate!PickBest(Gate!config, able, target, windows)
      BY <2>3 DEF Gate!SelectProvider
    <3> QED
      BY <2>3, <3>1, <1>7
  <2>4. CASE able # {} /\ Gate!strategy = "local_first"
    <3>1. able \cap {} = {}
      OBVIOUS
    <3>2. p = Gate!PickBest(Gate!config, able, target, level)
      BY <2>4, <3>1 DEF Gate!SelectProvider
    <3> QED
      BY <2>4, <3>2, <1>6
  <2>5. CASE able # {} /\ Gate!strategy = "free_first"
    <3>1. \/ free # {} /\ p = Gate!PickBest(Gate!config, free, target, level)
          \/ p = Gate!PickBest(Gate!config, able, target, level)
          \/ p = Gate!NoProvider
      BY <2>5 DEF Gate!SelectProvider
    <3> QED
      BY <2>5, <3>1, <1>5, <1>6
  <2>6. CASE able # {} /\ Gate!strategy \in {"balanced", "capability_first"}
    <3>1. p = Gate!PickBest(Gate!config, able, target, level)
      BY <2>6 DEF Gate!SelectProvider
    <3> QED
      BY <2>6, <3>1, <1>6
  <2> QED
    BY <1>1, <2>1, <2>2, <2>3, <2>4, <2>5, <2>6 DEF Gate!Strategies
<1> HIDE DEF p, able
<1> QED
  BY <1>2, <1>9 DEF p

-----------------------------------------------------------------------------
(***************************************************************************)
(* The gateway: its threads, its limiter and their invariant.              *)
(***************************************************************************)
Statuses == {0, 200, 400, 403, 429, 502, 503}
RequestStates == [phase : Gate!Phases, stamp : 0..clock, seen : SUBSET (1..clock), model : Models \cup {"auto"},
                  stream : BOOLEAN, attempt : 0..(MaxRetries - 1),
                  provider : {Gate!NoProvider} \cup DOMAIN Gate!config, heads : Nat, failed : Nat, status : Statuses]

\* What is said of each request: the number of its status lines, that a call has a provider, that
\* a request in the limiter has its stamp, and that only a stream is read on.
Answers(r) == /\ ~r.stream => r.heads = r.failed + (IF r.phase = "done" /\ r.status # 0 THEN 1 ELSE 0)
              /\ r.phase = "calling" => r.provider # Gate!NoProvider
              /\ r.phase = "limited" => r.stamp >= 1
              /\ r.phase = "streaming" => r.stream
FreelyServed(p) == p # Gate!NoProvider => Gate!config[p].free /\ Gate!config[p].on

RequestsHold == \A t \in Threads : Answers(req[t]) /\ FreelyServed(req[t].provider)

GatewayInv == Gate!TypeOK /\ RequestsHold

\* Nobody has answered yet: every status line that was begun could not be written.
Unanswered(r) == r \in RequestStates /\ (~r.stream => r.heads = r.failed)

\* The types of the gateway, in the form the steps below use.
LEMMA GatewayFields ==
  Gate!TypeOK <=>
    /\ server \in DOMAIN Servers /\ Gate!strategy \in Gate!Strategies
    /\ clock \in 0..MaxArrivals /\ window \in 0..clock /\ bucket \subseteq 1..clock
    /\ cooling \subseteq DOMAIN Gate!config /\ last \in {Gate!NoProvider} \cup DOMAIN Gate!config
    /\ req \in [Threads -> RequestStates] /\ allowed \subseteq 1..clock
  BY DEF Gate!TypeOK, RequestStates, Statuses

\* The same of the next state.
LEMMA GatewayFieldsNext ==
  ASSUME server' \in DOMAIN Servers, Gate!strategy' \in Gate!Strategies,
         clock' \in 0..MaxArrivals, window' \in 0..clock', bucket' \subseteq 1..clock',
         cooling' \subseteq DOMAIN Gate!config', last' \in {Gate!NoProvider} \cup DOMAIN Gate!config',
         req' \in [Threads -> RequestStates'], allowed' \subseteq 1..clock'
  PROVE  Gate!TypeOK'
  BY DEF Gate!TypeOK, RequestStates, Statuses

\* The configuration is that of the server, which does not change.
LEMMA GatewayStays ==
  ASSUME GatewayInv, server' = server
  PROVE  /\ server \in DOMAIN Servers /\ Gate!config' = Gate!config /\ Gate!strategy' = Gate!strategy
         /\ Gate!strategy \in Gate!Strategies
         /\ \A p : FreelyServed(p)' <=> FreelyServed(p)
  BY GatewayFields DEF GatewayInv, Gate!config, Gate!strategy, FreelyServed

\* The other threads are where they were, and their requests are as they should be.
LEMMA GatewayOthers ==
  ASSUME GatewayInv, NEW t \in Threads, NEW r, Gate!Become(t, r), UNCHANGED server,
         Answers(r), FreelyServed(r.provider)
  PROVE  RequestsHold'
<1>1. req \in [Threads -> RequestStates] /\ req' = [req EXCEPT ![t] = r]
  BY GatewayFields DEF GatewayInv, Gate!Become
<1>2. \A u \in Threads : req'[u] = IF u = t THEN r ELSE req[u]
  BY <1>1
<1>3. Gate!config' = Gate!config
  BY GatewayStays
<1>4. ASSUME NEW u \in Threads
      PROVE  Answers(req'[u]) /\ (req'[u].provider # Gate!NoProvider =>
               Gate!config[req'[u].provider].free /\ Gate!config[req'[u].provider].on)
  <2>1. CASE u = t
    BY <1>2, <2>1 DEF FreelyServed
  <2>2. CASE u # t
    BY <1>2, <2>2 DEF GatewayInv, RequestsHold, FreelyServed
  <2> QED
    BY <2>1, <2>2
<1> QED
  BY <1>3, <1>4 DEF RequestsHold, FreelyServed, Answers

\* A thread goes on with its request, and the stamps are those of arrivals.
LEMMA GatewayServes ==
  ASSUME GatewayInv, NEW t \in Threads, NEW r \in RequestStates, Gate!Become(t, r),
         Answers(r), FreelyServed(r.provider),
         UNCHANGED <<server, clock, window>>, bucket' \subseteq 1..clock, allowed' \subseteq 1..clock,
         cooling' \subseteq DOMAIN Gate!config, last' \in {Gate!NoProvider} \cup DOMAIN Gate!config
  PROVE  GatewayInv'
<1>1. req \in [Threads -> RequestStates] /\ req' = [req EXCEPT ![t] = r]
  BY GatewayFields DEF GatewayInv, Gate!Become
<1>2. RequestStates' = RequestStates
  BY GatewayStays DEF RequestStates
<1>3. Gate!TypeOK'
  BY <1>1, <1>2, GatewayStays, GatewayFields, GatewayFieldsNext DEF GatewayInv
<1> QED
  BY <1>3, GatewayOthers DEF GatewayInv

\* What is known of the request of a thread.
LEMMA GatewayRequest ==
  ASSUME GatewayInv, NEW t \in Threads
  PROVE  /\ req[t] \in RequestStates /\ Answers(req[t]) /\ FreelyServed(req[t].provider)
         /\ req[t].provider \in {Gate!NoProvider} \cup DOMAIN Gate!config
         /\ req[t].phase # "done" => Unanswered(req[t])
         /\ clock \in Nat /\ bucket \subseteq 1..clock /\ allowed \subseteq 1..clock
         /\ cooling \subseteq DOMAIN Gate!config /\ last \in {Gate!NoProvider} \cup DOMAIN Gate!config
<1>1. req[t] \in RequestStates /\ Answers(req[t]) /\ FreelyServed(req[t].provider)
  BY GatewayFields DEF GatewayInv, RequestsHold
<1>2. req[t].provider \in {Gate!NoProvider} \cup DOMAIN Gate!config /\ req[t].failed \in Nat
  BY <1>1 DEF RequestStates
<1>3. req[t].phase # "done" => Unanswered(req[t])
  BY <1>1, <1>2 DEF Answers, Unanswered
<1>4. /\ clock \in Nat /\ bucket \subseteq 1..clock /\ allowed \subseteq 1..clock
      /\ cooling \subseteq DOMAIN Gate!config /\ last \in {Gate!NoProvider} \cup DOMAIN Gate!config
  BY GatewayFields, GatewayConstants DEF GatewayInv
<1> QED
  BY <1>1, <1>2, <1>3, <1>4

\* A thread between two requests.
LEMMA GatewayIdle ==
  ASSUME clock \in Nat
  PROVE  /\ Gate!Idle \in RequestStates /\ Answers(Gate!Idle) /\ FreelyServed(Gate!Idle.provider)
         /\ Gate!Idle.phase = "idle" /\ Gate!Idle.provider = Gate!NoProvider
         /\ Gate!Idle.heads = 0 /\ Gate!Idle.failed = 0
<1>1. 0 \in 0..clock /\ 0 \in 0..(MaxRetries - 1) /\ 0 \in Nat /\ {} \in SUBSET (1..clock)
  BY GatewayConstants
<1>2. Gate!Idle \in RequestStates
  BY <1>1 DEF Gate!Idle, RequestStates, Gate!Phases, Statuses
<1> QED
  BY <1>2 DEF Gate!Idle, Answers, FreelyServed

\* The record of a request that ends, with as many status lines as were begun for it.
LEMMA GatewayEnded ==
  ASSUME clock \in Nat, NEW r \in RequestStates, NEW status \in Statuses,
         ~r.stream => r.heads = r.failed + (IF status # 0 THEN 1 ELSE 0)
  PROVE  /\ Gate!End(r, status) \in RequestStates /\ Answers(Gate!End(r, status))
         /\ FreelyServed(Gate!End(r, status).provider)
<1> DEFINE e == Gate!End(r, status)
<1>1. r.stream \in BOOLEAN /\ r.heads \in Nat /\ r.failed \in Nat
  BY DEF RequestStates
<1>2. e \in RequestStates
  BY <1>1, GatewayIdle DEF Gate!End, RequestStates, Gate!Phases
<1>3. /\ e.phase = "done" /\ e.status = status /\ e.heads = r.heads /\ e.failed = r.failed
      /\ e.provider = Gate!NoProvider
  BY <1>1, GatewayIdle DEF Gate!End, RequestStates, Gate!Phases
<1>4. e.stream = r.stream
  BY <1>1, GatewayIdle DEF Gate!End, RequestStates, Gate!Phases
<1> HIDE DEF e
<1>5. ~e.stream => ~r.stream
  BY <1>1, <1>4
<1>6. ~e.stream => e.heads = e.failed + (IF e.phase = "done" /\ e.status # 0 THEN 1 ELSE 0)
  BY <1>3, <1>5
<1> QED
  BY <1>2, <1>3, <1>6 DEF Answers, FreelyServed, e

\* The record after a status line that was written, and after one that could not be.
LEMMA GatewayHeads ==
  ASSUME NEW r, Unanswered(r)
  PROVE  /\ Gate!Written(r) \in RequestStates /\ Unanswered(Gate!Unwritten(r))
         /\ Gate!Written(r).stream = r.stream
         /\ ~r.stream => Gate!Written(r).heads = Gate!Written(r).failed + 1
         /\ Gate!Written(r).phase = r.phase /\ Gate!Written(r).provider = r.provider
         /\ Gate!Unwritten(r).attempt = r.attempt
<1>1. r \in RequestStates /\ r.heads \in Nat /\ r.failed \in Nat /\ (~r.stream => r.heads = r.failed)
  BY DEF Unanswered, RequestStates
<1>2. Gate!Written(r) = [r EXCEPT !.heads = r.heads + 1]
  BY DEF Gate!Written
<1>3. Gate!Unwritten(r) = [r EXCEPT !.heads = r.heads + 1, !.failed = r.failed + 1]
  BY DEF Gate!Unwritten
<1> DEFINE h == r.heads + 1
           f == r.failed + 1
<1>4. h \in Nat /\ f \in Nat /\ (~r.stream => h = f)
  BY <1>1
<1>5. Gate!Written(r) = [r EXCEPT !.heads = h] /\ Gate!Unwritten(r) = [r EXCEPT !.heads = h, !.failed = f]
  BY <1>2, <1>3
<1>a. f = r.failed + 1
  OBVIOUS
<1> HIDE DEF h, f
<1>6. /\ Gate!Written(r) \in RequestStates /\ Gate!Written(r).heads = h /\ Gate!Written(r).failed = r.failed
      /\ Gate!Written(r).phase = r.phase /\ Gate!Written(r).provider = r.provider
  BY <1>1, <1>4, <1>5 DEF RequestStates
<1>7. Gate!Written(r).stream = r.stream
  BY <1>1, <1>5 DEF RequestStates
<1>8. /\ Gate!Unwritten(r) \in RequestStates /\ Gate!Unwritten(r).heads = h /\ Gate!Unwritten(r).failed = f
      /\ Gate!Unwritten(r).attempt = r.attempt
  BY <1>1, <1>4, <1>5 DEF RequestStates
<1>9. Gate!Unwritten(r).stream = r.stream
  BY <1>1, <1>5 DEF RequestStates
<1> QED
  BY <1>4, <1>a, <1>6, <1>7, <1>8, <1>9 DEF Unanswered

\* A request is answered by the handler itself, or the answer cannot be written.
LEMMA GatewayReplies ==
  ASSUME GatewayInv, NEW t \in Threads, NEW r, Unanswered(r), NEW status \in Statuses \ {0},
         Gate!Reply(t, r, status),
         UNCHANGED <<server, clock, window>>, bucket' \subseteq 1..clock, allowed' \subseteq 1..clock,
         cooling' \subseteq DOMAIN Gate!config, last' \in {Gate!NoProvider} \cup DOMAIN Gate!config
  PROVE  GatewayInv'
<1>1. clock \in Nat
  BY GatewayRequest
<1>2. CASE Gate!Become(t, Gate!End(Gate!Written(r), status))
  <2>1. /\ Gate!End(Gate!Written(r), status) \in RequestStates /\ Answers(Gate!End(Gate!Written(r), status))
        /\ FreelyServed(Gate!End(Gate!Written(r), status).provider)
    BY <1>1, GatewayHeads, GatewayEnded
  <2> QED
    BY <1>2, <2>1, GatewayServes
<1>3. CASE Gate!Become(t, Gate!End(Gate!Unwritten(r), 0))
  <2>1. /\ Gate!Unwritten(r) \in RequestStates /\ 0 \in Statuses /\ Gate!Unwritten(r).failed \in Nat
        /\ ~Gate!Unwritten(r).stream => Gate!Unwritten(r).heads = Gate!Unwritten(r).failed
    BY GatewayHeads DEF Unanswered, RequestStates, Statuses
  <2>2. /\ Gate!End(Gate!Unwritten(r), 0) \in RequestStates /\ Answers(Gate!End(Gate!Unwritten(r), 0))
        /\ FreelyServed(Gate!End(Gate!Unwritten(r), 0).provider)
    BY <1>1, <2>1, GatewayEnded
  <2> QED
    BY <1>3, <2>2, GatewayServes
<1> QED
  BY <1>2, <1>3 DEF Gate!Reply

\* A request ends without a word.
LEMMA GatewayDrops ==
  ASSUME GatewayInv, NEW t \in Threads, req[t].phase # "done", Gate!Become(t, Gate!End(req[t], 0)),
         UNCHANGED <<server, bucket, clock, window, allowed, cooling, last>>
  PROVE  GatewayInv'
<1>1. /\ req[t] \in RequestStates /\ 0 \in Statuses /\ req[t].failed \in Nat
      /\ ~req[t].stream => req[t].heads = req[t].failed
  BY GatewayRequest DEF Unanswered, RequestStates, Statuses
<1>2. /\ Gate!End(req[t], 0) \in RequestStates /\ Answers(Gate!End(req[t], 0))
      /\ FreelyServed(Gate!End(req[t], 0).provider)
  BY <1>1, GatewayRequest, GatewayEnded
<1> QED
  BY <1>2, GatewayRequest, GatewayServes

\* A request that nobody answered goes on to another phase.
LEMMA GatewayGoesOn ==
  ASSUME GatewayInv, NEW t \in Threads, NEW r, Unanswered(r), Gate!Become(t, r),
         r.phase \notin {"done", "limited"}, r.phase = "calling" => r.provider # Gate!NoProvider,
         r.phase = "streaming" => r.stream,
         FreelyServed(r.provider),
         UNCHANGED <<server, clock, window>>, bucket' \subseteq 1..clock, allowed' \subseteq 1..clock,
         cooling' \subseteq DOMAIN Gate!config, last' \in {Gate!NoProvider} \cup DOMAIN Gate!config
  PROVE  GatewayInv'
<1>1. r \in RequestStates /\ r.failed \in Nat
  BY DEF Unanswered, RequestStates
<1>2. Answers(r)
  BY <1>1 DEF Unanswered, Answers
<1> QED
  BY <1>1, <1>2, GatewayServes

\* A stamp joins the clock, and the request it is of enters the limiter with what it read there.
LEMMA GatewayArrives ==
  ASSUME GatewayInv, NEW t \in Threads, NEW m \in Models, NEW s \in BOOLEAN, Gate!Arrive(t, m, s)
  PROVE  GatewayInv'
<1> DEFINE now == clock + 1
           read == {x \in bucket : x > window}
           r == [Gate!Idle EXCEPT !.phase = "limited", !.stamp = now, !.model = m, !.stream = s, !.seen = read]
<1>1. /\ clock < MaxArrivals /\ clock' = now /\ Gate!Become(t, r)
      /\ UNCHANGED <<server, cooling, last, bucket, window, allowed>>
  BY DEF Gate!Arrive, Gate!hub
<1>2. /\ clock \in 0..MaxArrivals /\ MaxArrivals \in Nat /\ window \in 0..clock /\ bucket \subseteq 1..clock
      /\ allowed \subseteq 1..clock /\ req \in [Threads -> RequestStates]
      /\ cooling \subseteq DOMAIN Gate!config /\ last \in {Gate!NoProvider} \cup DOMAIN Gate!config
  BY GatewayFields, GatewayConstants DEF GatewayInv
<1>3. 0..clock \subseteq 0..now /\ 1..clock \subseteq 1..now /\ now \in 0..MaxArrivals /\ now >= 1 /\ now \in 0..now
  BY <1>1, <1>2
<1>4. Gate!config' = Gate!config /\ server' \in DOMAIN Servers /\ Gate!strategy' \in Gate!Strategies
  BY <1>1, GatewayStays
<1>5. RequestStates' = [phase : Gate!Phases, stamp : 0..now, seen : SUBSET (1..now), model : Models \cup {"auto"},
                        stream : BOOLEAN, attempt : 0..(MaxRetries - 1),
                        provider : {Gate!NoProvider} \cup DOMAIN Gate!config, heads : Nat, failed : Nat, status : Statuses]
  BY <1>1, <1>4 DEF RequestStates
<1> HIDE DEF now
<1>6. RequestStates \subseteq RequestStates'
  BY <1>3, <1>5 DEF RequestStates
<1>7. read \subseteq 1..now
  BY <1>2, <1>3
<1>8. /\ Gate!Idle \in RequestStates' /\ Gate!Idle.provider = Gate!NoProvider /\ Gate!Idle.heads = 0 /\ Gate!Idle.failed = 0
  BY <1>2, <1>6, GatewayIdle
<1> HIDE DEF read
<1>9. r \in RequestStates'
  BY <1>3, <1>5, <1>7, <1>8 DEF Gate!Phases
<1>10. r.phase = "limited" /\ r.stamp = now /\ r.provider = Gate!NoProvider /\ r.heads = 0 /\ r.failed = 0
  BY <1>5, <1>8
<1> HIDE DEF r
<1>11. req' = [req EXCEPT ![t] = r]
  BY <1>1 DEF Gate!Become
<1>12. req' \in [Threads -> RequestStates']
  BY <1>2, <1>6, <1>9, <1>11
<1>14. Gate!TypeOK'
  <2>1. clock' \in 0..MaxArrivals /\ window' \in 0..clock' /\ bucket' \subseteq 1..clock' /\ allowed' \subseteq 1..clock'
    BY <1>1, <1>2, <1>3
  <2>3. cooling' \subseteq DOMAIN Gate!config' /\ last' \in {Gate!NoProvider} \cup DOMAIN Gate!config'
    BY <1>1, <1>2, <1>4
  <2> QED
    BY <1>4, <1>12, <2>1, <2>3, GatewayFieldsNext
<1>15. Answers(r) /\ FreelyServed(r.provider)
  BY <1>3, <1>10 DEF Answers, FreelyServed
<1> QED
  BY <1>1, <1>14, <1>15, GatewayOthers DEF GatewayInv

\* A request leaves the limiter: let through, or refused with 429.
LEMMA GatewayLimits ==
  ASSUME GatewayInv, NEW t \in Threads, Gate!Limit(t)
  PROVE  GatewayInv'
<1> DEFINE passed == [req[t] EXCEPT !.phase = "checked", !.seen = {}, !.stamp = 0]
<1>1. /\ req[t].phase = "limited" /\ bucket' = req[t].seen \cup {req[t].stamp}
      /\ UNCHANGED <<server, cooling, last, clock, window>>
      /\ \/ Gate!Reply(t, req[t], 429) /\ UNCHANGED allowed
         \/ Gate!Become(t, passed) /\ allowed' = allowed \cup {req[t].stamp}
  BY DEF Gate!Limit, Gate!Answer, Gate!hub
<1>2. /\ req[t] \in RequestStates /\ Answers(req[t]) /\ FreelyServed(req[t].provider) /\ Unanswered(req[t])
      /\ clock \in Nat /\ allowed \subseteq 1..clock
      /\ cooling \subseteq DOMAIN Gate!config /\ last \in {Gate!NoProvider} \cup DOMAIN Gate!config
  BY <1>1, GatewayRequest
<1>3. req[t].stamp \in 1..clock /\ req[t].seen \subseteq 1..clock
  <2>1. req[t].stamp \in 0..clock /\ req[t].seen \subseteq 1..clock
    BY <1>2 DEF RequestStates
  <2>2. req[t].stamp >= 1
    BY <1>1, <1>2 DEF Answers
  <2> QED
    BY <1>2, <2>1, <2>2
<1>4. /\ bucket' \subseteq 1..clock /\ allowed' \subseteq 1..clock
      /\ cooling' \subseteq DOMAIN Gate!config /\ last' \in {Gate!NoProvider} \cup DOMAIN Gate!config
  BY <1>1, <1>2, <1>3
<1>5. CASE Gate!Reply(t, req[t], 429)
  <2>1. 429 \in Statuses \ {0}
    BY DEF Statuses
  <2> QED
    BY <1>1, <1>2, <1>4, <1>5, <2>1, GatewayReplies
<1>6. CASE Gate!Become(t, passed)
  <2>1. /\ passed \in RequestStates /\ passed.phase = "checked" /\ passed.heads = req[t].heads
        /\ passed.failed = req[t].failed /\ passed.provider = req[t].provider
    <3>1. 0 \in 0..clock
      BY <1>2
    <3> QED
      BY <1>2, <3>1 DEF RequestStates, Gate!Phases
  <2>2. passed.stream = req[t].stream
    BY <1>2 DEF RequestStates
  <2>3. Gate!Become(t, passed)
    BY <1>6
  <2> HIDE DEF passed
  <2>4. Unanswered(passed)
    BY <1>2, <2>1, <2>2 DEF Unanswered
  <2> QED
    BY <1>1, <1>2, <1>4, <2>1, <2>3, <2>4, GatewayGoesOn
<1> QED
  BY <1>1, <1>5, <1>6

\* An error is told to the client, or it is tried again with another provider.
LEMMA GatewayErrs ==
  ASSUME GatewayInv, NEW t \in Threads, NEW kind \in Gate!Failures, NEW r, Unanswered(r),
         Gate!AfterError(t, r, kind),
         UNCHANGED <<server, bucket, clock, window, allowed>>,
         cooling' \subseteq DOMAIN Gate!config, last' \in {Gate!NoProvider} \cup DOMAIN Gate!config
  PROVE  GatewayInv'
<1>1. {502, 503} \subseteq Statuses \ {0} /\ bucket' \subseteq 1..clock /\ allowed' \subseteq 1..clock
  BY GatewayRequest DEF Statuses
<1>2. ASSUME NEW status \in {502, 503}, Gate!Reply(t, r, status) PROVE GatewayInv'
  BY <1>1, <1>2, GatewayReplies
<1>3. CASE kind \in {"runtime", "auth"}
  BY <1>2, <1>3 DEF Gate!AfterError
<1>4. CASE kind = "other"
  <2> DEFINE again == r.attempt + 1
             w == [r EXCEPT !.phase = "choosing", !.attempt = again, !.provider = Gate!NoProvider]
  <2>1. CASE again < MaxRetries
    <3>1. r \in RequestStates /\ r.attempt \in 0..(MaxRetries - 1) /\ (~r.stream => r.heads = r.failed)
      BY DEF Unanswered, RequestStates
    <3>2. again \in 0..(MaxRetries - 1)
      BY <2>1, <3>1, GatewayConstants
    <3>3. Gate!Become(t, w)
      BY <1>4, <2>1 DEF Gate!AfterError
    <3> HIDE DEF again
    <3>4. /\ w \in RequestStates /\ w.heads = r.heads /\ w.failed = r.failed
          /\ w.phase = "choosing" /\ w.provider = Gate!NoProvider
      BY <3>1, <3>2 DEF RequestStates, Gate!Phases
    <3>5. w.stream = r.stream
      BY <3>1 DEF RequestStates
    <3> HIDE DEF w
    <3>6. Unanswered(w) /\ FreelyServed(w.provider)
      BY <3>1, <3>4, <3>5 DEF Unanswered, FreelyServed
    <3> QED
      BY <1>1, <3>3, <3>4, <3>6, GatewayGoesOn
  <2>2. CASE ~(again < MaxRetries)
    <3>1. Gate!Reply(t, r, 502)
      BY <1>4, <2>2 DEF Gate!AfterError
    <3> QED
      BY <1>2, <3>1
  <2> QED
    BY <2>1, <2>2
<1> QED
  BY <1>3, <1>4 DEF Gate!Failures

\* The body is refused; the router chooses a provider that is free, or there is none.
LEMMA GatewayChooses ==
  ASSUME GatewayInv, NEW t \in Threads, Gate!RefuseBody(t) \/ Gate!CheckModel(t) \/ Gate!Choose(t)
  PROVE  GatewayInv'
<1> DEFINE p == Gate!SelectProvider(Gate!config, cooling, Gate!strategy, FALSE, req[t].model, NoRequest, {}, last)
<1>1. UNCHANGED <<server, bucket, clock, window, allowed, cooling, last>>
  BY DEF Gate!RefuseBody, Gate!CheckModel, Gate!Choose, Gate!hub, Gate!limiter
<1>2. /\ req[t].phase \in {"checked", "choosing"} /\ req[t] \in RequestStates /\ FreelyServed(req[t].provider)
      /\ Unanswered(req[t]) /\ bucket' \subseteq 1..clock /\ allowed' \subseteq 1..clock
      /\ cooling' \subseteq DOMAIN Gate!config /\ last' \in {Gate!NoProvider} \cup DOMAIN Gate!config
      /\ server \in DOMAIN Servers
  <2>1. req[t].phase \in {"checked", "choosing"}
    BY DEF Gate!RefuseBody, Gate!CheckModel, Gate!Choose
  <2> QED
    BY <1>1, <2>1, GatewayRequest, GatewayFields DEF GatewayInv
<1>3. ASSUME NEW status \in {400, 403, 503}, Gate!Answer(t, status) PROVE GatewayInv'
  <2>1. status \in Statuses \ {0}
    BY DEF Statuses
  <2> QED
    BY <1>1, <1>2, <1>3, <2>1, GatewayReplies DEF Gate!Answer
<1>4. CASE Gate!RefuseBody(t)
  <2>1. Gate!Answer(t, 400) \/ Gate!Become(t, Gate!End(req[t], 0))
    BY <1>4 DEF Gate!RefuseBody
  <2>2. CASE Gate!Become(t, Gate!End(req[t], 0))
    BY <1>1, <1>2, <2>2, GatewayDrops
  <2> QED
    BY <1>3, <2>1, <2>2
<1>5. CASE Gate!CheckModel(t)
  <2> DEFINE r == [req[t] EXCEPT !.phase = "choosing"]
  <2>1. Gate!Answer(t, 403) \/ Gate!Answer(t, 503) \/ Gate!Become(t, r)
    BY <1>5 DEF Gate!CheckModel, Gate!Move
  <2>2. CASE Gate!Become(t, r)
    <3>1. /\ r \in RequestStates /\ r.heads = req[t].heads /\ r.failed = req[t].failed
          /\ r.phase = "choosing" /\ r.provider = req[t].provider
      BY <1>2 DEF RequestStates, Gate!Phases
    <3>2. r.stream = req[t].stream
      BY <1>2 DEF RequestStates
    <3>3. Gate!Become(t, r)
      BY <2>2
    <3> HIDE DEF r
    <3>4. Unanswered(r)
      BY <1>2, <3>1, <3>2 DEF Unanswered
    <3> QED
      BY <1>1, <1>2, <3>1, <3>3, <3>4, GatewayGoesOn
  <2> QED
    BY <1>3, <2>1, <2>2
<1>6. CASE Gate!Choose(t)
  <2>1. IF p = Gate!NoProvider THEN Gate!Answer(t, 503)
        ELSE Gate!Become(t, [req[t] EXCEPT !.phase = "calling", !.provider = p])
    BY <1>6 DEF Gate!Choose
  <2>2. p = Gate!NoProvider \/ (p \in DOMAIN Gate!config /\ FreelyServed(p))
    BY <1>2, GatewaySelects DEF FreelyServed
  <2> HIDE DEF p
  <2>3. CASE p = Gate!NoProvider
    BY <1>3, <2>1, <2>3
  <2>4. CASE p # Gate!NoProvider
    <3> DEFINE r == [req[t] EXCEPT !.phase = "calling", !.provider = p]
    <3>1. /\ r \in RequestStates /\ r.heads = req[t].heads /\ r.failed = req[t].failed
          /\ r.phase = "calling" /\ r.provider = p
      BY <1>2, <2>2, <2>4 DEF RequestStates, Gate!Phases
    <3>2. r.stream = req[t].stream
      BY <1>2 DEF RequestStates
    <3>3. Gate!Become(t, r)
      BY <2>1, <2>4
    <3> HIDE DEF r
    <3>4. Unanswered(r) /\ FreelyServed(r.provider)
      BY <1>2, <2>2, <2>4, <3>1, <3>2 DEF Unanswered
    <3> QED
      BY <1>1, <1>2, <2>4, <3>1, <3>3, <3>4, GatewayGoesOn
  <2> QED
    BY <2>3, <2>4
<1> QED
  BY <1>4, <1>5, <1>6

\* The provider answers, and the handler writes the answer or begins the stream.
LEMMA GatewaySucceeds ==
  ASSUME GatewayInv, NEW t \in Threads, Gate!Succeed(t)
  PROVE  GatewayInv'
<1> DEFINE w == Gate!Written(req[t])
           r == [w EXCEPT !.phase = "streaming"]
<1>1. /\ UNCHANGED <<server, bucket, clock, window, allowed>> /\ req[t].phase = "calling"
      /\ cooling' = cooling \ {req[t].provider} /\ last' = req[t].provider
      /\ IF req[t].stream THEN Gate!Become(t, r) ELSE Gate!Become(t, Gate!End(w, 200))
  BY DEF Gate!Succeed, Gate!MarkSuccess, Gate!limiter
<1>2. /\ cooling' \subseteq DOMAIN Gate!config /\ last' \in {Gate!NoProvider} \cup DOMAIN Gate!config
      /\ bucket' \subseteq 1..clock /\ allowed' \subseteq 1..clock /\ clock \in Nat
      /\ FreelyServed(req[t].provider)
  BY <1>1, GatewayRequest
<1>3. /\ w \in RequestStates /\ w.stream = req[t].stream /\ w.provider = req[t].provider
      /\ ~w.stream => w.heads = w.failed + 1
  BY <1>1, GatewayRequest, GatewayHeads
<1> HIDE DEF w
<1>4. CASE req[t].stream
  <2>1. r \in RequestStates /\ r.phase = "streaming" /\ r.provider = req[t].provider
    BY <1>3 DEF RequestStates, Gate!Phases
  <2>2. r.stream
    BY <1>3, <1>4 DEF RequestStates
  <2>3. Gate!Become(t, r)
    BY <1>1, <1>4
  <2> HIDE DEF r
  <2> QED
    BY <1>1, <1>2, <2>1, <2>2, <2>3, GatewayGoesOn DEF Unanswered
<1>5. CASE ~req[t].stream
  <2>1. Gate!Become(t, Gate!End(w, 200)) /\ 200 \in Statuses
    BY <1>1, <1>5 DEF Statuses
  <2>2. /\ Gate!End(w, 200) \in RequestStates /\ Answers(Gate!End(w, 200))
        /\ FreelyServed(Gate!End(w, 200).provider)
    BY <1>2, <1>3, <2>1, GatewayEnded
  <2> QED
    BY <1>1, <1>2, <2>1, <2>2, GatewayServes
<1> QED
  BY <1>4, <1>5

\* A call, a body, a write or a stream fails, and the request goes on as after any error.
LEMMA GatewayFails ==
  ASSUME GatewayInv, NEW t \in Threads, NEW kind \in Gate!Failures,
         Gate!FailCall(t, kind) \/ Gate!FailBody(t, kind) \/ Gate!FailWrite(t) \/ Gate!BreakStream(t, kind)
  PROVE  GatewayInv'
<1>1. UNCHANGED <<server, bucket, clock, window, allowed>>
  BY DEF Gate!FailCall, Gate!FailBody, Gate!FailWrite, Gate!BreakStream, Gate!hub, Gate!limiter
<1>2. /\ req[t].phase \in {"calling", "streaming"}
      /\ Gate!FailCall(t, kind) \/ Gate!FailBody(t, kind) \/ Gate!FailWrite(t) => req[t].phase = "calling"
  BY DEF Gate!FailCall, Gate!FailBody, Gate!FailWrite, Gate!BreakStream
<1>3. Unanswered(req[t]) /\ Unanswered(Gate!Unwritten(req[t]))
  BY <1>2, GatewayRequest, GatewayHeads
<1>4. cooling' \subseteq DOMAIN Gate!config /\ last' \in {Gate!NoProvider} \cup DOMAIN Gate!config
  <2>1. CASE Gate!FailCall(t, kind)
    <3>1. cooling' = cooling \cup {req[t].provider} /\ last' = last
      BY <2>1 DEF Gate!FailCall, Gate!MarkFailure
    <3>2. req[t].provider \in DOMAIN Gate!config
      BY <1>2, <2>1, GatewayRequest DEF Answers
    <3> QED
      BY <3>1, <3>2, GatewayRequest
  <2>2. CASE Gate!FailBody(t, kind) \/ Gate!FailWrite(t)
    <3>1. cooling' = cooling \ {req[t].provider} /\ last' = req[t].provider
      BY <2>2 DEF Gate!FailBody, Gate!FailWrite, Gate!MarkSuccess
    <3> QED
      BY <3>1, GatewayRequest
  <2>3. CASE Gate!BreakStream(t, kind)
    <3>1. UNCHANGED <<cooling, last>>
      BY <2>3 DEF Gate!BreakStream, Gate!hub
    <3> QED
      BY <3>1, GatewayRequest
  <2> QED
    BY <2>1, <2>2, <2>3
<1>5. CASE Gate!FailWrite(t)
  <2>1. Gate!AfterError(t, Gate!Unwritten(req[t]), "other") /\ "other" \in Gate!Failures
    BY <1>5 DEF Gate!FailWrite, Gate!Failures
  <2> QED
    BY <1>1, <1>3, <1>4, <2>1, GatewayErrs
<1>6. CASE ~Gate!FailWrite(t)
  <2>1. Gate!AfterError(t, req[t], kind)
    BY <1>6 DEF Gate!FailCall, Gate!FailBody, Gate!BreakStream
  <2> QED
    BY <1>1, <1>3, <1>4, <2>1, GatewayErrs
<1> QED
  BY <1>5, <1>6

\* A stream comes to its end; a thread takes up its next request.
LEMMA GatewayFinishes ==
  ASSUME GatewayInv, NEW t \in Threads, Gate!EndStream(t) \/ Gate!Finish(t)
  PROVE  GatewayInv'
<1>1. UNCHANGED <<server, bucket, clock, window, allowed, cooling, last>>
  BY DEF Gate!EndStream, Gate!Finish, Gate!hub, Gate!limiter
<1>2. /\ bucket' \subseteq 1..clock /\ allowed' \subseteq 1..clock /\ clock \in Nat /\ req[t] \in RequestStates
      /\ cooling' \subseteq DOMAIN Gate!config /\ last' \in {Gate!NoProvider} \cup DOMAIN Gate!config
  BY <1>1, GatewayRequest
<1>3. CASE Gate!EndStream(t)
  <2>1. Gate!Become(t, Gate!End(req[t], 200)) /\ req[t].phase = "streaming"
    BY <1>3 DEF Gate!EndStream
  <2>2. 200 \in Statuses /\ req[t].stream
    BY <2>1, GatewayRequest DEF Statuses, Answers
  <2>3. /\ Gate!End(req[t], 200) \in RequestStates /\ Answers(Gate!End(req[t], 200))
        /\ FreelyServed(Gate!End(req[t], 200).provider)
    BY <1>2, <2>2, GatewayEnded
  <2> QED
    BY <1>1, <1>2, <2>1, <2>3, GatewayServes
<1>4. CASE Gate!Finish(t)
  <2>1. Gate!Become(t, Gate!Idle)
    BY <1>4 DEF Gate!Finish
  <2> QED
    BY <1>1, <1>2, <2>1, GatewayIdle, GatewayServes
<1> QED
  BY <1>3, <1>4

\* The window slides; a provider has cooled down; or nothing happens.
LEMMA GatewayWaits ==
  ASSUME GatewayInv, Gate!Slide \/ Gate!Cool \/ UNCHANGED gatewayVars
  PROVE  GatewayInv'
<1>1. UNCHANGED <<server, bucket, clock, allowed, req>>
  BY DEF Gate!Slide, Gate!Cool, gatewayVars, Gate!hub, Gate!limiter
<1>2. /\ server \in DOMAIN Servers /\ Gate!strategy \in Gate!Strategies
      /\ clock \in 0..MaxArrivals /\ MaxArrivals \in Nat /\ clock \in Nat /\ window \in 0..clock /\ bucket \subseteq 1..clock
      /\ cooling \subseteq DOMAIN Gate!config /\ last \in {Gate!NoProvider} \cup DOMAIN Gate!config
      /\ req \in [Threads -> RequestStates] /\ allowed \subseteq 1..clock
  BY GatewayFields, GatewayConstants DEF GatewayInv
<1>3. Gate!config' = Gate!config /\ Gate!strategy' = Gate!strategy /\ RequestStates' = RequestStates
  BY <1>1, GatewayStays DEF RequestStates
<1>4. /\ cooling' \subseteq DOMAIN Gate!config /\ last' \in {Gate!NoProvider} \cup DOMAIN Gate!config
  BY <1>2 DEF Gate!Slide, Gate!Cool, gatewayVars, Gate!hub
<1>5. window' = window \/ (window' = window + 1 /\ window < clock)
  BY DEF Gate!Slide, Gate!Cool, gatewayVars, Gate!limiter
<1>6. window' \in 0..clock
  BY <1>2, <1>5
<1>7. Gate!TypeOK'
  BY <1>1, <1>2, <1>3, <1>4, <1>6, GatewayFieldsNext
<1>8. RequestsHold'
  BY <1>1, <1>3 DEF GatewayInv, RequestsHold, FreelyServed, Answers
<1> QED
  BY <1>7, <1>8 DEF GatewayInv

\* Every step of the gateway keeps its invariant.
LEMMA GatewaySteps ==
  ASSUME GatewayInv, Gate!Next
  PROVE  GatewayInv'
<1>1. ASSUME NEW t \in Threads, NEW m \in Models, NEW s \in BOOLEAN, Gate!Arrive(t, m, s) PROVE GatewayInv'
  BY <1>1, GatewayArrives
<1>2. ASSUME NEW t \in Threads, Gate!Serve(t) PROVE GatewayInv'
  <2>1. CASE Gate!Limit(t)
    BY <2>1, GatewayLimits
  <2>2. CASE Gate!RefuseBody(t) \/ Gate!CheckModel(t) \/ Gate!Choose(t)
    BY <2>2, GatewayChooses
  <2>3. CASE Gate!Succeed(t)
    BY <2>3, GatewaySucceeds
  <2>4. CASE Gate!EndStream(t)
    BY <2>4, GatewayFinishes
  <2>5. ASSUME NEW k \in Gate!Failures, Gate!FailCall(t, k) \/ Gate!FailBody(t, k) \/ Gate!BreakStream(t, k)
        PROVE  GatewayInv'
    BY <2>5, GatewayFails
  <2>6. CASE Gate!FailWrite(t)
    <3>1. "other" \in Gate!Failures
      BY DEF Gate!Failures
    <3> QED
      BY <2>6, <3>1, GatewayFails
  <2> QED
    BY <1>2, <2>1, <2>2, <2>3, <2>4, <2>5, <2>6 DEF Gate!Serve
<1>3. ASSUME NEW t \in Threads, Gate!Finish(t) PROVE GatewayInv'
  BY <1>3, GatewayFinishes
<1>4. CASE Gate!Slide \/ Gate!Cool
  BY <1>4, GatewayWaits
<1> QED
  BY <1>1, <1>2, <1>3, <1>4 DEF Gate!Next

\* A gateway starts with idle threads and nothing counted.
LEMMA GatewayInit ==
  ASSUME Gate!Init
  PROVE  GatewayInv
<1>1. /\ server \in DOMAIN Servers /\ bucket = {} /\ clock = 0 /\ window = 0 /\ allowed = {}
      /\ cooling = {} /\ last = Gate!NoProvider /\ req = [t \in Threads |-> Gate!Idle]
  BY DEF Gate!Init
<1>2. /\ Gate!strategy \in Gate!Strategies /\ MaxArrivals \in Nat /\ MaxRequests \in Nat
  BY <1>1, GatewayConstants
<1>3. Gate!Idle \in RequestStates /\ Answers(Gate!Idle) /\ FreelyServed(Gate!Idle.provider)
  BY <1>1, GatewayIdle
<1>4. req \in [Threads -> RequestStates]
  BY <1>1, <1>3
<1>5. Gate!TypeOK
  <2>1. clock \in 0..MaxArrivals /\ window \in 0..clock
    BY <1>1, <1>2
  <2>2. bucket \subseteq 1..clock /\ allowed \subseteq 1..clock /\ cooling \subseteq DOMAIN Gate!config
    BY <1>1, Zenon
  <2>3. last \in {Gate!NoProvider} \cup DOMAIN Gate!config
    BY <1>1, Zenon
  <2> QED
    BY <1>1, <1>2, <1>4, <2>1, <2>2, <2>3, GatewayFields
<1>9. RequestsHold
  BY <1>1, <1>3 DEF RequestsHold
<1> QED
  BY <1>5, <1>9 DEF GatewayInv

\* What the runs check of the gateway follows from its invariant.
LEMMA GatewayServesFreely ==
  ASSUME GatewayInv
  PROVE  Gate!TypeOK /\ Gate!OnlyFreeProvidersServe /\ Gate!OneAnswer
  BY DEF GatewayInv, RequestsHold, FreelyServed, Answers, Gate!OnlyFreeProvidersServe, Gate!OneAnswer
=============================================================================
