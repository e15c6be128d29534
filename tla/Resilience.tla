----------------------------- MODULE Resilience -----------------------------
(***************************************************************************)
(* The gates of src/argus/providers/resilience around one provider and     *)
(* model: circuit breaker, quarantine and rate budget.  The package has no *)
(* client of its own; its callers are modelled as threads that ask the     *)
(* gates in that order, record the request, send it, and record how it     *)
(* ended, each of these a separate call; the rate budget filters its list  *)
(* and stores it again in two steps of one call, without a lock.           *)
(* RetryHandler drives one thread's attempts.                              *)
(*                                                                         *)
(* A timer is TRUE once its time is over; a failure starts the circuit's   *)
(* timer again.  The rate window holds the requests of the last            *)
(* window_seconds; time lets the oldest go.                                *)
(***************************************************************************)
EXTENDS Integers, FiniteSets

CONSTANTS Threads,
          FailureThreshold, HalfOpenMax,     \* CircuitBreaker
          QuarantineThreshold,               \* QuarantineManager
          MaxRequests,                       \* RateBudget
          MaxRetries, MaxAttempts            \* RetryHandler and its backoff

ResilienceAssumption ==
    /\ IsFiniteSet(Threads) /\ Threads # {}
    /\ {FailureThreshold, HalfOpenMax} \subseteq Nat \ {0}
    /\ {QuarantineThreshold, MaxRequests, MaxRetries, MaxAttempts} \subseteq Nat

WindowCap == MaxRequests + 1               \* more requests than that are alike

VARIABLES
    circuit, failures, trials, lapsed,       \* CircuitBreaker: _circuits, _failure_counts,
                                             \* _half_open_requests, and its timer
    quarantine,                              \* QuarantineRecord
    inWindow,                                \* RateBudget._requests
    thread,                                  \* per thread: phase, attempt and the filtered list
    streak                                   \* failures since a success (history)

breaker == <<circuit, failures, trials, lapsed, streak>>
vars == <<breaker, quarantine, inWindow, thread>>

Cap == IF FailureThreshold > QuarantineThreshold THEN FailureThreshold ELSE QuarantineThreshold
UpTo(n) == IF n > Cap THEN Cap ELSE n      \* counters beyond every threshold are alike

Phases == {"idle", "asked", "cleared", "filtered", "stored", "budgeted", "flying"}

TypeOK ==
    /\ circuit \in {"closed", "open", "half_open"}
    /\ failures \in 0..Cap /\ streak \in 0..Cap /\ trials \in 0..HalfOpenMax
    /\ lapsed \in BOOLEAN
    /\ quarantine \in [failures : 0..Cap, on : BOOLEAN, lapsed : BOOLEAN, overridden : BOOLEAN]
    /\ inWindow \in 0..WindowCap
    /\ thread \in [Threads -> [phase : Phases, attempt : 0..MaxRetries, kept : 0..WindowCap]]

Rest == [phase |-> "idle", attempt |-> 0, kept |-> 0]

Init ==
    /\ circuit = "closed" /\ failures = 0 /\ trials = 0 /\ lapsed = FALSE /\ streak = 0
    /\ quarantine = [failures |-> 0, on |-> FALSE, lapsed |-> FALSE, overridden |-> FALSE]
    /\ inWindow = 0
    /\ thread = [t \in Threads |-> Rest]

Step(t, from, to) == thread[t].phase = from /\ thread' = [thread EXCEPT ![t].phase = to]

-----------------------------------------------------------------------------
(* The gates. *)

StateUntimed == circuit

\* get_state: an open circuit whose timer is over becomes half open
State == IF circuit = "open" /\ lapsed THEN "half_open" ELSE circuit
Trials == IF circuit = "open" /\ lapsed THEN 0 ELSE trials

Allows == \/ State = "closed"
          \/ State = "half_open" /\ Trials < HalfOpenMax

AskCircuit(t) ==
    /\ circuit' = State /\ trials' = Trials
    /\ IF Allows THEN Step(t, "idle", "asked") ELSE thread[t].phase = "idle" /\ UNCHANGED thread
    /\ UNCHANGED <<failures, lapsed, streak, quarantine, inWindow>>

IsQuarantined == quarantine.on /\ ~quarantine.overridden /\ ~quarantine.lapsed

AskQuarantine(t) ==
    /\ Step(t, "asked", IF IsQuarantined THEN "idle" ELSE "cleared")
    /\ UNCHANGED <<breaker, quarantine, inWindow>>

\* can_make_request in three steps: _clean_old_requests reads and filters the list,
FilterWindow(t) ==
    /\ thread[t].phase = "cleared"
    /\ thread' = [thread EXCEPT ![t].phase = "filtered", ![t].kept = inWindow]
    /\ UNCHANGED <<breaker, quarantine, inWindow>>

\* puts what it kept in the place of the list, and of what was recorded meanwhile,
StoreWindow(t) ==
    /\ thread[t].phase = "filtered"
    /\ inWindow' = thread[t].kept
    /\ thread' = [thread EXCEPT ![t].phase = "stored", ![t].kept = 0]
    /\ UNCHANGED <<breaker, quarantine>>

\* and the list is read again and counted
CanMakeRequest == inWindow < MaxRequests

AskBudget(t) ==
    /\ Step(t, "stored", IF CanMakeRequest THEN "budgeted" ELSE "idle")
    /\ UNCHANGED <<breaker, quarantine, inWindow>>

\* record_request, and the request is sent
Send(t) ==
    /\ Step(t, "budgeted", "flying")
    /\ inWindow' = IF inWindow = WindowCap THEN WindowCap ELSE inWindow + 1
    /\ UNCHANGED <<breaker, quarantine>>

-----------------------------------------------------------------------------
(* The answers. *)

RecordSuccessForgetful ==
    /\ streak' = 0
    /\ circuit' = IF State = "half_open" THEN "closed" ELSE State
    /\ trials' = Trials
    /\ UNCHANGED <<failures, lapsed>>

RecordSuccessLate ==
    /\ streak' = 0
    /\ trials' = IF State = "half_open" THEN Trials + 1 ELSE Trials
    /\ circuit' = IF State = "half_open" /\ Trials >= HalfOpenMax THEN "closed" ELSE State
    /\ UNCHANGED <<failures, lapsed>>

\* record_success; in an open circuit it is a late one, and clears the count
RecordSuccess ==
    /\ streak' = 0
    /\ IF State = "half_open"
       THEN LET n == Trials + 1 IN
            /\ trials' = n
            /\ circuit' = IF n >= HalfOpenMax THEN "closed" ELSE "half_open"
            /\ failures' = IF n >= HalfOpenMax THEN 0 ELSE failures
       ELSE failures' = 0 /\ circuit' = State /\ trials' = Trials
    /\ UNCHANGED lapsed

RecordFailureEarly ==
    /\ failures' = UpTo(failures + 1)
    /\ streak' = UpTo(streak + 1)
    /\ lapsed' = FALSE
    /\ circuit' = IF circuit = "half_open" \/ failures + 2 >= FailureThreshold
                  THEN "open" ELSE circuit
    /\ UNCHANGED trials

\* record_failure: the timer starts again before the state is looked at, so a
\* failure in an open circuit keeps it open
RecordFailure ==
    /\ failures' = UpTo(failures + 1)
    /\ streak' = UpTo(streak + 1)
    /\ lapsed' = FALSE
    /\ circuit' = IF circuit = "half_open" \/ failures + 1 >= FailureThreshold
                  THEN "open" ELSE circuit
    /\ UNCHANGED trials

\* QuarantineManager.record_failure; nothing ever lowers the count
Quarantined ==
    LET n == UpTo(quarantine.failures + 1) IN
    [quarantine EXCEPT !.failures = n,
                       !.on = @ \/ n >= QuarantineThreshold,
                       !.lapsed = @ /\ n < QuarantineThreshold]

Success(t) ==
    /\ thread[t].phase = "flying"
    /\ thread' = [thread EXCEPT ![t] = Rest]
    /\ RecordSuccess
    /\ UNCHANGED <<quarantine, inWindow>>

\* execute_with_retry: how many attempts an operation has
MayRetry(attempt) == attempt < MaxRetries /\ attempt < MaxAttempts

Again(r) == [r EXCEPT !.attempt = @ + 1]

\* The failure is recorded; a retryable one sends the request again after the
\* backoff, and does not ask the gates again
Failure(t, retryable) ==
    /\ thread[t].phase = "flying"
    /\ RecordFailure
    /\ quarantine' = Quarantined
    /\ thread' = [thread EXCEPT ![t] =
                    IF retryable /\ MayRetry(@.attempt) THEN Again(@) ELSE Rest]
    /\ UNCHANGED inWindow

-----------------------------------------------------------------------------
(* Time and the operator. *)

Lapse ==
    /\ circuit = "open" /\ ~lapsed
    /\ lapsed' = TRUE
    /\ UNCHANGED <<circuit, failures, trials, streak, quarantine, inWindow, thread>>

QuarantineLapse ==
    /\ quarantine.on /\ ~quarantine.lapsed
    /\ quarantine' = [quarantine EXCEPT !.lapsed = TRUE]
    /\ UNCHANGED <<breaker, inWindow, thread>>

\* the oldest request leaves the window, and with it every list that is kept: none
\* is between its reading and its storing
Slide ==
    /\ inWindow > 0
    /\ \A t \in Threads : thread[t].phase # "filtered"
    /\ inWindow' = inWindow - 1
    /\ UNCHANGED <<breaker, quarantine, thread>>

ManualOverride ==
    /\ quarantine.failures > 0
    /\ quarantine' = [quarantine EXCEPT !.overridden = TRUE]
    /\ UNCHANGED <<breaker, inWindow, thread>>

\* reset of circuit, quarantine and budget
Reset ==
    /\ circuit' = "closed" /\ failures' = 0 /\ trials' = 0 /\ lapsed' = FALSE /\ streak' = 0
    /\ quarantine' = [failures |-> 0, on |-> FALSE, lapsed |-> FALSE, overridden |-> FALSE]
    /\ inWindow' = 0
    /\ UNCHANGED thread

Gate(t) == \/ AskCircuit(t) \/ AskQuarantine(t)
           \/ FilterWindow(t) \/ StoreWindow(t) \/ AskBudget(t) \/ Send(t)
Reply(t) == Success(t) \/ \E b \in BOOLEAN : Failure(t, b)

Next == \/ \E t \in Threads : Gate(t) \/ Reply(t)
        \/ Lapse \/ QuarantineLapse \/ Slide \/ ManualOverride \/ Reset

\* Callers keep asking, requests end, and time passes.
Spec == /\ Init /\ [][Next]_vars
        /\ \A t \in Threads : WF_vars(AskCircuit(t)) /\ WF_vars(Reply(t))
        /\ WF_vars(Lapse)

-----------------------------------------------------------------------------
(* Properties. *)

\* A circuit is opened only by failures in a row that reach the threshold or by
\* a failed trial, late answers of earlier requests among them (circuit.py:50-60).
OpensForCause ==
    [][circuit # "open" /\ circuit' = "open" =>
         circuit = "half_open" \/ streak' >= FailureThreshold]_vars

\* A circuit closed after a trial starts from nothing: while it is closed fewer
\* failures are counted than open it, and none that a success has answered for.
ClosedIsHealthy == circuit = "closed" => failures < FailureThreshold /\ failures <= streak

\* A provider that was given up is tried again: an open circuit lets a request
\* through some day, however the requests still under way end.
OpenIsTriedAgain == circuit = "open" ~> circuit # "open"
=============================================================================
