------------------------------ MODULE AgentCore ------------------------------
(***************************************************************************)
(* agentcore.Agent.execute: ask the runtime, run the tools it names, look  *)
(* at the results and go on until a limit, a cancellation or an answer     *)
(* ends the loop; then verify.  cancel() comes from another thread and the *)
(* clock passes max_runtime_seconds between any two steps.                 *)
(***************************************************************************)
EXTENDS Naturals, Sequences, FiniteSets

CONSTANTS Tools,                    \* names of tools a runtime may call
          MaxIterations, MaxToolCalls, MaxConsecutiveFailures, MaxNoProgress,  \* AgentConfig
          MaxBatch,                 \* bound on the tool calls of one response
          MaxTasks                  \* bound on the requests given to one agent

AgentCoreAssumption ==
  {MaxIterations, MaxToolCalls, MaxConsecutiveFailures, MaxNoProgress, MaxBatch, MaxTasks} \subseteq Nat \ {0}

VARIABLES pc,         \* "idle", "loop", "act", "observe", "verify" or "raised"
          state,      \* the task's current_state
          iterations, used, failures, stuck,   \* the counters the limits are about
          anyFailed,  \* some result of this request is a failure
          calls,      \* the local tool_calls, which a text response leaves as it was
          batch,      \* results of the last batch: tool and success
          last,       \* _last_batch_calls
          cancelled, late,
          result,     \* status, reason and success of the request
          tasks

control == <<pc, state, result>>
counters == <<iterations, used, failures, stuck, anyFailed>>
vars == <<control, counters, calls, batch, last, cancelled, late, tasks>>

Unbound == [bound |-> FALSE, seq |-> <<>>]
Bound(s) == [bound |-> TRUE, seq |-> s]
Batches == UNION {[1..n -> Tools] : n \in 1..MaxBatch}
None == [status |-> "RUNNING", reason |-> "none", success |-> FALSE]

Init == /\ pc = "idle" /\ state = "CREATED" /\ result = None
        /\ iterations = 0 /\ used = 0 /\ failures = 0 /\ stuck = 0 /\ anyFailed = FALSE
        /\ calls = Unbound /\ batch = <<>> /\ last = <<>>
        /\ cancelled = FALSE /\ late = FALSE /\ tasks = 0

\* execute clears what an earlier request left, a cancellation included; finding context,
\* memory and skills and making a plan cannot fail, and no plan is empty.
Execute ==
  /\ pc \in {"idle", "raised"} /\ tasks < MaxTasks /\ tasks' = tasks + 1
  /\ pc' = "loop" /\ state' = "IMPLEMENTING" /\ result' = None
  /\ iterations' = 0 /\ used' = 0 /\ failures' = 0 /\ stuck' = 0 /\ anyFailed' = FALSE
  /\ calls' = Unbound /\ batch' = <<>> /\ last' = <<>>
  /\ cancelled' = FALSE /\ late' = FALSE

Cancel == /\ ~cancelled /\ cancelled' = TRUE
          /\ UNCHANGED <<control, counters, calls, batch, last, late, tasks>>
TimePasses == /\ ~late /\ pc # "idle" /\ late' = TRUE
              /\ UNCHANGED <<control, counters, calls, batch, last, cancelled, tasks>>

\* The first limit that is reached, in the order the loop asks.
Stopped(status, reason, to) == [status |-> status, reason |-> reason, state |-> to]
Stop == IF late THEN Stopped("TIMEOUT", "timeout", "BLOCKED")
        ELSE IF used >= MaxToolCalls THEN Stopped("TOOL_LIMIT", "tool_limit", "BLOCKED")
        ELSE IF failures >= MaxConsecutiveFailures THEN Stopped("FAILED", "consecutive_tool_failures", "FAILED")
        ELSE IF cancelled THEN Stopped("CANCELLED", "user_cancellation", "FAILED")
        ELSE Stopped("RUNNING", "none", state)
Leave(status, reason) == pc' = "verify" /\ result' = [result EXCEPT !.status = status, !.reason = reason]
Complete == Leave("COMPLETED", "none") /\ UNCHANGED state

StopAtLimit == /\ pc = "loop"
               /\ IF iterations >= MaxIterations THEN Complete
                  ELSE Stop.status # "RUNNING" /\ Leave(Stop.status, Stop.reason) /\ state' = Stop.state
               /\ UNCHANGED <<counters, calls, batch, last, cancelled, late, tasks>>

MayRespond == pc = "loop" /\ iterations < MaxIterations /\ Stop.status = "RUNNING"
\* runtime.respond: a dict that is complete, that calls tools, that holds a final answer or
\* neither; a text; anything else; or an exception.
Respond ==
  /\ MayRespond
  /\ \/ Leave("RUNTIME_ERROR", "runtime_error") /\ state' = "FAILED" /\ UNCHANGED calls
     \/ Complete /\ UNCHANGED calls
     \/ \E s \in Batches : calls' = Bound(s) /\ pc' = "act" /\ UNCHANGED <<state, result>>
     \/ pc' \in {"act", "loop"} /\ calls' = Bound(<<>>) /\ UNCHANGED <<state, result>>
     \/ pc' \in {"act", "loop"} /\ UNCHANGED <<calls, state, result>>
  /\ UNCHANGED <<counters, batch, last, cancelled, late, tasks>>

\* The last TOOL_CALL a runtime found in a text, which it holds until it was run.
Pending == {<<t>> : t \in Tools}
\* The tool the runtime holds pending, or else the calls of the response: of a text response
\* those of an earlier one, and when there was none the name is not bound.
\* Whatever a tool does, its error, its timeout and an unknown name too, a result comes back.
Outcomes(s) == [1..Len(s) -> BOOLEAN]
Run(s) == \E ok \in Outcomes(s) :
            /\ batch' = [i \in 1..Len(s) |-> [tool |-> s[i], ok |-> ok[i]]]
            /\ used' = used + Len(s)
            /\ anyFailed' = (anyFailed \/ \E i \in 1..Len(s) : ~ok[i])
AllowedBeforeBatch(s) == IF used < MaxToolCalls THEN s ELSE <<>>
Allowed(s) == SubSeq(s, 1, IF Len(s) <= MaxToolCalls - used THEN Len(s) ELSE MaxToolCalls - used)
ExecuteToolCalls ==
  /\ pc = "act"
  /\ \/ \E p \in Pending : Run(Allowed(p)) /\ pc' = "observe" /\ UNCHANGED <<state, result>>
     \/ /\ calls.bound /\ Run(Allowed(calls.seq))
        /\ pc' = "observe" /\ UNCHANGED <<state, result>>
     \/ ~calls.bound /\ pc' = "raised" /\ UNCHANGED <<state, result, batch, used, anyFailed>>
  /\ UNCHANGED <<iterations, failures, stuck, calls, last, cancelled, late, tasks>>

\* One failed call of this request makes every later batch count as a failure.
CountFailures == failures' = IF anyFailed THEN failures + 1 ELSE 0
CountProgress == LET names == [i \in DOMAIN batch |-> batch[i].tool] IN
                 /\ stuck' = IF names = last /\ names # <<>> THEN stuck + 1 ELSE 0
                 /\ last' = names
Observe ==
  /\ pc = "observe"
  /\ \/ Complete /\ UNCHANGED <<failures, stuck, last, iterations>>            \* runtime.is_complete()
     \/ /\ CountFailures /\ CountProgress
        /\ IF stuck' >= MaxNoProgress
           THEN Leave("FAILED", "no_progress") /\ state' = "FAILED" /\ UNCHANGED iterations
           ELSE pc' = "loop" /\ iterations' = iterations + 1 /\ UNCHANGED <<state, result>>
  /\ UNCHANGED <<used, anyFailed, calls, batch, cancelled, late, tasks>>

(***************************************************************************)
(* verifier.py: a check that is switched off, has no command for the       *)
(* project or is a Python or JavaScript build always passes; the check of  *)
(* the git diff is reported and never counted.                             *)
(***************************************************************************)
Kinds == {"rust", "python", "javascript", "unknown"}
Checks == {"format", "build", "tests"}
Asks(kind, on) == {c \in on : kind # "unknown" /\ (c = "build" => kind = "rust")}
OverallPassed(kind, on, failing) == Asks(kind, on) \cap failing = {}
Verdicts == {passed \in BOOLEAN : \E kind \in Kinds, on, failing \in SUBSET Checks : passed = OverallPassed(kind, on, failing)}
SuccessByVerification(passed) == passed
Success(passed) == passed /\ result.status # "FAILED"
RunVerification ==
  /\ pc = "verify" /\ pc' = "idle"
  /\ \E passed \in {TRUE} \cup Verdicts :          \* TRUE too when verification is disabled
       LET ok == Success(passed) IN
       /\ result' = [result EXCEPT !.success = ok]
       /\ state' = IF ok THEN "COMPLETED" ELSE "FAILED"
  /\ UNCHANGED <<counters, calls, batch, last, cancelled, late, tasks>>

Step == StopAtLimit \/ Respond \/ ExecuteToolCalls \/ Observe \/ RunVerification
Next == Execute \/ Cancel \/ TimePasses \/ Step

\* The loop runs on in its own thread and the clock does not stand still; nobody has to cancel.
Spec == Init /\ [][Next]_vars /\ WF_vars(Step) /\ WF_vars(TimePasses)

(***************************************************************************)
(* Properties                                                              *)
(***************************************************************************)
TypeOK ==
  /\ pc \in {"idle", "loop", "act", "observe", "verify", "raised"}
  /\ state \in {"CREATED", "IMPLEMENTING", "BLOCKED", "FAILED", "COMPLETED"}
  /\ {iterations, used, failures, stuck, tasks} \subseteq Nat /\ {anyFailed, cancelled, late} \subseteq BOOLEAN
  /\ result \in [status : {"RUNNING", "COMPLETED", "TIMEOUT", "TOOL_LIMIT", "FAILED", "CANCELLED", "RUNTIME_ERROR"},
                reason : {"none", "timeout", "tool_limit", "consecutive_tool_failures", "user_cancellation",
                          "runtime_error", "no_progress"},
                success : BOOLEAN]
  /\ calls \in [bound : BOOLEAN, seq : Seq(Tools)] /\ batch \in Seq([tool : Tools, ok : BOOLEAN])

\* However responses, tool calls left over from an earlier response, cancellations and the
\* clock interleave, no counter of a request passes the limit configured for it.
LimitsHold == /\ iterations <= MaxIterations /\ used <= MaxToolCalls
              /\ failures <= MaxConsecutiveFailures /\ stuck <= MaxNoProgress

\* A request whose tools went on failing, or that repeated itself without progress, ends as a
\* failure whatever the verification of the project says.
HopelessTaskFails == pc = "idle" /\ result.reason \in {"consecutive_tool_failures", "no_progress"}
                     => ~result.success /\ state = "FAILED"

\* Every request ends, with a result or with an error: also one whose runtime goes on
\* sending empty responses, which no iteration limit counts.
Working == pc \in {"loop", "act", "observe", "verify"}
TaskEnds == Working ~> ~Working
==============================================================================
