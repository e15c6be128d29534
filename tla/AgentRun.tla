------------------------------ MODULE AgentRun ------------------------------
(***************************************************************************)
(* ArgusAgent.execute (agent.py): the loop of reasoning, tool calls and    *)
(* observation, then the engineering loop of contradiction check, replan,  *)
(* verification, repair and review.  Another thread may cancel at any      *)
(* time, and an interrupt of the user or an error nobody expected may end *)
(* it at any step.  What the model answers and what a tool does are nondeterministic;*)
(* a tool is one that reads, one that writes or bash.                      *)
(***************************************************************************)
EXTENDS Naturals, Sequences, FiniteSets

CONSTANTS MaxIterations, MaxToolCalls, MaxConsecutiveFailures, MaxNoProgress,
          MaxRepairAttempts, MaxPlanRevisions,  \* ArgusAgentConfig
          RepeatWindow,    \* 8: so many equal calls in a row end the loop
          MaxBatch,        \* bound on the tool calls of one answer
          Commands,        \* number of verification commands of the project
          Engineering, HasModel,  \* enable_engineering_loop, a model is configured
          MaxRuns          \* bound on the requests given to one agent

AgentRunAssumption ==
  /\ {MaxIterations, MaxToolCalls, MaxConsecutiveFailures, MaxNoProgress, RepeatWindow, MaxBatch} \subseteq Nat \ {0}
  /\ {MaxRepairAttempts, MaxPlanRevisions, Commands, MaxRuns} \subseteq Nat
  /\ {Engineering, HasModel} \subseteq BOOLEAN

VARIABLES pc, cancelled, run, batch, eng, recent, runs

vars == <<pc, cancelled, run, batch, eng, recent, runs>>

Tools == {"read_file", "write_file", "bash"}
Stops == {"TIMEOUT", "TOOL_LIMIT", "FAILED", "CANCELLED", "RUNTIME_ERROR"}
\* the plan of a bug, a feature or a refactoring, and that of any other request
Plans == {<<"investigate", "implement", "verify">>, <<"investigate", "summarize">>}

\* tools counts no further than one past the limit.
Used(n) == IF n > MaxToolCalls THEN n ELSE n + 1

NewRun(plan) ==
  [status |-> "RUNNING", success |-> FALSE, iterations |-> 0, tools |-> 0, failures |-> 0, plan |-> plan,
   noProgress |-> 0, last |-> <<>>, step |-> 1, changed |-> FALSE, modified |-> FALSE]
NewBatch == [todo |-> <<>>, done |-> <<>>, failed |-> FALSE, readOk |-> FALSE]
\* failed: a command failed in this round; dirty: files changed since a round passed (history).
NewEngineering == [revisions |-> 0, repairs |-> 0, left |-> 0, failed |-> FALSE, final |-> "none", dirty |-> FALSE,
                   round |-> "first", execution |-> 0]

Init == /\ pc = "idle" /\ cancelled = FALSE /\ run = NewRun(<<>>) /\ batch = NewBatch /\ eng = NewEngineering
        /\ recent = [tool |-> "none", count |-> 0] /\ runs = 0

\* execute: counters are reset, and with them a cancellation that came before; the
\* recent calls are not.
Execute ==
  /\ pc = "idle" /\ runs < MaxRuns
  /\ runs' = runs + 1 /\ pc' = "check" /\ cancelled' = FALSE
  /\ \E plan \in Plans : run' = NewRun(plan)
  /\ batch' = NewBatch /\ eng' = NewEngineering
  /\ UNCHANGED recent

Cancel == pc # "idle" /\ ~cancelled /\ cancelled' = TRUE /\ UNCHANGED <<pc, run, batch, eng, recent, runs>>

Leave(status, success) == /\ pc' = "left" /\ run' = [run EXCEPT !.status = status, !.success = success]
                          /\ UNCHANGED <<cancelled, batch, eng, recent, runs>>

(***************************************************************************)
(* _run_loop                                                               *)
(***************************************************************************)
\* The limits, in the order of the code; the clock may have passed the limit or not.
ExhaustIterations == /\ pc = "check" /\ run.iterations >= MaxIterations /\ Leave("RUNNING", FALSE)
TimeOut == pc = "check" /\ run.iterations < MaxIterations /\ Leave("TIMEOUT", FALSE)
StopReason == IF run.tools >= MaxToolCalls THEN "TOOL_LIMIT"
              ELSE IF run.failures >= MaxConsecutiveFailures THEN "FAILED"
              ELSE IF cancelled THEN "CANCELLED" ELSE "none"
StopAtLimit == pc = "check" /\ run.iterations < MaxIterations /\ StopReason # "none" /\ Leave(StopReason, FALSE)

MayReason == pc = "check" /\ run.iterations < MaxIterations /\ StopReason = "none"

ReasonFails == MayReason /\ Leave("RUNTIME_ERROR", FALSE)
ReasonEnds == MayReason /\ Leave("COMPLETED", TRUE)   \* complete, or nothing to say and nothing to do
ReasonText == /\ MayReason /\ pc' = "left" /\ run' = [run EXCEPT !.iterations = @ + 1]
              /\ UNCHANGED <<cancelled, batch, eng, recent, runs>>
ReasonCalls ==
  /\ MayReason
  /\ \E n \in 1..MaxBatch : \E calls \in [1..n -> Tools] : batch' = [NewBatch EXCEPT !.todo = calls]
  /\ pc' = "tools" /\ UNCHANGED <<cancelled, run, eng, recent, runs>>

AnyCall == batch.todo # <<>>
MayCall == batch.todo # <<>> /\ run.tools < MaxToolCalls

\* _execute_tool_call inside the batch.
CallTool ==
  /\ pc = "tools" /\ MayCall
  /\ \E ok \in BOOLEAN : LET tool == Head(batch.todo) IN
       /\ batch' = [batch EXCEPT !.todo = Tail(@), !.done = Append(@, tool), !.failed = @ \/ ~ok,
                                 !.readOk = @ \/ (ok /\ tool = "read_file")]
       /\ run' = [run EXCEPT !.tools = Used(@), !.changed = @ \/ (ok /\ tool # "read_file"),
                             !.modified = @ \/ (ok /\ tool = "write_file")]
       /\ eng' = IF ok /\ tool = "write_file" THEN [eng EXCEPT !.dirty = TRUE] ELSE eng
  /\ UNCHANGED <<pc, cancelled, recent, runs>>

\* The calls of this and of earlier runs that end the history are all the same tool.
Recent(r, calls) ==
  LET same == \A i \in DOMAIN calls : calls[i] = calls[Len(calls)]
      tail == CHOOSE n \in 1..Len(calls) : /\ \A i \in (Len(calls) - n + 1)..Len(calls) : calls[i] = calls[Len(calls)]
                                           /\ n = Len(calls) \/ calls[Len(calls) - n] # calls[Len(calls)]
      count == IF same /\ r.tool = calls[Len(calls)] THEN r.count + Len(calls) ELSE tail
  IN [tool |-> calls[Len(calls)], count |-> IF count > RepeatWindow THEN RepeatWindow ELSE count]

StepAction == IF run.step \in DOMAIN run.plan THEN run.plan[run.step] ELSE "none"

\* _should_stop_after_observation
StopAfterObservation(r) == \/ r.count >= RepeatWindow
                           \/ batch.failed /\ StepAction = "verify"
                           \/ StepAction = "investigate" /\ batch.readOk /\ ~(batch.failed /\ StepAction = "verify")

Counted(same) == [run EXCEPT !.failures = IF batch.failed THEN @ + 1 ELSE 0,
                             !.noProgress = IF same THEN @ + 1 ELSE 0, !.last = batch.done]

Observe ==
  /\ pc = "tools" /\ ~MayCall
  /\ LET same == batch.done = run.last
         counted == Counted(same)
         history == Recent(recent, batch.done)
     IN IF counted.noProgress >= MaxNoProgress
        THEN /\ run' = [counted EXCEPT !.status = "FAILED"] /\ pc' = "left" /\ UNCHANGED recent
        ELSE /\ recent' = history
             /\ IF StopAfterObservation(history)
                THEN run' = [counted EXCEPT !.status = "COMPLETED", !.success = TRUE] /\ pc' = "left"
                ELSE run' = [counted EXCEPT !.step = IF @ <= Len(run.plan) THEN @ + 1 ELSE @, !.iterations = @ + 1]
                     /\ pc' = "check"
  /\ batch' = NewBatch
  /\ UNCHANGED <<cancelled, eng, runs>>

(***************************************************************************)
(* _run_engineering_loop, entered whatever the loop's status is            *)
(***************************************************************************)
Finish(r) == pc' = "idle" /\ run' = r /\ UNCHANGED <<cancelled, batch, recent, runs>>
\* should_enter_engineering_loop: the request speaks of a change, which its plan does
\* not tell, and a tool that changes something succeeded.
EntersEngineering(speaks) == Engineering /\ speaks /\ run.changed

SkipEngineering ==
  /\ pc = "left" /\ \E speaks \in BOOLEAN : ~EntersEngineering(speaks)
  /\ Finish(IF run.status = "RUNNING" THEN [run EXCEPT !.status = "COMPLETED", !.success = TRUE] ELSE run)
  /\ UNCHANGED eng

\* What the results of the loop say of the plan. Those that matter are the ones that failed, those
\* of git and those with a telling word: of something missing, of a conflict, of a surprise.
Evidence == {"ordinary", "missing", "conflict", "unexpected"}
\* A surprise contradicts an assumption only, and the first plan makes none.
Contradicts(e) == e \in {"missing", "conflict"}
\* A model is asked for its own judgement of results that contradict nothing.
Judgements(e) == IF Contradicts(e) THEN {TRUE} ELSE IF HasModel THEN BOOLEAN ELSE {FALSE}

\* The tools a model runs while it investigates, repairs or follows a plan; no limit is asked.
Acted == IF HasModel /\ ~cancelled THEN BOOLEAN ELSE {FALSE}
\* _run_investigation: what its tools write is not counted as modified.
Investigated(acts) == IF acts THEN [run EXCEPT !.tools = Used(@)] ELSE run

EnterEngineering ==
  /\ pc = "left" /\ EntersEngineering(TRUE)
  /\ \E acts \in Acted, writes \in BOOLEAN, e \in Evidence : \E replan \in Judgements(e) :
       LET ends == replan /\ ~(eng.revisions < MaxPlanRevisions)
       IN /\ pc' = IF ends THEN "ended" ELSE IF replan THEN "replan" ELSE "verify"
          /\ run' = Investigated(acts)
          /\ eng' = [eng EXCEPT !.dirty = @ \/ (acts /\ writes), !.final = IF ends THEN "FAILED" ELSE @]
  /\ UNCHANGED <<cancelled, batch, recent, runs>>

\* _run_model_replan: without a model, or with an answer that is no plan, nothing is revised.
Revised(n) == n + 1
Revisions == {eng.revisions} \cup IF HasModel THEN {Revised(eng.revisions)} ELSE {}

ReplanDuringExecution ==
  /\ pc = "replan"
  /\ \E n \in Revisions : eng' = [eng EXCEPT !.revisions = n, !.execution = @ + 1]
  /\ pc' = "revised" /\ UNCHANGED <<cancelled, run, batch, recent, runs>>

ModelActs(changes) == run' = [run EXCEPT !.tools = Used(@), !.modified = @ \/ changes]

MayReplanAgain == eng.revisions < MaxPlanRevisions
\* _execute_revised_plan, and a second replan when it failed.
ExecuteRevisedPlan ==
  /\ pc = "revised"
  /\ \E changes \in Acted, failed \in IF HasModel THEN BOOLEAN ELSE {FALSE} :
       /\ ModelActs(changes)
       /\ LET e == [eng EXCEPT !.dirty = @ \/ changes] IN
          IF failed /\ eng.execution = 1
          THEN IF MayReplanAgain THEN pc' = "replan" /\ eng' = e ELSE pc' = "ended" /\ eng' = [e EXCEPT !.final = "FAILED"]
          ELSE pc' = "verify" /\ eng' = e
  /\ UNCHANGED <<cancelled, batch, recent, runs>>

BeginRound(round, e) == pc' = "round" /\ eng' = [e EXCEPT !.round = round, !.left = Commands, !.failed = FALSE]

Verify ==
  /\ pc = "verify"
  /\ IF run.modified THEN BeginRound("first", eng) ELSE pc' = "ended" /\ eng' = [eng EXCEPT !.final = "COMPLETED"]
  /\ UNCHANGED <<cancelled, run, batch, recent, runs>>

\* One verification command; the round ends at the first that fails, or when cancelled.
RunCommand ==
  /\ pc = "round" /\ eng.left > 0 /\ ~eng.failed /\ ~cancelled
  /\ \E ok \in BOOLEAN : eng' = [eng EXCEPT !.left = @ - 1, !.failed = ~ok, !.dirty = @ /\ ~(ok /\ eng.left = 1)]
  /\ run' = [run EXCEPT !.tools = Used(@)]
  /\ UNCHANGED <<pc, cancelled, batch, recent, runs>>

RoundEnds == pc = "round" /\ (eng.left = 0 \/ eng.failed \/ cancelled)
LastCommandPassed == ~eng.failed \/ eng.left > 0
\* Only the first round takes a cancelled round for a passed one.
Passed == ~eng.failed /\ (eng.left = 0 \/ eng.round = "first")

Pass == RoundEnds /\ Passed /\ pc' = "review" /\ UNCHANGED <<cancelled, run, batch, eng, recent, runs>>

ShouldReplan == eng.round = "first" /\ HasModel /\ eng.revisions < MaxPlanRevisions
ReplanAfterFailure ==
  /\ RoundEnds /\ ~Passed /\ ShouldReplan
  /\ \E n \in Revisions : LET e == [eng EXCEPT !.revisions = n] IN
       IF n < MaxPlanRevisions THEN BeginRound("replanned", e) ELSE pc' = "repair" /\ eng' = e
  /\ UNCHANGED <<cancelled, run, batch, recent, runs>>

GiveUpRound == /\ RoundEnds /\ ~Passed /\ ~ShouldReplan /\ pc' = "repair"
               /\ UNCHANGED <<cancelled, run, batch, eng, recent, runs>>

UncountedRepair(n) == n
CountRepair(n) == n + 1
Repair ==
  /\ pc = "repair" /\ eng.repairs < MaxRepairAttempts
  /\ \E changes \in IF HasModel THEN BOOLEAN ELSE {FALSE} :
       /\ ModelActs(changes)
       /\ BeginRound("repaired", [eng EXCEPT !.repairs = CountRepair(@), !.dirty = @ \/ changes])
  /\ UNCHANGED <<cancelled, batch, recent, runs>>

RepairsExhausted ==
  /\ pc = "repair" /\ eng.repairs >= MaxRepairAttempts
  /\ pc' = "ended" /\ eng' = [eng EXCEPT !.final = "FAILED"]
  /\ UNCHANGED <<cancelled, run, batch, recent, runs>>

Review ==
  /\ pc = "review" /\ pc' = "ended" /\ eng' = [eng EXCEPT !.final = "COMPLETED"]
  /\ run' = [run EXCEPT !.tools = Used(@)]  \* git_diff
  /\ UNCHANGED <<cancelled, batch, recent, runs>>

\* _engineering_result overwrites the status of the loop.
EndEngineering ==
  /\ pc = "ended"
  /\ Finish([run EXCEPT !.status = eng.final, !.success = eng.final = "COMPLETED"]) /\ UNCHANGED eng

\* KeyboardInterrupt, or an exception nobody caught: success stays what the loop said.
Interrupt ==
  /\ pc # "idle"
  /\ \E status \in {"CANCELLED", "FAILED"} : Finish([run EXCEPT !.status = status])
  /\ UNCHANGED eng

LoopStep == \/ Execute \/ ExhaustIterations \/ TimeOut \/ StopAtLimit \/ ReasonFails \/ ReasonEnds \/ ReasonText
            \/ ReasonCalls \/ CallTool \/ Observe
EngineeringStep == \/ SkipEngineering \/ EnterEngineering \/ ReplanDuringExecution \/ ExecuteRevisedPlan \/ Verify
                   \/ RunCommand \/ Pass \/ ReplanAfterFailure \/ GiveUpRound \/ Repair \/ RepairsExhausted \/ Review
                   \/ EndEngineering
Step == LoopStep \/ EngineeringStep
Next == Step \/ Cancel \/ Interrupt

\* The thread in execute goes on unless a tool or the model never returns, which the
\* timeouts of both exclude.
Spec == Init /\ [][Next]_vars /\ WF_vars(Step)

----------------------------------------------------------------------------
Statuses == Stops \cup {"RUNNING", "COMPLETED"}
RunStates == [status : Statuses, success : BOOLEAN, iterations : Nat, tools : 0..(MaxToolCalls + 1), failures : Nat,
         plan : Plans \cup {<<>>},
         noProgress : Nat, last : Seq(Tools), step : Nat, changed : BOOLEAN, modified : BOOLEAN]
BatchStates == [todo : Seq(Tools), done : Seq(Tools), failed : BOOLEAN, readOk : BOOLEAN]
EngineeringStates == [revisions : Nat, repairs : Nat, left : 0..Commands, failed : BOOLEAN,
                      final : {"none", "FAILED", "COMPLETED"}, dirty : BOOLEAN,
                      round : {"first", "replanned", "repaired"}, execution : Nat]
TypeOK ==
  /\ pc \in {"idle", "check", "tools", "left", "replan", "revised", "verify", "round", "repair", "review", "ended"}
  /\ cancelled \in BOOLEAN /\ runs \in 0..MaxRuns
  /\ run \in RunStates /\ batch \in BatchStates /\ eng \in EngineeringStates
  /\ recent \in [tool : Tools \cup {"none"}, count : 0..RepeatWindow]

\* The limits of the configuration hold whatever model and tools do: iterations, repairs
\* and revisions always, tool calls in the loop (the engineering loop has no such limit).
LimitsHold == /\ run.iterations <= MaxIterations /\ eng.repairs <= MaxRepairAttempts /\ eng.revisions <= MaxPlanRevisions
              /\ pc \in {"check", "tools", "left"} => run.tools <= MaxToolCalls

\* A change the engineering loop calls COMPLETED was verified after the last edit,
\* by a round in which every command passed, unless the user cancelled.
CompletedIsVerified == eng.final = "COMPLETED" /\ run.modified /\ Commands > 0 /\ ~cancelled => ~eng.dirty

\* Every request is answered.
Asked == pc = "check"
Answered == pc = "idle"
RequestIsAnswered == Asked ~> Answered

\* What the messages and tests say of a loop that was stopped: it did not succeed.
StoppedRunFails == [][pc = "ended" /\ run.status \in Stops => ~run'.success]_vars
=============================================================================
