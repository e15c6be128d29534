----------------------------- MODULE Subagents -----------------------------
(***************************************************************************)
(* Delegation to subagents (src/argus/subagents): the manager's registry   *)
(* and status table, the budgets drawn from the role definitions, and the  *)
(* executions of subagents.  The package starts no thread and has no lock  *)
(* and nothing in src/ calls it from one: what else happens during an      *)
(* execution happens in the handlers of its events, which may call every   *)
(* operation, another execution too, and return before it goes on.  So     *)
(* executions are a stack of calls, and one step leads from one event to   *)
(* the next.                                                               *)
(*                                                                         *)
(* A budget is a partial function from limit names to numbers, as the      *)
(* dictionaries of the code are.  Two names stand for the seven.  Time may *)
(* end an execution at any moment.  Who delegated to whom is left out:     *)
(* delegate asks no policy about it and nothing but a display reads it.    *)
(***************************************************************************)
EXTENDS Integers, FiniteSets, Sequences

CONSTANTS Agents, Roles, Nobody,
          Executors,      \* how many calls may be nested: the numbers from 1 to that one
          Defaults,       \* role -> its default_limits in roles.py
          Overrides,      \* the budget_overrides callers pass to delegate
          Answers,        \* what callers report of a subagent, of completed, failed, blocked and timed_out
          Amounts         \* the numbers a limit may be set to

Limits == {"max_iterations", "max_time_seconds"}
Statuses == {"created", "queued", "running", "paused", "completed",
             "failed", "cancelled", "timed_out", "blocked"}
Terminal == {"completed", "failed", "cancelled", "timed_out", "blocked"}

Partial == UNION {[ks -> Amounts] : ks \in SUBSET Limits}
SubagentObjects ==
    [role : Roles, status : Statuses, budget : Partial, started : BOOLEAN, ended : BOOLEAN]

SubagentsAssumption ==
    /\ Nobody \notin Agents \cup SubagentObjects /\ Amounts \subseteq Nat /\ Executors \subseteq Nat
    /\ Defaults \in [Roles -> [Limits -> Amounts]] /\ Overrides \subseteq Partial
    /\ Answers \subseteq {"completed", "failed", "blocked", "timed_out"}

\* what a queued subagent could not do if the table were right (a mutant)
ValidQueuedEnds == [s \in Statuses |->
            CASE s = "created" -> {"queued", "cancelled"}
              [] s \in {"queued", "running"} -> {"running", "paused"} \cup Terminal
              [] s = "paused"  -> {"running", "cancelled"}
              [] OTHER         -> {}]

\* VALID_TRANSITIONS
Valid == [s \in Statuses |->
            CASE s = "created" -> {"queued", "cancelled"}
              [] s = "queued"  -> {"running", "cancelled"}
              [] s = "running" -> {"paused"} \cup Terminal
              [] s = "paused"  -> {"running", "cancelled"}
              [] OTHER         -> {}]

VARIABLES
    known,      \* ids in the manager's _subagents
    sub,        \* the Subagent objects; those not created yet are Nobody
    override,   \* what delegate was given for each one (history)
    limits,     \* the default_limits of every role, one dictionary per role
    exec,       \* the calls under way, the innermost last
    unattended  \* started without an executor, or whose executor's report was
                \* refused while it was paused (history)

vars == <<known, sub, override, limits, exec, unattended>>

Created == {a \in Agents : sub[a] # Nobody}
Idle == [agent |-> Nobody, phase |-> "idle", budget |-> <<>>]
Phases == {"idle", "starting", "queued", "running", "looping", "over"}

TypeOK ==
    /\ sub \in [Agents -> SubagentObjects \cup {Nobody}]
    /\ override \in [Agents -> Partial]
    /\ limits \in [Roles -> [Limits -> Amounts]]
    /\ exec \in [Executors -> [agent : Created \cup {Nobody}, phase : Phases, budget : Partial]]
    /\ known \subseteq Created /\ unattended \subseteq Created

Init ==
    /\ known = {}
    /\ sub = [a \in Agents |-> Nobody]
    /\ override = [a \in Agents |-> <<>>]
    /\ limits = Defaults
    /\ exec = [e \in Executors |-> Idle]
    /\ unattended = {}

-----------------------------------------------------------------------------
(* The manager. *)

\* _transition, with its time stamps
Moved(s, to) == [s EXCEPT !.status = to,
                          !.started = @ \/ to = "running",
                          !.ended = @ \/ to \in Terminal]
Transition(s, to) == IF to \in Valid[s.status] THEN Moved(s, to) ELSE s

NewSubagent(r, o) == [role |-> r, status |-> "created", budget |-> o, started |-> FALSE, ended |-> FALSE]

Innermost(e) == \A f \in Executors : f > e => exec[f] = Idle
Free(e) == \A f \in Executors : exec[f] = Idle <=> f >= e

\* orchestrator.delegate
Delegate(a, r, o) ==
    /\ sub[a] = Nobody
    /\ known' = known \cup {a}
    /\ override' = [override EXCEPT ![a] = o]
    /\ sub' = [sub EXCEPT ![a] = NewSubagent(r, o)]
    /\ UNCHANGED <<limits, exec, unattended>>

\* start called directly, with no executor, of a subagent that is not new
Start(a) ==
    /\ a \in known
    /\ "running" \in Valid[sub[a].status]
    /\ sub' = [sub EXCEPT ![a] = Moved(@, "running")]
    /\ unattended' = IF sub[a].status = "paused" THEN unattended ELSE unattended \cup {a}
    /\ UNCHANGED <<known, override, limits, exec>>

\* and of a new one: the event of being queued is sent before the rest
StartNew(e, a) ==
    /\ Free(e)
    /\ a \in known
    /\ sub[a].status = "created"
    /\ sub' = [sub EXCEPT ![a] = Moved(@, "queued")]
    /\ exec' = [exec EXCEPT ![e] = [agent |-> a, phase |-> "starting", budget |-> <<>>]]
    /\ UNCHANGED <<known, override, limits, unattended>>

StartNewEnds(e) ==
    LET a == exec[e].agent IN
    /\ Innermost(e)
    /\ exec[e].phase = "starting"
    /\ sub' = [sub EXCEPT ![a] = Transition(@, "running")]
    /\ unattended' = IF sub[a].status = "queued" THEN unattended \cup {a} ELSE unattended
    /\ exec' = [exec EXCEPT ![e] = Idle]
    /\ UNCHANGED <<known, override, limits>>

\* pause, resume, cancel, timeout, complete, fail and block; the answers the
\* last three store, before they try the transition, are left out
Call(a, to) ==
    /\ a \in known
    /\ to \in Valid[sub[a].status]
    /\ sub' = [sub EXCEPT ![a] = Moved(@, to)]
    /\ UNCHANGED <<known, override, limits, exec, unattended>>

Pause(a) == Call(a, "paused")
Resume(a) == sub[a] # Nobody /\ sub[a].status = "paused" /\ Call(a, "running")
Cancel(a) == Call(a, "cancelled")
Answer(a) == \E to \in Answers : Call(a, to)

\* remove: the object lives on in the executor that holds it
Remove(a) ==
    /\ a \in known
    /\ known' = known \ {a}
    /\ UNCHANGED <<sub, override, limits, exec, unattended>>

-----------------------------------------------------------------------------
(* Execution. *)

Updated(dict, o) == [n \in Limits |-> IF n \in DOMAIN o THEN o[n] ELSE dict[n]]
CreateBudgetRoleWins(r, o) == UNCHANGED limits

\* create_budget updates the role's own dictionary with the overrides
CreateBudget(r, o) == limits' = [limits EXCEPT ![r] = Updated(@, o)]

\* The second half of manager.start; execute returns None when it is refused.
\* Only the lookup at the beginning of start asks whether the subagent is known.
Begin(e, call) ==
    LET a == call.agent IN
    IF "running" \in Valid[sub[a].status]
    THEN /\ sub' = [sub EXCEPT ![a] = Moved(@, "running")]
         /\ exec' = [exec EXCEPT ![e] = [call EXCEPT !.phase = "running"]]
    ELSE /\ sub' = sub
         /\ exec' = [exec EXCEPT ![e] = Idle]

\* orchestrator.execute up to the first event; max_concurrent is not asked
Execute(e, a) ==
    /\ Free(e)
    /\ a \in known
    /\ CreateBudget(sub[a].role, sub[a].budget)
    /\ LET call == [agent |-> a, phase |-> "queued", budget |-> limits'[sub[a].role]] IN
       IF sub[a].status = "created"
       THEN /\ sub' = [sub EXCEPT ![a] = Moved(@, "queued")]
            /\ exec' = [exec EXCEPT ![e] = call]
       ELSE Begin(e, call)
    /\ UNCHANGED <<known, override, unattended>>

Run(e) ==
    /\ Innermost(e)
    /\ exec[e].phase = "queued"
    /\ Begin(e, exec[e])
    /\ UNCHANGED <<known, override, limits, unattended>>

\* executor.execute: the whole budget becomes the subagent's
TakeBudget(e) ==
    /\ Innermost(e)
    /\ exec[e].phase = "running"
    /\ sub' = [sub EXCEPT ![exec[e].agent].budget = exec[e].budget]
    /\ exec' = [exec EXCEPT ![e].phase = "looping"]
    /\ UNCHANGED <<known, override, limits, unattended>>

ExhaustUnreported(e) ==
    /\ Innermost(e)
    /\ exec[e].phase = "looping"
    /\ exec' = [exec EXCEPT ![e] = Idle]
    /\ UNCHANGED <<known, sub, override, limits, unattended>>

\* _run_task: iterations and time end every execution, and nothing else does;
\* the orchestrator passes on neither deadline nor constraints, so
\* _should_terminate is always false and the result is always TIMED_OUT
Exhaust(e) ==
    /\ Innermost(e)
    /\ exec[e].phase = "looping"
    /\ exec' = [exec EXCEPT ![e].phase = "over"]
    /\ UNCHANGED <<known, sub, override, limits, unattended>>

\* the TIMED_OUT result goes to manager.timeout, which may refuse it
Report(e) ==
    LET a == exec[e].agent IN
    /\ Innermost(e)
    /\ exec[e].phase = "over"
    /\ sub' = IF a \in known THEN [sub EXCEPT ![a] = Transition(@, "timed_out")] ELSE sub
    /\ unattended' = IF sub'[a].status \in Terminal THEN unattended
                     ELSE unattended \cup {a}
    /\ exec' = [exec EXCEPT ![e] = Idle]
    /\ UNCHANGED <<known, override, limits>>

Executing(e) == StartNewEnds(e) \/ Run(e) \/ TakeBudget(e) \/ Exhaust(e) \/ Report(e)

Next ==
    \/ \E a \in Agents :
         \/ \E r \in Roles, o \in Overrides : Delegate(a, r, o)
         \/ Start(a) \/ Pause(a) \/ Resume(a) \/ Cancel(a) \/ Answer(a) \/ Remove(a)
    \/ \E e \in Executors : Executing(e) \/ \E a \in Agents : StartNew(e, a) \/ Execute(e, a)

Spec == Init /\ [][Next]_vars

-----------------------------------------------------------------------------
(* ResultAggregator: what the results of several subagents come to.  A result *)
(* is [status, findings], a finding [topic, conclusion] with "none" for no    *)
(* conclusion; one without a topic is about the topic "unknown".              *)

CountOf(results, statuses) == Cardinality({i \in DOMAIN results : results[i].status \in statuses})
Conclusions(results, t) ==
    {f.conclusion : f \in {g \in UNION {results[i].findings : i \in DOMAIN results} : g.topic = t}} \ {"none"}
Conflicts(results) ==
    {t \in {f.topic : f \in UNION {results[i].findings : i \in DOMAIN results}} :
        Cardinality(Conclusions(results, t)) > 1}

\* the same with success looked for before conflicts (a mutant)
SuccessBeforeConflict(results) ==
    IF CountOf(results, {"failed"}) > 0 THEN "failed"
    ELSE IF CountOf(results, {"blocked"}) > 0 THEN "blocked"
    ELSE IF CountOf(results, {"completed"}) = Len(results) THEN "success"
    ELSE IF Conflicts(results) # {} THEN "conflicting"
    ELSE IF CountOf(results, {"timed_out"}) > 0 THEN "partial" ELSE "unknown"
DetermineStatus(results) ==
    IF CountOf(results, {"failed"}) > 0 THEN "failed"
    ELSE IF CountOf(results, {"blocked"}) > 0 THEN "blocked"
    ELSE IF Conflicts(results) # {} THEN "conflicting"
    ELSE IF CountOf(results, {"completed"}) = Len(results) THEN "success"
    ELSE IF CountOf(results, {"timed_out"}) > 0 THEN "partial" ELSE "unknown"

\* In parts of a hundred, rounded.
Confidence(results) ==
    LET weight == IF Conflicts(results) = {} THEN 100 ELSE 70
    IN (2 * weight * CountOf(results, {"completed"}) + Len(results)) \div (2 * Len(results))
Aggregate(results) ==
    IF results = <<>> THEN [status |-> "no_results", confidence |-> 0, success |-> 0, failure |-> 0]
    ELSE [status |-> DetermineStatus(results), confidence |-> Confidence(results),
          success |-> CountOf(results, {"completed"}),
          failure |-> CountOf(results, {"failed", "timed_out", "blocked"})]

-----------------------------------------------------------------------------
(* Properties. *)

\* The time stamps tell the history: whatever was started has run, whatever has
\* a final status was ended once, and only what ran can have an answer for
\* status (models.py:203, manager.py:87-98).
StampsMatchStatus ==
    \A a \in Created :
       /\ sub[a].ended <=> sub[a].status \in Terminal
       /\ sub[a].status \in {"created", "queued"} => ~sub[a].started
       /\ sub[a].status \notin {"created", "queued", "cancelled"} => sub[a].started

\* The limits a subagent of a role can be given: the role's own and what callers asked for.
AskedFor(r, n) ==
    {Defaults[r][n]} \cup {override[b][n] : b \in {c \in Created : sub[c].role = r /\ n \in DOMAIN override[c]}}

\* An execution runs on the limits its caller asked for, and every limit of a
\* role is the role's own or one that a caller asked for a subagent of that
\* role: the overrides that stay in the role's dictionary (budget.py:161) never
\* reach another role and never beat the subagent's own.
BudgetsHaveCause ==
    /\ \A e \in Executors : exec[e].phase \notin {"idle", "starting"} =>
         \A n \in DOMAIN override[exec[e].agent] :
            exec[e].budget[n] = override[exec[e].agent][n]
    /\ \A r \in Roles, n \in Limits : limits[r][n] \in AskedFor(r, n)

\* A running subagent has an executor, unless it was started without one, or
\* was paused when its executor's report came and was refused (manager.py:161).
RunningIsExecuted ==
    \A a \in Created : sub[a].status = "running" =>
       \/ a \in unattended
       \/ \E e \in Executors : exec[e].agent = a /\ exec[e].phase \in {"running", "looping", "over"}

\* The parts of an aggregate, computed apart, agree (aggregation.py:41-95): a success has full
\* confidence, full confidence without success rounds away one result in two hundred at most,
\* no failure and no two subagents that contradict one another hide in either, and the two
\* counts leave out only what was cancelled or is not over.
AggregateAgrees(results) ==
    LET a == Aggregate(results) IN
    /\ a.status = "success" => a.confidence = 100 /\ a.failure = 0 /\ a.success = Len(results)
    /\ a.confidence = 100 => 200 * (Len(results) - a.success) <= Len(results)
    /\ \A i, j \in DOMAIN results : \A f \in results[i].findings, g \in results[j].findings :
          (f.topic = g.topic /\ "none" \notin {f.conclusion, g.conclusion} /\ f.conclusion # g.conclusion)
             => a.status # "success" /\ a.confidence <= 70
    /\ a.success + a.failure < Len(results) =>
          \E i \in DOMAIN results : results[i].status \notin Terminal \ {"cancelled"}
=============================================================================
