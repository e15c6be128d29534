# Verification of ARGUS

This directory holds TLA+ models of ARGUS (`argus/`, `agentcore/`): of the
parts whose correctness depends on what happens *between* two steps, a process
that dies, a save that raises, threads that meet at one table, a lease or a
timeout that expires, an answer that comes late; and of the parts that judge,
where a verdict is put together from many partial ones. It contains the models,
the TLC configurations that check them on small instances, and theorems, proved
with TLAPS, that hold for every value of the constants.

`PROJECT.json` lists components, runs, mutants, the map from definitions to
source lines, findings, hazards and theorems. Tools: `tlc -config X.cfg M`,
`tlapm M.tla`.

## 1. Inventory

ARGUS is a coding agent in Python (about 50 000 lines in `argus/`), with a
terminal launcher in Rust, a family of Minecraft plugins in Java and a web site
beside it. The parts whose own logic is control rather than data are these.

| Component | State it keeps | Operations | Interacts with | What is hard | What makes it correct |
|---|---|---|---|---|---|
| Run metadata: `durable/detector.py`, `lifecycle.py` | one JSON file per run: status, crash and resume counts, heartbeat, `updated_at` | register, heartbeat, detect_crash, mark_*, transition | read and rewritten whole by every other durable part | a process dies between two saves; a save raises or is torn; two writers | a crash is counted once; a completed run stays closed; a dead run is picked up |
| Journal and executor: `journal.py`, `executor.py` | one JSON file per run and its cached copy: operations with a status | record_intent, start, progress, completion, failure, mark_all_started_as_unknown, record_reconciliation | the effect of the operation on the world | the effect and its record cannot be one step | no effect without a record; no outcome that is false; no outcome revised |
| Reconciler: `reconciler.py`, `idempotency.py` | collectors of evidence, a classification table | reconcile, classify, determine_retry_policy | reads the files an operation would have touched | silence and half-done writes | a verdict is true of the world; what may not be repeated is not retried on silence |
| Recovery and resume: `recovery.py`, `resume.py` | none of their own | detect_and_recover, resume, mark_run_* | detector, journal, reconciler | deaths inside recovery, repeated calls, modes | nothing of a dead process is forgotten; users' decisions are waited for; recovery ends |
| Run lock: `locks.py` | one JSON file per run: owner, state, expiry | acquire, release, force_unlock, cleanup | processes that want the same run | check and write are separate, expiry, dead owners | one holder, as the docstring has it (it is not so); one good holder among those whose calls met no other; no lock outlives its owner for ever |
| Checkpoints: `checkpoints.py`, `integrity.py` | one JSON file per checkpoint, named by its id | create, load, list, latest, delete | nobody else in `durable/` reads them | torn and altered files, a hash taken before a trip through JSON | what is loaded is what was saved, as JSON gives it back |
| Scheduler: `performance/scheduler.py` | a thread pool, a queue, active and completed tasks | start, stop, submit, cancel | worker threads call back under the same lock | deadlock, registration races, a queue that only grows | accepted tasks end and are accounted for; stop returns |
| Agent: `agent.py`, `engineering.py` | counters of a request, the plan, repairs, revisions, verification results | execute, cancel | model, tools, verification commands | limits nested in loops, a cancel or the clock at any point, two verdicts on one request | limits hold; COMPLETED is verified; a request ends; a stopped run fails |
| Agent of `agentcore/` | a task's state, counters, the last batch | execute, cancel | runtime, tools, verifier | variables that outlive their iteration | limits hold; a hopeless task fails |
| Recovery engine: `recovery/` | a budget per engine, the planner's own counts | recover | an execute function that may fail | two places that consume one budget, several recoveries | never overdrawn; recovery ends |
| Adaptive loop, capability router: `capabilities/` | a trace, histories of runs | execute, route, route_by_query, route_fallback | tools that come and go | fallbacks that run after others had effects | the report names the call that succeeded; the choice can run |
| Gateway and models: `gateway/server.py`, `model/` | a bucket per client, cooldowns and failures per provider, none behind a lock | chat requests, as an answer or a stream | handler threads, providers | lost updates in the limiter, cooldowns under a retry, answers that cannot be written | the limiter's limit (it does not hold); anonymous requests stay free; one answer each; every request ends |
| Provider resilience: `providers/resilience/` | circuit state, failure counts, quarantine, request times | allow_request, record_success, record_failure | requests in flight when the state changes | late answers, check then record | it opens for a cause and closes healthy; it is tried again |
| Subagents: `subagents/` | a status per subagent, budgets | delegate, execute, pause, resume, cancel, timeout | the handlers of their events, nested executions | handlers that act between two steps of a call, reports refused while paused, role dictionaries that are shared | stamps tell the history; running ones are executed; limits have a cause |
| MCP: `mcp/` | a registry of servers and tools, permissions | start, stop, restart, register, block | remote servers, at awaits | a start that is overtaken or cancelled, ids that are not unique | tables agree; starts end; a blocked tool stays denied |
| Events: `events/` | subscribers, the tracked sequence, rings of events | emit, publish, subscribe, shutdown | callbacks | callbacks outside the lock, that raise; a collector without a lock | no subscriber is missed; a collector keeps the newest |
| Replay: `replay/` | nothing: it reads a log | load, reduce, check, tree | the event tracker | logs with missing or late events | a valid log is sound; every event is placed |
| State: `state/` | cached state, a record per update, snapshots | create, advance, pause, resume, complete | a memory store | cache and record; steps set by hand | one active step, in every record |
| Git workflow: `git_workflow.py`, `tools/git.py` | a cached diff, an approval | inspect, diff, review, approve, commit | the index and the files that others change | staged files of others, files equal to HEAD | what is reported was committed |
| Shared capacity and locks: `performance/resources.py`, `backpressure.py`, `contention.py` | usage per resource, owners of locks, who waits for what | check, acquire, release, detect_deadlock | threads | a check before the taking, owners written outside the lock, records that callers forget | limits hold; no false alarm on records that are up to date |
| Approvals: `security/approval.py`, `audit.py` | requests, answers | request, resolve, prompt, revoke, check, clear | the user, other callers | answers that race a prompt, an answer in three steps | the first answer stands; what is denied stays denied |
| Verdicts: `security/`, `review/`, `verification/`, `release/`, `reality/`, `validation/`, `harness/`, `benchmark/` | results and totals | one decision each | evidence, builds, answers, results | partial results, empty lists, thresholds | no approval for less than it claims; figures agree |

Everything else (tools, skills, discovery, context, user interface, reports,
`era-launcher`, `minecraft-plugins`, web site) is listed under "components" in
`PROJECT.json` with the reason it is left out: data transformation, I/O or a
separate product.

The source itself names the promises of the durable part (`README.md:98-105`):
operations are journaled before execution, crashes are detected automatically,
state is reconciled after recovery, and a recovery budget prevents infinite
loops. That is the core, and it is modelled first.

## 2. Plan

Done, in the order of importance:

1. `Reconciler`, `ReconcilerTable`: the verdict on an UNKNOWN operation.
2. `DurableRun`: run file, journal, executor, detection, recovery, resume, for
   one run with one process at a time; its proofs in `DurableRunProofs`.
3. `RunLock` and its abstract specification `Lease`; its proofs in
   `RunLockProofs`.
4. `BoundedScheduler`: the thread pool's scheduler and its lock; its proofs in
   `BoundedSchedulerProofs`.
5. What works on a request: `AgentRun`, `AgentCore`, `Recovery`, `Gateway` with
   `ModelHub`, `Resilience`; joined by `Requests`, with `MCRequests` its small
   instance; their proofs in `AgentsProofs`, `ProvidersProofs`, `RequestsProofs`.
6. What keeps tables, logs and records: `Subagents`, `McpServers`, `EventBus`,
   `Replay`, `StateRun`, `Checkpoints`, `AdaptiveLoop`, `Capabilities`,
   `GitWorkflow`, `Capacity`, `Contention`, `Approvals`; joined by `Records`, with
   `MCRecords` its small instance; their proofs in `RegistriesProofs`,
   `RecordsProofs`.
7. What judges: `Security`, `Review`, `Verification`, `Release`, `Reality`,
   `Validation`, `Harness`, `Benchmark`; questions to `Records`, with their proofs
   in `RecordsProofs`.

Wanted next:

8. `ConcurrentResume`: two processes on one run, each with its journal cache,
   composing the run file of `DurableRun` with `RunLock`. Question: what a
   monitor's `detect_crash` does to a living run.
9. `OperationLog`: an abstract journal that `DurableRun` implements when saves
   are atomic, with the refinement as a theorem.
10. The figures of `Benchmark` and `ServerHealth` for lists of any length: a
    definition of each by the sum over a finite set, to which the lemmas about
    finite sets apply.

## 3. Modules

### Reconciler, ReconcilerTable

`Reconciler` translates `Reconciler.reconcile` and its analysers as operators on
records of evidence; a value of evidence is `"yes"`, `"no"` or `"absent"` (the
key is missing from the dictionary). `CollectEvidence` is what the default
collectors see of the target of a write or a delete: missing, holding the
expected content, or holding something else. `Classify` and
`DetermineRetryPolicy` are the idempotency table. No state: `ReconcilerTable`
gives it variables so that TLC enumerates every operation type, target and
evidence, including evidence a registered collector or a caller supplies.

### DurableRun

| Variable | In the code |
|---|---|
| `run` | the run file: whether it is absent, readable or torn, `status`, `crash_count`, `resume_count`, and for `last_heartbeat` and `updated_at` whether they are older than `heartbeat_timeout` |
| `disk`, `cache` | the journal file and `ExecutionJournal._journals`, as one status per operation |
| `target`, `executed` | the world: what the target of an operation holds, and (ghost) how much of the operation has happened |
| `owner` | ghost: whether this process, a dead one or nobody issued the operation |
| `pc`, `cur`, `todo`, `ask`, `mode` | where the process is, and the local variables of `execute_with_journal` and `resume()` |
| `crashes`, `saveErrors` | the faults so far, bounded |

Each action is the code between two file accesses, ending with the save. A save
(`SaveJournal`, `SaveRun`) succeeds, or raises and control goes to the handler
the code has there (`err`); the cache keeps the change either way, as in the
code. The actions are named for the methods they translate:

- `RegisterRun`, `CreateJournal`: `LifecycleManager.create_run`.
- `RecordIntent` ... `RecordFailure`: `DurableExecutor.execute_with_journal`, the
  operation itself being `BeginOperation` and `FinishOperation` (an effect is
  not atomic; a write truncates its target first); `OperationRaises` comes before,
  in the middle or after the effect (`str(result)` is inside the `try` too).
- `Heartbeat`, `TimePasses`, `DetectCrash`, `MarkAllStartedAsUnknown`,
  `MarkRecoverable`: `CrashDetector` and `CrashRecovery.detect_and_recover`.
- `BeginReconciling`, `ReconcileOne`, `AskUser`, `BeginResuming`, `EndDryRun`,
  `FinishResume`: `ResumeEngine.resume`, one action per save.
- `MarkRunCompleted`, `MarkRunFailed`, `MarkRunAbandoned`, `MarkCrashed`,
  `Transition`: calls a program may make at any time.
- `Crash`, `Restart`: process death at any pc; a new process boots with an empty
  cache. With `TornSaves` the file being saved may be lost.

`Calls` names the optional calls callers make, so that a run can say which
protocol it assumes: `direct_resume` is `resume()` without
`detect_and_recover`.

Left out: `restore_recovery_budget` (writes `recovery_budget_used`, which no
decision reads), `cleanup_run`, `mark_unknown` and `delete_journal` (nobody in
the component calls them) and the queries.

### RunLock, Lease

`RunLock` has the lock file (`lock`), the place of each process's call (`pc`,
`pending`), what `acquire_lock` told it (`holds`), and two ghosts: `lapsed`, its
lease expired or was revoked by force, and `overlaps`, another call was under way
during the one that took it. A call reads and decides in one step, then opens
(truncates) and dumps in two more; calls of other processes, and deaths, come in
between. The file of two dumps at once is one of theirs or neither. `Lease` is the
abstract promise: a lease is granted only when there is none, and ends. `Leases` in
`RunLock` is the refinement mapping: the lease is held by the process that was told
it has the lock, has not lapsed, and whose call met no other (`Live`). What the
code promises, one holder at a time (`SoleHolder`), it does not keep (section 8).

### BoundedScheduler

| Variable | In the code |
|---|---|
| `lock`, `submitting` | which method is inside `with self._lock`, if it stays there for more than one step, and the task it is submitting |
| `executor`, `pools`, `shutdown` | `_executor` (the number of its pool, 0 for None), pools created, `_shutdown` |
| `queued`, `active`, `completed` | the length of `_task_queue`, the keys of `_active_tasks` and `_completed_tasks` |
| `future`, `pool` | for each task, where its pool and its wrapper have got with it, and which pool that is |
| `tracked` | whether the wrapper found a handle at line 124 |
| `hurried` | ghost: some `stop(wait=False)` left a pool behind |

A method that holds the lock from end to end without waiting is one action
(`Start`, `Cancel`, `Stop` without waiting). `submit` is two, since a worker may
run the task as soon as the pool has it (`Submit`, `Register`); a `stop` that
waits is two (`Stop`, `StopJoined`). Which thread is inside does not matter, since
it does nothing else meanwhile. The wrapper is `LookUp` (no lock), `EndTask` (the
function returned or raised), `Finish` (the `finally` clause, which needs the lock
if there is a handle) and `EndFuture` (the pool marks the future done, after the
lock was released). `Pick` is the pool's: a free worker takes a pending
task, in any order, from a pool that is shut down too. Calls that are refused
(`submit` after `stop` or at capacity) change nothing. Ids of tasks are distinct,
as generated ones are.

### What works on a request (run `Requests`)

`AgentRun` is `ArgusAgent.execute`: `run` holds the counters and the status of
the request, `batch` the calls of one answer, `recent` the end of the list of
calls that the repetition check looks at, `eng` the state of the engineering
loop. One action per step of the loop: `ReasonText` and `ReasonCalls` (the model
answers), `CallTool`, `Observe`, `StopAtLimit` and `TimeOut` (the loop's exits),
then `EnterEngineering`, `ReplanDuringExecution`, `RunCommand`, `RoundEnds`,
`Repair`, `Review`, `EndEngineering`. `EnterEngineering` is all that happens
before the first command: the model investigates (`Investigated`), its calls
leave evidence (`Evidence`), evidence that contradicts the plan is judged
(`Contradicts`, `Judgements`), and the calls of a plan are carried out within the
limits (`Acted`). `Cancel` comes from another thread at any time. What the model
answers and whether a tool works are choices.

`AgentCore` is `agentcore.Agent.execute`. Its `calls` is the local variable
`tool_calls`, bound or not, which survives an iteration whose response is text:
with no call pending before, the code raises `UnboundLocalError`, otherwise it
runs the old calls again. A response without content or calls is not counted, so
only the clock ends such a loop (`TimePasses`).

`Recovery` is `RecoveryEngine.recover` over several failures: `Classify`,
`BeginCycle`, `RunAction` or `RefuseAction` per strategy option, `CycleEnds` with
its replan, `GiveUp`. `PlannerOpen` keeps the planner's own limits beside the
budget's.

`Gateway` has the limiter's bucket as a set of arrivals, which a thread reads
whole and later writes whole. It serves each request of a thread through `Arrive`
(the limiter's read), `Limit` (its write and decision), `RefuseBody` (the 400s),
`CheckModel` (403, 503), `Choose`, then `Succeed`, `FailWrite`, `FailCall`,
`FailBody`, `AfterError`, `EndStream` or `BreakStream`. An answer is written inside
the attempt that is repeated, so a write that fails is followed by another attempt
and another status line; `heads` and `failed` count the lines begun and the ones
that could not be written. `ModelHub` is the choice of a provider: availability,
scores and strategies.

`Resilience` composes the gates as a caller would: `AskCircuit`, `AskQuarantine`,
the rate budget, `Send`, `Success`, `Failure`, each a call of its own, so that
threads interleave between them. The budget's `can_make_request` filters its list
(`FilterWindow`), assigns it (`StoreWindow`), which loses what was recorded
meanwhile, and decides (`AskBudget`). `Lapse`, `QuarantineLapse` and `Slide` are
time.

### What keeps tables, logs and records (run `Records`)

`Subagents`: nothing in `src/` starts a thread here, so what happens during an
execution happens in the handlers of its events, which may call every operation,
another execution too. `exec` is the stack of executions; one step leads from one
event to the next (`Execute`, `StartNewEnds`, `Run`, `TakeBudget`, `Exhaust`,
`Report`), and other calls come between. The executor never
finishes a task otherwise than by its limits: `_should_terminate` looks at a
deadline and constraints that nobody passes on. `limits` is the one dictionary
per role that `create_budget` updates in place. Whose child a subagent is, is left
out: `delegate` asks no policy, and nothing calls `can_create_child`.

`McpServers`: tasks of one event loop, suspended only in the request of
`initialize`. No answer can ever arrive (section 8), so a start ends in
`TimeOut` or is cancelled. Registry, entries, blocked and allowed tools are separate
tables. The id of a capability is what the host makes it (`CapabilityIds`), so two
servers may register one; the text that permissions are kept under
(`FullToolId`) may be that of two tools.

`EventBus`: `Emit`, then `CopySubscribers` under the lock, then one `Deliver` per
subscriber while `Subscribe`, `Unsubscribe` and `Deactivate` go on. A collecting
subscriber appends (`Collect`), looks at the length (`CheckLength`), copies the end
of its list (`CopyLast`) and assigns it (`Assign`), with other threads between.
`Replay`: a log grows by `Record`; loader, reducer, checker and tree are operators
on it. `StateRun`: cache, records and snapshots of one run; a caller may set any
step to any status (`SetStepStatus`). `Checkpoints`: snapshots change on their way
through JSON as the kind they are of does (`FromJson`), and files are torn
(`Damage`) or changed (`Alter`) on disk. `AdaptiveLoop`, `Capabilities`: one action
per stage or call. `GitWorkflow`: what HEAD, the index and the work tree hold of each
file, and the answers of the tool's stages, while others edit and stage.

`Capacity` is `ResourceController` with the `BackpressureController` before it:
a thread asks (`CheckCapacity`), may wait, and takes what it asked for later
(`Acquire`), which checks again under the lock. `Contention` is `LockWrapper` and
the detector that callers tell of every lock, or forget to (`Forget`): the owner is
written after the lock was taken and erased before it is given back. `Approvals` is
`ApprovalManager`: a prompt (`Prompt`, `PromptReturns`) is open while others answer,
revoke and clear, and an answer is taken out of the pending ones, given its status
and stored in three steps (`TakeOut`, `SetStatus`, `Store`).

The modules that judge have no variables: each is an operator from what the code
looks at (evidence, a build, an answer, a list of results, a project, an
invocation, a world) to its verdict. So are `Aggregate` of `Subagents`, what the
results of several subagents come to, and `ServerHealth` of `McpServers`, the
counters of the health monitor after a list of checks. `Records` asks one question
per behaviour (`input`, one of `Questions`), takes the step `Judge`, and relates the
`judgement` to the question.

### Requests and Records, MCRequests and MCRecords

In the code these components share no state: the package of subagents does not
call the event bus of the agent, the gateway does not use `providers/resilience`,
no loop calls `RecoveryEngine`. A product of them would only multiply states. A
behaviour of the two composed modules therefore chooses one part (`part`) and
runs it; the others rest in their initial state, and a property is asked of the
part that runs. Every part keeps its own constants and its own fairness.
`Requests` and `Records` take the constants of their parts as their own, so that
theorems about them speak of every value, and assume of them what the parts do
(`RequestsAssumption`, `RecordsAssumption`; the latter also says that a question is
one of those the part can be asked). `MCRequests` and `MCRecords` give those that
a configuration cannot write down (lists of providers, limits per strategy, events
of a log, questions).

## 4. Runs

| Run | Question | Instance | Result |
|---|---|---|---|
| `DurableRun` | does anything any caller can do make the journal late, false or revised, or reopen a completed run? | 2 operations (a write and a shell command), all calls but the heartbeat, all modes, 2 deaths, 1 save that raises | holds; 2.5 million states |
| `DurableRecovery` | with torn files, a save that raises and deaths during recovery, is the journal ahead of every effect, each death counted once and nothing forgotten? | 3 operations, 2 deaths, the documented order of calls, heartbeats and progress reports | holds; 10.5 million states |
| `DurableLiveness` | is a run whose process died worked on again? | processes do not die while recovering | holds under `FairSpec` |
| `RunLock` | is the lock a lease to those whose calls met no other, and is a dead holder replaced? | 2 processes, force, 2 deaths, calls interleaved | holds |
| `Scheduler` | do the bounds hold across stops and restarts, do the accounts agree with the pool, do accepted tasks end? | 4 tasks, queue of 3, 2 workers, 2 pools | holds; 219 thousand states |
| `Requests` | do limits hold, is success earned, is one answer given, do requests end? | see below | holds; 513 thousand states |
| `Records` | do tables, logs, records and reports agree with what happened, and is no verdict better than its evidence? | see below | holds; 853 thousand states |
| `StuckRecovery` | `DurableLiveness` with deaths while recovering | 2 operations | violated: RECONCILING and RESUMING are dead ends |
| `StopDeadlock` | does `stop()` return? | 2 tasks, 1 worker | violated: it waits, with the lock, for tasks that need the lock |
| `TwoHolders` | does one process at a time hold the lock? | 2 processes, nothing goes wrong | violated: both read before either writes |
| `StoppedRun` | is a stopped request reported as failed? | the agent of `Requests` | violated: the engineering loop's verdict replaces the stop |
| `LimitExceeded` | does the limiter let through what it is told to? | the gateway of `Requests`, 2 threads | violated: two threads read one bucket |

Bounds of the durable runs. Two operations are the least in which one belongs to a
dead process while another is being executed, and one write and one shell command
are the two sorts of verdict (drawn from the target, or left to the user);
`DurableRecovery` adds a third, a delete. Two deaths are the least in which
recovery itself dies once and the run crashes again after it was resumed, or
recovery dies twice. Two resumes let the second follow the first. One save error
is enough for every handler to run once after a clean prefix. Two processes on a
lock, each of which may be slow, forced out, dead or in a call, are the least that
meet; the theorem is for any number. Four tasks are the least that reach the
queue's limit of three, and three those that have both workers of a pool busy and
one waiting; two pools make one restart. Times are abstracted to before and after
their limit.

Bounds of `Requests`. Three iterations, three calls and batches of two let a batch
begin below a limit and end above it; two commands let the first fail after the
second passed in an earlier round; two repairs and one revision nest. `agentcore`
has two tasks, so that a second one finds what the first left in the agent. Three
recoveries' worth of budget is shared by two failures, with one strategy that runs
out before the others. Two threads are enough for a lost update in the limiter or
in a provider's budget or a retry under another's cooldown; of the three servers
one has a paid provider behind a free one. Two trials, two failures and two
threads let an old answer arrive in every state of the circuit.

Bounds of `Records`. Two subagents, roles and nested executions let one be
executed within itself or the other and be removed while it runs. Two MCP servers
and starts let a start outlive its entry; they have one id for a capability and
one text for a tool's permission between them, the worst case. Two publications
overlap, with a callback that raises, a filter that excludes, and a collector that
keeps one event and that both are in. Logs of four events hold a start, an end, a
decision and an execution in every order. The inputs of the verdicts are complete
where that is feasible; for `Review`, `Release`, `Validation` and `Verification`
the sets `Reviewed`, `Released`, `Validated` and `Verified` name what is held
fixed; benchmark lists are all single results and lists of up to two results of
twelve kinds, aggregates are of up to two subagents with a finding each (two are
the least that contradict one another) and of 199, 200 and 201 results of which
one timed out (where the confidence is rounded up to 1.0); a world of `Reality`
has one fault or none; and a server is checked up to three times. Two threads and
two locks are the least that deadlock; one resource has room for one and another
for two. `Symmetry` permutes what no definition tells apart, in the run without
temporal properties under fairness.

`CHECK_DEADLOCK FALSE` stands where the instance runs out of operations, deaths,
tasks or requests, or where a verdict is all there is, and really may stop.

The mutants (definitions beside the originals) show that each property can fail:
a missing guard, a skipped save, a reset left out, an end read for a start.

## 5. Fairness

`DurableRun.Fairness`: someone restarts a dead process (`Restart`), clocks
advance (`TimePasses`), and a booted process carries on with creation or
recovery (`Recover`). These are the steps the code takes without waiting for
anyone. There is none on operations, heartbeats or status calls, and none on
death.

`RunLock.Fairness`: clocks advance (`Expire`), a call that began ends
(`SaveLock`), and every process keeps asking for the lock. The last is strong
fairness, since other callers may force-unlock or clean up in between and
`acquire_lock` is then briefly impossible, but comes back infinitely often; it
says that a process that wants the run retries, as the command line does when it
is run again. Nothing forces a release, a force or a cleanup.

`BoundedScheduler.Fairness`: workers run and the callers' functions return
(`Worker`), a submission that was given to the pool is registered, and a join
whose workers have ended returns. Nothing obliges callers to call. Weak fairness
is enough for the lock: the tasks and pools are finite, so in the end it is
either free for good or kept for good.

`Requests.Fairness` is the fairness of its parts: the thread that executes a
request goes on (`Step`, `EngineStep`, `Serve`), `agentcore`'s clock passes, a
thread that asked the circuit is answered and a request in flight has an answer,
and a circuit's timer lapses. Nothing obliges anyone to send a request, to cancel
or to reset, and no fairness is assumed on quarantine or on time in the gateway.
`Records` assumes none: its properties are safety properties.

## 6. Proofs

`DurableRunProofs` proves, for any set of operations, any types, modes, calls,
faults and bounds:

- `TypeCorrect`: `Spec => []TypeOK`.
- `VerdictsTrue`: `Spec => []VerdictsAreTrue`.
- `OutcomesFinal`, `CompletedClosed`: the two action properties.
- `JournalIsAhead`: `Spec => WriteAhead`, torn files and saves that raise included.
- `CountedOnce`: if no caller sets the status outright and no resume is a dry
  run, `Spec => []CrashesCountedOnce`.
- `NothingForgotten`: if callers keep to the documented order (`Orderly`; they may
  report progress and send heartbeats), `Spec => []NoOrphans`: as long as no save
  raised, nothing STARTED or UNKNOWN is left, torn files and deaths included.

None of the properties is inductive. `VerdictsAreTrue` speaks of the file, but the
next save writes the cache, so the invariant must say the same of every status
either of them holds (`HeldIsTrue`). RECONCILED_COMPLETED is drawn from the
target, so finished writes and deletes must show on it (`EffectShows`), and a
verdict must not be undone by a later step on the same target: it is not, because
ids are issued once (`IssuedOnce`), and the operation being executed is recorded
as under way in file and cache (`UnderWay`), hence not yet decided.
`OutcomesAreFinal` needs that the cache knows every outcome the file holds
(`CacheKnowsOutcomes`), since a stale cache would write it away, and that
`resume()` works on UNKNOWN operations only (`ResumeUnderWay`).
`CompletedIsNotReopened` needs the statuses under which `resume()` moves
(`ResumeUnderWay` again). `IndInv` is the conjunction; `Invariant` proves it
inductive with one lemma per action group. `WriteAhead` needs that the cache knows
every operation the file does (`CacheKnowsRecords`), or a save would write it
away, besides `UnderWay`.

`CrashesCountedOnce` needs to know which deaths have been counted: `Counting`
relates the two counts to the status (`CountedByStatus`), the status to the step
of recovery under way (`StatusOfStep`), and leaves room for a death that detection
has not seen (`DeathsUncounted`). `NoOrphans` needs to know which operations are
still to be marked: `Swept` says that the cache agrees with the file, that past
the marking no operation is STARTED, that the loop of `resume()` has every UNKNOWN
operation on its list, and that none is left when the run moves on. An operation
whose status is PROGRESS is not STARTED, and is not marked (`journal.py:144`); a
save that raises half way leaves what the next detection does not see: neither is
in what `NoOrphans` promises.

`RunLockProofs` proves `LockTypeCorrect` and, however calls interleave,
`LockImplementsLease`, from `LockInv`: a good lease is what the file says and no
call is about to change it (`LeaseIsFiled`), a call that has met no other is alone
and finds the file it emptied (`AloneUnlessOverlapping`), and a call that will write
an acquired lock writes its own (`LocksOwn`).

`BoundedSchedulerProofs` proves `SchedulerTypeCorrect`, `AccountsAgree`,
`BacklogBounded` and `ConcurrencyBounded` for any finite set of tasks and any
sizes. The accounts are inductive with the task being submitted added
(`OneSubmission`, `Filed`); the backlog is bounded because the deque has an entry
for every task that is not over, that task excepted (`Backlog`). The bound on
concurrency needs that only the present pool has work unless one was left behind
(`OnePool`), so that the bound of each pool (`PoolsBounded`) is that of all.

`RequestsProofs` proves of `Requests`, for any limits, tools, strategies, servers,
models, threads and bounds on requests, every safety property that the run
`Requests` checks: `TypesHold`, `RequestsAreLimited`, `VerdictsAreJust`,
`AnonymousRequestsAreFree`, `RequestsHaveOneAnswer` and, as an
action property with an invariant, `CircuitsAreHonest`. `Inv` says that the part
that runs satisfies its inductive invariant; a step of the composition is a step
of that part. The lemmas about the parts, one for each action, are in
`AgentsProofs` and `ProvidersProofs`:

- `AgentInv`: the limits are kept because a batch begins below them and asks
  before each call (`AgentCalls`), and because every loop of the engineering has
  a counter of its own; COMPLETED is earned because of what each place knows of
  the last edit (`AgentRounds`): when a round ends without a failure, or the
  review begins, every command passed since.
- `CoreInv`: where `agentcore`'s loop stands determines which limit is not reached
  yet, and the reason it was left with determines the status (`CoreRounds`).
- `EngineInv`: no auxiliary conjunct but the types; what needs an argument is that
  every strategy the engine chooses can be paid before it runs (`EnginePays`),
  also when it replans between two cycles.
- `GatewayInv`: a request that has a provider has one that was free and available
  for it, and one that is not a stream has begun as many status lines as could not be
  written, and one more when it was answered (`RequestsHold`). That the hub chooses
  among the available ones needs that a best score exists (`GreatestValue`).
- `ProviderInv`: a half open circuit has a trial left (`ProviderRounds`).

The assumptions are those stated in the modules (types of constants,
`NoOne \notin Procs`, `NoTask \notin Tasks`, `Tasks` and `Threads` finite) and
the hypotheses of the theorems named above.

`RegistriesProofs` and `RecordsProofs` prove of `Records`, for any subagents, roles,
servers, policies, subscriptions, logs, plans, files, threads, locks, limits and
bounds, and for any questions, every safety property that the run `Records` checks
but one: `InvHolds`, `TypesHold`, `SubagentsAreAttendedTo`, `BudgetsAreKept`,
`McpStaysCoherent`, `StartsEnd`, `ReplaysAreTrue`, `RecordsStayTrue`,
`ReportsAreTrue`, `ReconcilingStaysSafe`, `PoliciesAreCoherent`,
`ApprovalsAreEarned`, `PassesAreEarned` and, as an action property with an
invariant, `PublicationsArrive`. As in `Requests`, `Inv` says that the part that
runs satisfies its inductive invariant. What each part needs beyond its property:

- `SubagentInv`: a subagent that is running or paused has an executor that took it
  up, or lost it (`Attended`), an executor without work holds nothing and one with
  work has a subagent that there is (`Employed`), and every limit, of a role, of a
  subagent or in an executor's hands, is one that was asked for, the subagent's own
  overrides among them (`BudgetsAreDrawn`).
- `CapacityInv`: what threads hold of a resource adds up to its usage, and nobody
  holds nothing. The sum is over a finite set of threads, of which a step changes
  one.
- `McpInv`: the two tables agree on the ids that one server registered, a tool that
  was barred is still blocked, and an initializing server has a waiting start, unless
  one of its starts was cancelled.
- `BusInv`: between copying the subscribers and delivering to them, a publication
  has given its event to those in the list before the ones still to do (`Owes`), and
  a collector in which no two threads met holds the end of what it received, or the
  thread that is in it is about to make it so (`Rests`, `Serves`).
- `RunInv`, `CheckpointInv`, `ApprovalInv`, `GitInv`: cached, saved and snapshot
  states are all sound; a checkpoint's file is the one made, as JSON gives it back, or
  torn or altered; a request for approval is in one table at most or is being resolved,
  once, and its answer is known wherever it is (`Placed`); what is reported is in HEAD.
- `ContentionInv`: how far a thread is with a lock determines who owns it, in the
  lock, in the wrapper and in the detector's graph (`ThreadAgrees`, `LockAgrees`).
  A cycle in the graph of threads whose records are up to date is then a cycle of
  threads that wait.
- `LoopInv`: calls that have been made are no longer to be made (`NoneTwice`), and in
  recovery every call so far failed (`AllFailed`). This holds with verification
  and without (`Verifying`), when nothing is tried after a failure; the run has it on.
- `TableInv`: what happened shows on the target, and a verdict is that of the
  evidence, whoever supplied it.
- `RouterInv`: what ran as a fallback is of the same kind, available and not what
  failed.
- `LogInv` has the type alone; that the verdict on a log is right is an argument
  about its length. The reducer's state after n events (`StepByStep`) and the walk
  up the tree (`Walks`) are recursive functions, and a claim about all n is proved
  by looking at the least n for which it fails. So a log that the checker calls valid
  has started what it ended, once, and verified what it completed; an execution
  that is reported to follow a denial follows one; and every event has an earlier
  place in the tree.
- `JudgementInv`: a judgement is the answer to the question asked, and the question
  one that may be. The rest is the verdicts' own: for each of `Security`, `Review`,
  `Release`, `Validation`, `Harness` and `Verification` a lemma says what a verdict
  that allows or passes has looked at. (No theorem speaks of `Reality`.)

Only model-checked: `FiguresAgree`, on lists of results and of checks (medians,
sorted lists, sums and folds over lists of any length would need induction over
the definitions of the library's folds, whose theorems take an operator as a
parameter); and every liveness property, `EveryRequestEnds`, `DeadRunIsResumed`,
`StopReturns` and the others: fairness and ENABLED are outside what the proof
system's backends handle.

## 7. What is not modelled

Two processes on one run at the same time (planned `ConcurrentResume`);
contents of operations beyond what a verdict can tell apart; the text of
evidence, prompts, answers, findings and reports; what a command or a tool does
beyond its outcome; every component marked `not_modelled` in `PROJECT.json`.
Within `DurableRun`, an operation id is issued once (the code draws it from
uuid4), a call never takes longer than the heartbeat timeout, and the world
changes only by the run's own operations. Within `BoundedScheduler`, two
submissions never share a `task_id`, and a task does not call its own scheduler's
`stop`. Within `Subagents`, no two threads share a manager, as nothing
in `src/` starts one that calls it, and the policies are left out because neither
`delegate` nor `execute` asks them. The audit trail of the approvals is left out. Within
`McpServers`, the code behind a successful `initialize` is not modelled: nothing
reaches it. Within `GitWorkflow`, the test stage is left out, no file changes in
the middle of a stage (a commit's `git add` and `git commit` are one step for those
who edit), and `SetApproved`, which nothing in the program calls, stands for a host
that does. In `Checkpoints`
the names of files are the ids alone, so listing by run finds nothing and
deletion deletes nothing, as in the code (`checkpoints.py:83`).

## 8. Findings

Where the code and its own documentation disagree, a run that is expected to be
violated shows it (`PROJECT.json`, "findings"):

- `StuckRecovery`: a death inside `resume()` leaves the run where nothing picks it up.
- `StopDeadlock`: `stop()` waits for ever for tasks that need its lock.
- `TwoHolders`: nothing is held between reading and writing the lock file, so two
  processes are told that they hold the lock.
- `StoppedRun`: a request stopped for failures, time or by the user is COMPLETED
  and successful when the engineering loop's commands pass.
- `LimitExceeded`: nothing is held between reading and storing a client's bucket, so
  two threads of the gateway let more through than `max_requests`.

Disagreements that the models show and no run repeats. A deadlock can go
unnoticed, since of two threads that wait for one lock only the later is recorded
(`contention.py:70`; the converse of `AlarmIsReal` fails in `Contention`).
`UserDecidesFirst` of `DurableRun` fails at the second `resume()`
(`resume.py:158`); `ActiveTasksAreNotDone` of `BoundedScheduler` fails when a
worker is faster than `submit` (`scheduler.py:124`); `NoDevelopmentFiles` of
`Release` fails because REL-006 looks at nothing (`invariants.py:138`);
`PerfectAgentPasses` of `Validation` fails where a criterion's words are read as
another kind (`verifier.py:96`); `BaselineCanWin` of `Benchmark` fails because the
baseline is never the winner (`comparison.py:144`). Each is stated beside the
properties that hold; to see one fail, name it in a configuration of its module.

Met while modelling, and part of the models: nothing reads the answers of an MCP
server (`mcp/transport.py:207`), and the client would refuse them (`response.error` is
a class method, `client.py:112`), so no server becomes ready; provider and invariant
results of the reality suite have no status and count in the total only
(`reality/runner.py:109`), so that its pass rate stays below the limit whatever the
checks found; a client that was sent a status line that could not be finished may be
sent a second one (`server.py:279-286`); an operation may be journaled FAILED that
happened (`executor.py:119`); every text response of `agentcore`
without an earlier call raises (`agentcore/agent.py:327`); a configured fallback
of a capability is a dictionary without `execute`, so that all backends fail
(`capabilities/__init__.py:412`); nothing calls `set_approved`, so that the git
workflow never commits by itself; restarting an MCP server raises because it is
still registered (`registry.py:67`); an MCP process whose start times out is
never ended (`lifecycle.py:112`); subagents end by exhaustion only.
