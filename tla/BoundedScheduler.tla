--------------------------- MODULE BoundedScheduler ---------------------------
(***************************************************************************)
(* BoundedScheduler (argus/performance/scheduler.py): a thread pool, the   *)
(* scheduler's counts of tasks, and one lock that is not reentrant.  The   *)
(* callers' methods run under the lock.  A task runs in a worker inside a  *)
(* wrapper, which looks its handle up without the lock and files it as     *)
(* completed with it.  stop(wait=True) keeps the lock while it joins the   *)
(* workers.                                                                *)
(***************************************************************************)
EXTENDS Naturals, FiniteSets

CONSTANTS
  Tasks,      \* the submissions, each with a task_id of its own
  NoTask,     \* no task
  MaxWorkers, \* max_workers
  MaxQueue,   \* policy.max_queue_size
  MaxPools    \* bound: thread pools created

ASSUME TasksAssumption == IsFiniteSet(Tasks) /\ NoTask \notin Tasks
ASSUME SizesAssumption == MaxWorkers \in Nat /\ MaxQueue \in Nat
ASSUME BoundAssumption == MaxPools \in Nat

VARIABLES
  lock,       \* the critical section that holds _lock, or "free"
  submitting, \* the task submit() has given to the pool and not registered
  executor,   \* the pool in _executor, numbered from 1; 0 is None
  pools,      \* pools created so far
  shutdown,   \* _shutdown
  queued,     \* len(_task_queue)
  active,     \* the keys of _active_tasks
  completed,  \* the keys of _completed_tasks
  future,     \* where each task is, for its pool and its wrapper
  pool,       \* the pool it was given to
  tracked,    \* has its wrapper found its handle?
  hurried     \* ghost: has a pool been left without waiting for it?

counts == <<queued, active, completed>>
pooled == <<executor, pools, shutdown, hurried>>
vars == <<lock, submitting, counts, pooled, future, pool, tracked>>

Busy == {"picked", "running", "ended", "filed"}   \* in a worker
Unfinished == Busy \cup {"pending"}

TypeOK ==
  /\ lock \in {"free", "start", "submit", "stop"}
  /\ submitting \in Tasks \cup {NoTask}
  /\ lock = "submit" => submitting # NoTask
  /\ executor \in 0..pools /\ pools \in Nat
  /\ shutdown \in BOOLEAN /\ hurried \in BOOLEAN
  /\ queued \in Nat
  /\ active \subseteq Tasks /\ completed \subseteq Tasks
  /\ future \in [Tasks -> Unfinished \cup {"none", "done", "cancelled"}]
  /\ pool \in [Tasks -> Nat]
  /\ tracked \in [Tasks -> BOOLEAN]

Init ==
  /\ lock = "free"
  /\ submitting = NoTask
  /\ executor = 0 /\ pools = 0
  /\ shutdown = FALSE /\ hurried = FALSE
  /\ queued = 0
  /\ active = {} /\ completed = {}
  /\ future = [t \in Tasks |-> "none"]
  /\ pool = [t \in Tasks |-> 0]
  /\ tracked = [t \in Tasks |-> FALSE]

InWorkers(g) == {t \in Tasks : pool[t] = g /\ future[t] \in Busy}

(* start(); with a pool already there it does nothing.                     *)
Start ==
  /\ lock = "free"
  /\ executor = 0
  /\ pools < MaxPools
  /\ pools' = pools + 1
  /\ executor' = pools + 1
  /\ shutdown' = FALSE
  /\ UNCHANGED <<lock, submitting, counts, future, pool, tracked, hurried>>

(* submit() before any start(): it calls start(), which waits for the lock *)
(* its own thread holds.                                                   *)
SubmitUnstarted ==
  /\ lock = "free"
  /\ ~shutdown
  /\ executor = 0
  /\ lock' = "start"
  /\ UNCHANGED <<submitting, counts, pooled, future, pool, tracked>>

\* Mutant of Submit: the capacity check is off by one.
SubmitOneMore(t) ==
  /\ lock = "free"
  /\ ~shutdown
  /\ executor # 0
  /\ queued <= MaxQueue
  /\ future[t] = "none"
  /\ future' = [future EXCEPT ![t] = "pending"]
  /\ pool' = [pool EXCEPT ![t] = executor]
  /\ submitting' = t
  /\ lock' = "submit"
  /\ UNCHANGED <<counts, pooled, tracked>>

(* submit() up to _executor.submit, from where a worker may run the task.  *)
(* Shut down it raises, and at capacity it returns None: no change.        *)
Submit(t) ==
  /\ lock = "free"
  /\ ~shutdown
  /\ executor # 0
  /\ queued < MaxQueue
  /\ future[t] = "none"
  /\ future' = [future EXCEPT ![t] = "pending"]
  /\ pool' = [pool EXCEPT ![t] = executor]
  /\ submitting' = t
  /\ lock' = "submit"
  /\ UNCHANGED <<counts, pooled, tracked>>

\* Mutant of Register: the future is registered under no task.
RegisterUnsubmitted ==
  /\ lock = "submit"
  /\ queued' = queued + 1
  /\ active' = active \cup {NoTask}
  /\ submitting' = NoTask
  /\ lock' = "free"
  /\ UNCHANGED <<completed, pooled, future, pool, tracked>>

\* Mutant of Register: the lock is not released.
RegisterAndKeep ==
  /\ lock = "submit" /\ submitting # NoTask
  /\ queued' = queued + 1
  /\ active' = active \cup {submitting}
  /\ submitting' = NoTask
  /\ UNCHANGED <<lock, completed, pooled, future, pool, tracked>>

(* The rest of submit().  The deque only ever grows.                       *)
Register ==
  /\ lock = "submit"
  /\ queued' = queued + 1
  /\ active' = active \cup {submitting}
  /\ submitting' = NoTask
  /\ lock' = "free"
  /\ UNCHANGED <<completed, pooled, future, pool, tracked>>

(* stop(wait).                                                             *)
Stop(wait) ==
  /\ lock = "free"
  /\ shutdown' = TRUE
  /\ IF executor # 0 /\ wait
     THEN lock' = "stop" /\ UNCHANGED <<executor, hurried>>
     ELSE /\ executor' = 0
          /\ hurried' = (hurried \/ executor # 0)
          /\ UNCHANGED lock
  /\ UNCHANGED <<submitting, counts, pools, future, pool, tracked>>

\* Mutant of StopJoined: only the tasks in workers are waited for.
StopUnjoined ==
  /\ lock = "stop"
  /\ InWorkers(executor) = {}
  /\ executor' = 0
  /\ lock' = "free"
  /\ UNCHANGED <<submitting, counts, pools, shutdown, hurried, future, pool,
                 tracked>>

(* The workers have ended: the pool's queue is empty and no task runs.     *)
StopJoined ==
  /\ lock = "stop"
  /\ \A t \in Tasks : pool[t] = executor => future[t] \notin Unfinished
  /\ executor' = 0
  /\ lock' = "free"
  /\ UNCHANGED <<submitting, counts, pools, shutdown, hurried, future, pool,
                 tracked>>

(* cancel(task_id).  The handle stays in _active_tasks.                    *)
Cancel(t) ==
  /\ lock = "free"
  /\ t \in active
  /\ future[t] = "pending"
  /\ future' = [future EXCEPT ![t] = "cancelled"]
  /\ UNCHANGED <<lock, submitting, counts, pooled, pool, tracked>>

(* ThreadPoolExecutor: a free worker takes a pending task, from a pool     *)
(* that is shut down too.  The order in which it does is left open.        *)
Pick(t) ==
  /\ future[t] = "pending"
  /\ Cardinality(InWorkers(pool[t])) < MaxWorkers
  /\ future' = [future EXCEPT ![t] = "picked"]
  /\ UNCHANGED <<lock, submitting, counts, pooled, pool, tracked>>

(* The wrapper looks for its handle, without the lock, and calls fn.       *)
LookUp(t) ==
  /\ future[t] = "picked"
  /\ future' = [future EXCEPT ![t] = "running"]
  /\ tracked' = [tracked EXCEPT ![t] = (t \in active)]
  /\ UNCHANGED <<lock, submitting, counts, pooled, pool>>

(* fn returns or raises; either way the wrapper's finally is next.         *)
EndTask(t) ==
  /\ future[t] = "running"
  /\ future' = [future EXCEPT ![t] = "ended"]
  /\ UNCHANGED <<lock, submitting, counts, pooled, pool, tracked>>

\* Mutant of Finish: the task is no longer active and is filed nowhere.
FinishUnfiled(t) ==
  /\ future[t] = "ended"
  /\ future' = [future EXCEPT ![t] = "filed"]
  /\ IF tracked[t]
     THEN lock = "free" /\ active' = active \ {t} /\ UNCHANGED completed
     ELSE UNCHANGED <<active, completed>>
  /\ UNCHANGED <<lock, submitting, queued, pooled, pool, tracked>>

(* The wrapper's finally, which takes the lock if there is a handle.       *)
Finish(t) ==
  /\ future[t] = "ended"
  /\ future' = [future EXCEPT ![t] = "filed"]
  /\ IF tracked[t]
     THEN /\ lock = "free"
          /\ completed' = completed \cup {t}
          /\ active' = active \ {t}
     ELSE UNCHANGED <<active, completed>>
  /\ UNCHANGED <<lock, submitting, queued, pooled, pool, tracked>>

(* The wrapper has returned; ThreadPoolExecutor sets the future's result   *)
(* and its worker is free for another task.                                *)
EndFuture(t) ==
  /\ future[t] = "filed"
  /\ future' = [future EXCEPT ![t] = "done"]
  /\ UNCHANGED <<lock, submitting, counts, pooled, pool, tracked>>

Worker(t) == Pick(t) \/ LookUp(t) \/ EndTask(t) \/ Finish(t) \/ EndFuture(t)

Next ==
  \/ Start \/ SubmitUnstarted \/ Register \/ StopJoined
  \/ \E wait \in BOOLEAN : Stop(wait)
  \/ \E t \in Tasks : Submit(t) \/ Cancel(t) \/ Worker(t)

Spec == Init /\ [][Next]_vars

(* Workers run, the callers' functions return, and a method that is not    *)
(* blocked goes on.                                                        *)
Fairness ==
  /\ WF_vars(Register) /\ WF_vars(StopJoined)
  /\ \A t \in Tasks : WF_vars(Worker(t))

FairSpec == Spec /\ Fairness

-----------------------------------------------------------------------------
(* A bounded scheduler: unless a pool was left without waiting for it, no  *)
(* more than max_workers tasks are in workers, across restarts.            *)
BoundedConcurrency ==
  ~hurried => Cardinality({t \in Tasks : future[t] \in Busy}) <= MaxWorkers

(* Backpressure: no more tasks than the queue may hold are accepted and    *)
(* not over, the one being submitted included.                             *)
BoundedBacklog ==
  Cardinality({t \in Tasks : future[t] \in Unfinished}) <= MaxQueue

(* What the scheduler reports of a task agrees with the pool: a task it    *)
(* accepted is active or completed and not both, it is completed only when *)
(* its function has ended, which is before its future is done, and one     *)
(* whose wrapper found its handle is not active once its function ended.   *)
Accounting ==
  lock = "free" =>
    /\ \A t \in Tasks : future[t] # "none" <=> t \in active \cup completed
    /\ active \cap completed = {}
    /\ \A t \in completed : future[t] \in {"filed", "done"}
    /\ \A t \in active : tracked[t] => future[t] \notin {"filed", "done"}

(* An accepted task is run to its end or cancelled, unless a stop() that   *)
(* waits keeps the lock from its wrapper.                                  *)
AcceptedTaskEnds ==
  \A t \in Tasks :
    future[t] = "pending" ~> future[t] \in {"done", "cancelled"} \/ lock = "stop"

(* stop() returns, as the time limit among its parameters says it does,    *)
(* when the functions it waits for do.                                     *)
StopReturns == lock = "stop" ~> lock = "free"

(* A task in _active_tasks is not over: active_task_count is the number of *)
(* active tasks.                                                           *)
ActiveTasksAreNotDone ==
  lock = "free" => \A t \in active : future[t] # "done"

-----------------------------------------------------------------------------
(* The inductive invariants of BoundedSchedulerProofs.                     *)

(* At most one submission is under way, and it is not registered.          *)
OneSubmission ==
  /\ lock = "submit" <=> submitting # NoTask
  /\ lock = "submit" => queued < MaxQueue
  /\ submitting \notin active \cup completed

Filed ==
  /\ \A t \in Tasks :
       /\ future[t] # "none" <=> t \in active \cup completed \/ t = submitting
       /\ tracked[t] =>
            t # submitting /\ future[t] \in {"running", "ended", "filed", "done"}
  /\ active \cap completed = {}
  /\ \A t \in completed : future[t] \in {"filed", "done"}
  /\ \A t \in active : tracked[t] => future[t] \notin {"filed", "done"}

(* The deque has an entry for each task that is not over.                  *)
Backlog ==
  /\ queued <= MaxQueue
  /\ Cardinality({t \in Tasks : future[t] \in Unfinished}) <=
       queued + (IF lock = "submit" THEN 1 ELSE 0)

(* Unless one was left behind, only the present pool has work.             *)
OnePool ==
  /\ \A t \in Tasks : future[t] \in Unfinished => pool[t] # 0
  /\ ~hurried =>
       \A t \in Tasks : future[t] \in Unfinished => pool[t] = executor

PoolsBounded == \A g \in Nat : Cardinality(InWorkers(g)) <= MaxWorkers

AccountInv == OneSubmission /\ Filed /\ Backlog
PoolInv    == OnePool /\ PoolsBounded
=============================================================================
