------------------------ MODULE BoundedSchedulerProofs ------------------------
(* Theorems about BoundedScheduler, for any tasks and sizes.               *)
EXTENDS BoundedScheduler, FiniteSetTheorems, TLAPS

(* Every reachable state of a scheduler has the declared types.            *)
THEOREM SchedulerTypeCorrect == Spec => []TypeOK
<1>1. Init => TypeOK
  <2> SUFFICES ASSUME Init PROVE TypeOK
    OBVIOUS
  <2>1. shutdown \in BOOLEAN /\ hurried \in BOOLEAN
    BY Zenon DEF Init
  <2> QED
    BY <2>1 DEF Init, TypeOK, Busy, Unfinished
<1>2. TypeOK /\ [Next]_vars => TypeOK'
  <2> SUFFICES ASSUME TypeOK, [Next]_vars PROVE TypeOK'
    OBVIOUS
  <2>b. shutdown' \in BOOLEAN /\ hurried' \in BOOLEAN
    BY Zenon DEF TypeOK, Next, vars, pooled, Start, SubmitUnstarted, Register,
       StopJoined, Stop, Submit, Cancel, Worker, Pick, LookUp, EndTask, Finish, EndFuture
  <2> USE <2>b, BoundAssumption DEF TypeOK, counts, pooled, Busy, Unfinished
  <2>1. CASE Start
    BY <2>1 DEF Start
  <2>2. CASE SubmitUnstarted
    BY <2>2 DEF SubmitUnstarted
  <2>3. CASE Register
    BY <2>3, SMTT(30) DEF Register
  <2>4. CASE StopJoined
    BY <2>4 DEF StopJoined
  <2>5. ASSUME NEW wait \in BOOLEAN, Stop(wait) PROVE TypeOK'
    BY <2>5 DEF Stop
  <2>6. ASSUME NEW t \in Tasks, Submit(t) PROVE TypeOK'
    BY <2>6, TasksAssumption DEF Submit
  <2>7. ASSUME NEW t \in Tasks, Cancel(t) PROVE TypeOK'
    BY <2>7 DEF Cancel
  <2>8. ASSUME NEW t \in Tasks, Pick(t) PROVE TypeOK'
    BY <2>8 DEF Pick
  <2>9. ASSUME NEW t \in Tasks, LookUp(t) PROVE TypeOK'
    BY <2>9 DEF LookUp
  <2>10. ASSUME NEW t \in Tasks, EndTask(t) PROVE TypeOK'
    BY <2>10 DEF EndTask
  <2>11. ASSUME NEW t \in Tasks, Finish(t) PROVE TypeOK'
    BY <2>11 DEF Finish
  <2>12. CASE UNCHANGED vars
    BY <2>12 DEF vars
  <2>13. ASSUME NEW t \in Tasks, EndFuture(t) PROVE TypeOK'
    BY <2>13 DEF EndFuture
  <2> QED
    BY <2>1, <2>2, <2>3, <2>4, <2>5, <2>6, <2>7, <2>8, <2>9, <2>10, <2>11,
       <2>12, <2>13 DEF Next, Worker
<1> QED
  BY <1>1, <1>2, PTL DEF Spec

-----------------------------------------------------------------------------
(* Sets of tasks are finite, and one that does not grow does not count     *)
(* more.                                                                   *)
LEMMA TaskSets ==
  ASSUME NEW S, NEW T, S \subseteq Tasks, T \subseteq S
  PROVE  /\ Cardinality(S) \in Nat /\ Cardinality(T) \in Nat
         /\ Cardinality(T) <= Cardinality(S)
<1>1. IsFiniteSet(S) /\ IsFiniteSet(T)
  BY TasksAssumption, FS_Subset
<1> QED
  BY <1>1, FS_Subset, FS_CardinalityType

(* One task more counts one more at most.                                  *)
LEMMA OneMoreTask ==
  ASSUME NEW S, NEW T, NEW t, S \subseteq Tasks, T \subseteq S \cup {t}, t \in Tasks
  PROVE  /\ Cardinality(S) \in Nat /\ Cardinality(T) \in Nat
         /\ Cardinality(T) <= Cardinality(S) + 1
<1>1. IsFiniteSet(S)
  BY TasksAssumption, FS_Subset
<1>2. /\ Cardinality(S) \in Nat
      /\ Cardinality(S \cup {t}) \in Nat
      /\ Cardinality(S \cup {t}) <= Cardinality(S) + 1
  <2>1. IsFiniteSet(S \cup {t})
    BY <1>1, FS_AddElement
  <2>2. Cardinality(S) \in Nat /\ Cardinality(S \cup {t}) \in Nat
    BY <1>1, <2>1, FS_CardinalityType
  <2>3. \/ Cardinality(S \cup {t}) = Cardinality(S)
        \/ Cardinality(S \cup {t}) = Cardinality(S) + 1
    BY <1>1, FS_AddElement
  <2> QED
    BY <2>2, <2>3
<1>3. S \cup {t} \subseteq Tasks
  OBVIOUS
<1>4. Cardinality(T) \in Nat /\ Cardinality(T) <= Cardinality(S \cup {t})
  BY <1>3, TaskSets
<1> QED
  BY <1>2, <1>4

(* The tasks that are accepted and not over.                               *)
Waiting == {t \in Tasks : future[t] \in Unfinished}

(* The accounts and the backlog hold in every reachable state.             *)
LEMMA AccountStep ==
  ASSUME TypeOK, AccountInv, [Next]_vars
  PROVE  AccountInv'
<1> USE TasksAssumption, SizesAssumption DEF AccountInv, counts, pooled
<1>a. /\ Cardinality(Waiting) \in Nat
      /\ Backlog <=> /\ queued <= MaxQueue
                     /\ Cardinality(Waiting) <=
                          queued + (IF lock = "submit" THEN 1 ELSE 0)
      /\ Backlog' <=> /\ queued' <= MaxQueue
                      /\ Cardinality(Waiting') <=
                           queued' + (IF lock' = "submit" THEN 1 ELSE 0)
  BY TaskSets DEF Waiting, Backlog
<1>b. ASSUME Waiting' \subseteq Waiting, queued' = queued, lock' = lock
      PROVE  Backlog'
  <2>1. Cardinality(Waiting') \in Nat
        /\ Cardinality(Waiting') <= Cardinality(Waiting)
    BY <1>b, TaskSets DEF Waiting
  <2> QED
    BY <1>a, <1>b, <2>1 DEF TypeOK
<1>c. ASSUME Waiting' \subseteq Waiting, queued' = queued,
             lock # "submit", lock' # "submit"
      PROVE  Backlog'
  <2>1. Cardinality(Waiting') \in Nat
        /\ Cardinality(Waiting') <= Cardinality(Waiting)
    BY <1>c, TaskSets DEF Waiting
  <2> QED
    BY <1>a, <1>c, <2>1 DEF TypeOK
<1>1. ASSUME Start \/ SubmitUnstarted \/ StopJoined
             \/ (\E wait \in BOOLEAN : Stop(wait))
      PROVE  AccountInv'
  <2>1. /\ UNCHANGED <<submitting, queued, active, completed, future, tracked>>
        /\ lock # "submit" /\ lock' # "submit"
    BY <1>1 DEF Start, SubmitUnstarted, StopJoined, Stop
  <2> QED
    BY <2>1, <1>c DEF OneSubmission, Filed, Waiting
<1>2. CASE Register
  <2>1. OneSubmission' /\ Filed'
    BY <1>2 DEF Register, OneSubmission, Filed, TypeOK
  <2>2. Waiting' = Waiting
    BY <1>2 DEF Register, Waiting
  <2>3. Backlog'
    BY <1>2, <1>a, <2>2 DEF Register, OneSubmission, TypeOK
  <2> QED
    BY <2>1, <2>3
<1>3. ASSUME NEW t \in Tasks, Submit(t) PROVE AccountInv'
  <2>1. OneSubmission' /\ Filed'
    BY <1>3 DEF Submit, OneSubmission, Filed, TypeOK
  <2>2. Waiting' \subseteq Waiting \cup {t}
    BY <1>3 DEF Submit, Waiting, TypeOK
  <2>3. /\ Cardinality(Waiting') \in Nat
        /\ Cardinality(Waiting') <= Cardinality(Waiting) + 1
    BY <2>2, OneMoreTask DEF Waiting
  <2>4. Backlog'
    BY <1>3, <1>a, <2>3 DEF Submit, TypeOK
  <2> QED
    BY <2>1, <2>4
<1>4. ASSUME NEW t \in Tasks, Cancel(t) PROVE AccountInv'
  <2>1. OneSubmission' /\ Filed'
    BY <1>4 DEF Cancel, OneSubmission, Filed, TypeOK
  <2>2. Waiting' \subseteq Waiting
    BY <1>4 DEF Cancel, Waiting, Unfinished, Busy, TypeOK
  <2> QED
    BY <1>4, <1>b, <2>1, <2>2 DEF Cancel
<1>5. ASSUME NEW t \in Tasks, Pick(t) \/ EndTask(t) \/ EndFuture(t) PROVE AccountInv'
  <2>1. OneSubmission' /\ Filed'
    BY <1>5 DEF Pick, EndTask, EndFuture, OneSubmission, Filed, TypeOK
  <2>2. Waiting' \subseteq Waiting
    BY <1>5 DEF Pick, EndTask, EndFuture, Waiting, Unfinished, Busy, TypeOK
  <2> QED
    BY <1>5, <1>b, <2>1, <2>2 DEF Pick, EndTask, EndFuture
<1>6. ASSUME NEW t \in Tasks, LookUp(t) PROVE AccountInv'
  <2>1. OneSubmission' /\ Filed'
    BY <1>6 DEF LookUp, OneSubmission, Filed, TypeOK
  <2>2. Waiting' \subseteq Waiting
    BY <1>6 DEF LookUp, Waiting, Unfinished, Busy, TypeOK
  <2> QED
    BY <1>6, <1>b, <2>1, <2>2 DEF LookUp
<1>7. ASSUME NEW t \in Tasks, Finish(t) PROVE AccountInv'
  <2>1. OneSubmission'
    BY <1>7 DEF Finish, OneSubmission, TypeOK
  <2>2. Filed'
    BY <1>7 DEF Finish, OneSubmission, Filed, TypeOK
  <2>3. Waiting' \subseteq Waiting
    BY <1>7 DEF Finish, Waiting, Unfinished, Busy, TypeOK
  <2> QED
    BY <1>7, <1>b, <2>1, <2>2, <2>3 DEF Finish
<1>8. CASE UNCHANGED vars
  BY <1>8, <1>b DEF vars, OneSubmission, Filed, Waiting
<1> QED
  BY <1>1, <1>2, <1>3, <1>4, <1>5, <1>6, <1>7, <1>8 DEF Next, Worker

(* AccountInv is invariant.                                                *)
LEMMA AccountInvariant == Spec => []AccountInv
<1>1. Init => AccountInv
  <2> SUFFICES ASSUME Init PROVE AccountInv
    OBVIOUS
  <2>1. OneSubmission /\ Filed
    BY TasksAssumption DEF Init, OneSubmission, Filed
  <2>2. {t \in Tasks : future[t] \in Unfinished} = {}
    BY DEF Init, Unfinished, Busy
  <2>3. Backlog
    BY <2>2, FS_EmptySet, SizesAssumption DEF Init, Backlog
  <2> QED
    BY <2>1, <2>3 DEF AccountInv
<1> QED
  BY <1>1, AccountStep, SchedulerTypeCorrect, PTL DEF Spec

(* Whenever the lock is free, what the scheduler reports of a task agrees  *)
(* with what the pool did with it.                                         *)
THEOREM AccountsAgree == Spec => []Accounting
<1>1. TypeOK /\ AccountInv => Accounting
  BY TasksAssumption DEF AccountInv, OneSubmission, Filed, Accounting
<1> QED
  BY <1>1, AccountInvariant, SchedulerTypeCorrect, PTL

(* No more tasks are accepted and not over than the queue may hold.        *)
THEOREM BacklogBounded == Spec => []BoundedBacklog
<1>1. TypeOK /\ AccountInv => BoundedBacklog
  <2> SUFFICES ASSUME TypeOK, AccountInv PROVE BoundedBacklog
    OBVIOUS
  <2>1. Cardinality(Waiting) \in Nat
    BY TaskSets DEF Waiting
  <2> QED
    BY <2>1, SizesAssumption
    DEF AccountInv, OneSubmission, Backlog, BoundedBacklog, Waiting, TypeOK
<1> QED
  BY <1>1, AccountInvariant, SchedulerTypeCorrect, PTL

-----------------------------------------------------------------------------
(* Each action leaves the work to the present pool, and each pool within   *)
(* its workers.                                                            *)
LEMMA PoolStep ==
  ASSUME TypeOK, PoolInv, [Next]_vars
  PROVE  PoolInv'
<1> USE SizesAssumption DEF PoolInv, counts, pooled
<1>a. ASSUME \A g \in Nat : InWorkers(g)' \subseteq InWorkers(g)
      PROVE  PoolsBounded'
  <2> SUFFICES ASSUME NEW g \in Nat
               PROVE  Cardinality(InWorkers(g)') <= MaxWorkers
    BY DEF PoolsBounded
  <2>1. /\ InWorkers(g) \subseteq Tasks
        /\ Cardinality(InWorkers(g)) <= MaxWorkers
    BY DEF InWorkers, PoolsBounded
  <2> QED
    BY <1>a, <2>1, TaskSets
<1>1. CASE Start
  <2>1. OnePool'
    BY <1>1 DEF Start, OnePool, TypeOK
  <2> QED
    BY <1>1, <1>a, <2>1 DEF Start, InWorkers
<1>2. CASE SubmitUnstarted \/ Register
  BY <1>2, <1>a DEF SubmitUnstarted, Register, OnePool, InWorkers
<1>3. CASE StopJoined
  <2>1. OnePool'
    BY <1>3 DEF StopJoined, OnePool
  <2> QED
    BY <1>3, <1>a, <2>1 DEF StopJoined, InWorkers
<1>4. ASSUME NEW wait \in BOOLEAN, Stop(wait) PROVE PoolInv'
  <2>1. OnePool'
    BY <1>4 DEF Stop, OnePool
  <2> QED
    BY <1>4, <1>a, <2>1 DEF Stop, InWorkers
<1>5. ASSUME NEW t \in Tasks, Submit(t) PROVE PoolInv'
  <2>1. OnePool'
    BY <1>5 DEF Submit, OnePool, TypeOK
  <2>2. \A g \in Nat : InWorkers(g)' \subseteq InWorkers(g)
    BY <1>5 DEF Submit, InWorkers, Busy, TypeOK
  <2> QED
    BY <1>a, <2>1, <2>2
<1>6. ASSUME NEW t \in Tasks, Pick(t) PROVE PoolInv'
  <2>1. OnePool'
    BY <1>6 DEF Pick, OnePool, TypeOK, Unfinished, Busy
  <2>2. PoolsBounded'
    <3> SUFFICES ASSUME NEW g \in Nat
                 PROVE  Cardinality(InWorkers(g)') <= MaxWorkers
      BY DEF PoolsBounded
    <3>1. /\ InWorkers(g) \subseteq Tasks
          /\ Cardinality(InWorkers(g)) <= MaxWorkers
      BY DEF InWorkers, PoolsBounded
    <3>2. CASE g = pool[t]
      <4>1. InWorkers(g)' \subseteq InWorkers(g) \cup {t}
        BY <1>6 DEF Pick, InWorkers, TypeOK
      <4>2. /\ Cardinality(InWorkers(g)) \in Nat
            /\ Cardinality(InWorkers(g)') \in Nat
            /\ Cardinality(InWorkers(g)') <= Cardinality(InWorkers(g)) + 1
        BY <3>1, <4>1, OneMoreTask
      <4> QED
        BY <1>6, <3>2, <4>2 DEF Pick
    <3>3. CASE g # pool[t]
      <4>1. InWorkers(g)' \subseteq InWorkers(g)
        BY <1>6, <3>3 DEF Pick, InWorkers, TypeOK
      <4> QED
        BY <3>1, <4>1, TaskSets
    <3> QED
      BY <3>2, <3>3
  <2> QED
    BY <2>1, <2>2
<1>7. ASSUME NEW t \in Tasks, Cancel(t) \/ LookUp(t) \/ EndTask(t) \/ Finish(t) \/ EndFuture(t)
      PROVE  PoolInv'
  <2>1. /\ UNCHANGED <<pool, executor, hurried>>
        /\ \A u \in Tasks : /\ future'[u] \in Unfinished => future[u] \in Unfinished
                            /\ future'[u] \in Busy => future[u] \in Busy
    BY <1>7 DEF Cancel, LookUp, EndTask, Finish, EndFuture, Unfinished, Busy, TypeOK
  <2>2. OnePool'
    BY <2>1 DEF OnePool
  <2>3. \A g \in Nat : InWorkers(g)' \subseteq InWorkers(g)
    BY <2>1 DEF InWorkers
  <2> QED
    BY <1>a, <2>2, <2>3
<1>8. CASE UNCHANGED vars
  BY <1>8, <1>a DEF vars, OnePool, InWorkers
<1> QED
  BY <1>1, <1>2, <1>3, <1>4, <1>5, <1>6, <1>7, <1>8 DEF Next, Worker

(* Unless a pool was left without waiting for it, no more than max_workers *)
(* tasks run at a time, however often the scheduler is restarted.          *)
THEOREM ConcurrencyBounded == Spec => []BoundedConcurrency
<1>1. Init => PoolInv
  <2> SUFFICES ASSUME Init PROVE PoolInv
    OBVIOUS
  <2>1. OnePool
    BY DEF Init, OnePool, Unfinished, Busy
  <2>2. \A g \in Nat : InWorkers(g) = {}
    BY DEF Init, InWorkers, Busy
  <2> QED
    BY <2>1, <2>2, FS_EmptySet, SizesAssumption DEF PoolInv, PoolsBounded
<1>2. TypeOK /\ PoolInv => BoundedConcurrency
  <2> SUFFICES ASSUME TypeOK, PoolInv, ~hurried
               PROVE  Cardinality({t \in Tasks : future[t] \in Busy}) <= MaxWorkers
    BY DEF BoundedConcurrency
  <2>1. {t \in Tasks : future[t] \in Busy} \subseteq InWorkers(executor)
    BY DEF PoolInv, OnePool, InWorkers, Unfinished
  <2>2. /\ Cardinality(InWorkers(executor)) <= MaxWorkers
        /\ InWorkers(executor) \subseteq Tasks
    BY DEF PoolInv, PoolsBounded, TypeOK, InWorkers
  <2> QED
    BY <2>1, <2>2, TaskSets, SizesAssumption
<1> QED
  BY <1>1, <1>2, PoolStep, SchedulerTypeCorrect, PTL DEF Spec
=============================================================================
