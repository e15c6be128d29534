------------------------------ MODULE Recovery ------------------------------
(***************************************************************************)
(* RecoveryEngine.recover (argus/recovery): classify a failure, then for   *)
(* every strategy still open plan one action, pay for it from the budget   *)
(* and run it, in cycles, until one succeeds.  The engine lives longer     *)
(* than one recovery and so does its budget, whose clock may run out       *)
(* between any two steps.                                                  *)
(***************************************************************************)
EXTENDS Naturals, Sequences, FiniteSets

CONSTANTS Limit,           \* strategy -> its limit in the budget
          MaxAttempts,     \* max_attempts of the budget
          PlannerAttempts, PlannerReplans,  \* 10 and 3: the limits the planner assumes
          MaxCycles,       \* max_recovery_cycles
          MaxRecoveries    \* bound on the failures given to one engine

Paid == {"retry", "replan", "backend_switch", "repair"}
Classes == {"transient", "backend", "execution", "code", "logical", "environment", "user_required", "unknown"}

RecoveryAssumption ==
  /\ Limit \in [Paid -> Nat]
  /\ {MaxAttempts, PlannerAttempts, PlannerReplans, MaxCycles, MaxRecoveries} \subseteq Nat

VARIABLES pc,       \* "idle", "cycle" or "option"
          late,     \* the time budget is used up
          attempts, \* attempts of the budget
          spent,    \* strategy -> how often it was paid for
          state,    \* the recovery in progress: class, cycle, options and those left, attempts and replans recorded
          result,   \* status and the success of its last action
          recoveries

vars == <<pc, late, attempts, spent, state, result, recoveries>>

Init == /\ pc = "idle" /\ late = FALSE /\ attempts = 0 /\ spent = [s \in Paid |-> 0] /\ recoveries = 0
        /\ state = [class |-> "unknown", cycle |-> 0, plans |-> 0, left |-> 0, tried |-> 0, replans |-> 0]
        /\ result = [status |-> "none", worked |-> FALSE]

Exhausted == attempts >= MaxAttempts \/ late
Can(s) == spent[s] < Limit[s] /\ ~Exhausted
Affordable == {s \in Paid : Can(s)}

(***************************************************************************)
(* strategy.py: what may be done about a failure, best first               *)
(***************************************************************************)
Preference(class) ==
  CASE class = "transient"     -> <<"retry", "backend_switch">>
    [] class = "backend"       -> <<"backend_switch", "retry", "fallback">>
    [] class = "execution"     -> <<"repair", "retry", "replan">>
    [] class = "code"          -> <<"repair", "replan", "retry">>
    [] class = "logical"       -> <<"replan", "repair">>
    [] class = "environment"   -> <<"repair", "escalate">>
    [] class = "user_required" -> <<"escalate">>
    [] OTHER                   -> <<"retry", "replan", "escalate">>
\* The ranks of those still open.
Strategies(class, open) == {i \in DOMAIN Preference(class) : Preference(class)[i] \in Paid => Preference(class)[i] \in open}

\* classifier.py: the class most of whose patterns are found in the text, the first of equals.
Order == <<"transient", "backend", "execution", "code", "logical", "environment", "user_required">>
ClassOf(score) ==
  IF \A i \in DOMAIN Order : score[i] = 0 THEN "unknown"
  ELSE Order[CHOOSE i \in DOMAIN Order : \A j \in DOMAIN Order : score[i] > score[j] \/ (score[i] = score[j] /\ i <= j)]

\* The planner asks a budget of its own: of the real one it knows neither what was
\* spent nor the time, only how many attempts and replans this recovery recorded.
PlannerOpen == IF state.tried >= PlannerAttempts THEN {}
               ELSE Paid \ (IF state.replans >= PlannerReplans THEN {"replan"} ELSE {})
SelectStrategy ==
  LET open == Strategies(state.class, PlannerOpen) IN
  IF open = {} THEN "retry" ELSE Preference(state.class)[CHOOSE i \in open : \A j \in open : i <= j]

(***************************************************************************)
(* engine.py                                                               *)
(***************************************************************************)
Classify ==
  /\ pc = "idle" /\ recoveries < MaxRecoveries /\ recoveries' = recoveries + 1
  /\ \E score \in [DOMAIN Order -> 0..1] :
       LET class == ClassOf(score)
           n == Cardinality(Strategies(class, Affordable)) IN
       /\ state' = [class |-> class, cycle |-> 0, plans |-> n, left |-> n, tried |-> 0, replans |-> 0]
       /\ IF Exhausted THEN pc' = "idle" /\ result' = [status |-> "exhausted", worked |-> FALSE]
          ELSE IF n = 0 THEN pc' = "idle" /\ result' = [status |-> "failed", worked |-> FALSE]
          ELSE pc' = "option" /\ result' = [status |-> "none", worked |-> FALSE]
  /\ UNCHANGED <<late, attempts, spent>>

Pay(s) == attempts' = attempts + 1 /\ spent' = [spent EXCEPT ![s] = @ + 1]
Free == UNCHANGED <<attempts, spent>>

Recorded(s, ran) == [state EXCEPT !.left = @ - 1, !.tried = IF ran THEN @ + 1 ELSE @,
                                  !.replans = IF s = "replan" THEN @ + 1 ELSE @]

AffordsAttempt(s) == attempts < MaxAttempts /\ ~late
MayPay(s) == Can(s)
\* An action the budget does not cover fails without being run or recorded as an attempt.
RefuseAction ==
  /\ pc = "option" /\ state.left > 0 /\ ~Exhausted
  /\ SelectStrategy \in Paid /\ ~MayPay(SelectStrategy)
  /\ state' = Recorded(SelectStrategy, FALSE)
  /\ UNCHANGED <<pc, late, attempts, spent, result, recoveries>>

RunAction ==
  /\ pc = "option" /\ state.left > 0 /\ ~Exhausted
  /\ SelectStrategy \in Paid => MayPay(SelectStrategy)
  /\ IF SelectStrategy \in Paid THEN Pay(SelectStrategy) ELSE Free
  /\ state' = Recorded(SelectStrategy, TRUE)
  /\ \E worked \in BOOLEAN :
       /\ result' = [status |-> IF worked THEN "success" ELSE "none", worked |-> worked]
       /\ pc' = IF worked THEN "idle" ELSE "option"
  /\ UNCHANGED <<late, recoveries>>

\* The end of a cycle costs a replan, after which the strategies are asked for again;
\* without one the next cycle goes through the old ones.
CycleEnds ==
  /\ pc = "option" /\ (state.left = 0 \/ Exhausted)
  /\ UNCHANGED <<late, result, recoveries>> /\ pc' = "cycle"
  /\ IF Can("replan") THEN Pay("replan") ELSE Free
  /\ state' = IF Can("replan") THEN [state EXCEPT !.plans = Cardinality(Strategies(state.class, Affordable'))] ELSE state

Unbounded(c) == c
NextCycle(c) == c + 1
BeginCycle ==
  /\ pc = "cycle" /\ NextCycle(state.cycle) < MaxCycles /\ ~Exhausted
  /\ state' = [state EXCEPT !.cycle = NextCycle(@), !.left = state.plans]
  /\ pc' = "option" /\ UNCHANGED <<late, attempts, spent, result, recoveries>>

GiveUp ==
  /\ pc = "cycle" /\ (NextCycle(state.cycle) >= MaxCycles \/ Exhausted)
  /\ result' = [result EXCEPT !.status = IF Exhausted THEN "exhausted" ELSE "escalated"]
  /\ pc' = "idle" /\ UNCHANGED <<late, attempts, spent, state, recoveries>>

TimeRunsOut == ~late /\ late' = TRUE /\ UNCHANGED <<pc, attempts, spent, state, result, recoveries>>

EngineStep == Classify \/ RefuseAction \/ RunAction \/ CycleEnds \/ BeginCycle \/ GiveUp
Next == EngineStep \/ TimeRunsOut

\* recover is one call in one thread; the actions it runs return.
Spec == Init /\ [][Next]_vars /\ WF_vars(EngineStep)

----------------------------------------------------------------------------
TypeOK == /\ pc \in {"idle", "cycle", "option"} /\ attempts \in Nat /\ spent \in [Paid -> Nat] /\ late \in BOOLEAN
          /\ state \in [class : Classes, cycle : Nat, plans : Nat, left : Nat, tried : Nat, replans : Nat]
          /\ result \in [status : {"none", "success", "failed", "exhausted", "escalated"}, worked : BOOLEAN]
          /\ recoveries \in 0..MaxRecoveries

\* The budget of an engine is never overdrawn, over all the failures it is given: no
\* strategy beyond its limit, no attempt beyond all, each attempt for one strategy.
BudgetNeverOverdrawn ==
  /\ attempts <= MaxAttempts /\ \A s \in Paid : spent[s] <= Limit[s]
  /\ attempts = spent["retry"] + spent["replan"] + spent["backend_switch"] + spent["repair"]

\* A recovery is answered, although the actions that are refused or free use no budget.
Recovering == pc = "option"
Recovered == pc = "idle"
RecoveryEnds == Recovering ~> Recovered
=============================================================================
