------------------------------ MODULE Capacity ------------------------------
(***************************************************************************)
(* ResourceController and BackpressureController (performance): threads    *)
(* ask whether a resource has capacity, are told what to do when it has    *)
(* none, wait for it, take an amount and give it back.  Asking and taking  *)
(* are separate calls, between which other threads take and give back.     *)
(***************************************************************************)
EXTENDS Integers, FiniteSets

CONSTANTS Workers,        \* the threads that share one controller
          Resources,      \* resource types
          LimitOf,        \* PerformanceBudget: the limit of every type
          MostTaken       \* bound on the amount of one acquire

CapacityAssumption == /\ LimitOf \in [Resources -> Nat] /\ Resources # {}
                      /\ MostTaken \in Nat \ {0} /\ IsFiniteSet(Workers)

VARIABLES usage,          \* ResourceBudget: what is in use of every type
          use             \* what each thread does: its stage, its resource, and how much it holds

capacityVars == <<usage, use>>

Idle == [stage |-> "idle", of |-> CHOOSE r \in Resources : TRUE, amount |-> 0]
Stage(w, s) == use' = [use EXCEPT ![w].stage = s]

Init == usage = [r \in Resources |-> 0] /\ use = [w \in Workers |-> Idle]

Exhausted(r) == usage[r] >= LimitOf[r]

\* check_capacity: what a thread without capacity is told is its own choice or the default.
Refusals == {"queue", "throttle", "reject", "cancel"}
CheckCapacity(w) ==
  /\ use[w].stage = "idle"
  /\ \E r \in Resources, refusal \in Refusals :
       use' = [use EXCEPT ![w] = [Idle EXCEPT !.of = r, !.stage = IF ~Exhausted(r) THEN "accepted"
                                                                  ELSE IF refusal = "queue" THEN "waiting" ELSE "idle"]]
  /\ UNCHANGED usage

\* wait_for_capacity asks again and again, until the timeout.
WaitForCapacity(w) ==
  /\ use[w].stage = "waiting"
  /\ \/ ~Exhausted(use[w].of) /\ Stage(w, "accepted")
     \/ Stage(w, "idle")
  /\ UNCHANGED usage

\* acquire asks for itself; the amount may pass the limit.
MayTakeWhenTold(r) == TRUE
MayTake(r) == ~Exhausted(r)
Acquire(w) ==
  /\ use[w].stage = "accepted"
  /\ LET r == use[w].of IN
     IF MayTake(r)
     THEN \E n \in 1..MostTaken : /\ usage' = [usage EXCEPT ![r] = @ + n]
                                  /\ use' = [use EXCEPT ![w] = [stage |-> "holding", of |-> r, amount |-> n]]
     ELSE Stage(w, "idle") /\ UNCHANGED usage

Release(w) ==
  /\ use[w].stage = "holding"
  /\ usage' = [usage EXCEPT ![use[w].of] = IF @ >= use[w].amount THEN @ - use[w].amount ELSE 0]
  /\ use' = [use EXCEPT ![w] = Idle]

Next == \E w \in Workers : CheckCapacity(w) \/ WaitForCapacity(w) \/ Acquire(w) \/ Release(w)

----------------------------------------------------------------------------
Holders(r) == {w \in Workers : use[w].stage = "holding" /\ use[w].of = r}
\* The units of a resource that threads hold: <<w, k>> is the k-th of thread w.
Held(r) == {u \in Workers \X (1..MostTaken) : u[1] \in Holders(r) /\ u[2] <= use[u[1]].amount}

TypeOK ==
  /\ usage \in [Resources -> Nat]
  /\ use \in [Workers -> [stage : {"idle", "waiting", "accepted", "holding"}, of : Resources, amount : 0..MostTaken]]

\* However calls to check, wait, acquire and release interleave, what is in use is what the
\* threads hold; no more of them hold a resource than it has units, and its limit is passed by
\* less than one request.
CapacityIsKept ==
  \A r \in Resources :
    /\ usage[r] = Cardinality(Held(r))
    /\ Cardinality(Holders(r)) <= LimitOf[r]
    /\ usage[r] <= LimitOf[r] + MostTaken - 1 \/ usage[r] = 0
=============================================================================
