------------------------------- MODULE Replay -------------------------------
(***************************************************************************)
(* What argus/replay makes of the recorded events of one run: the loaded   *)
(* log, the state folded from it, the consistency issues, the execution    *)
(* tree and the verdicts of the forensic report.  Events are records of a  *)
(* type, a capability, a parent (the sequence number of another event, or  *)
(* NoParent) and a run; the loader numbers them in the order in which the  *)
(* correlation tracker kept them.                                          *)
(***************************************************************************)
EXTENDS Naturals, Sequences, FiniteSets, Functions

CONSTANTS Kinds,      \* the events that may be recorded
          MaxEvents,  \* bound on the length of a log
          ThisRun, NoCap

ReplayAssumption ==
  MaxEvents \in Nat /\ \A k \in Kinds : DOMAIN k = {"type", "cap", "parent", "run"} /\ k.parent \in Nat

VARIABLE log

NoParent == 0
ends == {"capability.completed", "capability.failed"}

Types(l) == {l[i].type : i \in DOMAIN l}

(***************************************************************************)
(* The loader (loader.py): a log with a start and an end is complete, one  *)
(* without a start corrupted.                                              *)
(***************************************************************************)
DetermineStatus(l) ==
  LET hasEnd == Types(l) \cap {"agent.completed", "agent.failed"} # {} IN
  IF l = <<>> \/ ("agent.started" \in Types(l) /\ ~hasEnd) THEN "partial"
  ELSE IF "agent.started" \in Types(l) THEN "complete" ELSE "corrupted"

(***************************************************************************)
(* The reducer (reducer.py) folds the events over the state of the last    *)
(* checkpoint; each handler overwrites or extends some fields.             *)
(***************************************************************************)
InitialState == [agent |-> "none", current |-> NoCap, capability |-> "none", execution |-> "none",
                 verification |-> "none", recovery |-> "none", attempts |-> 0,
                 used |-> <<>>, failures |-> <<>>, decisions |-> <<>>]

AgentStatus ==
  [type \in {"agent.started", "agent.completed", "agent.failed", "agent.paused", "agent.resumed"} |->
     CASE type = "agent.started" -> "started" [] type = "agent.completed" -> "completed" [] type = "agent.failed" -> "failed"
       [] type = "agent.paused" -> "paused" [] type = "agent.resumed" -> "resumed"]

Noted(caps, cap) == IF cap = NoCap THEN caps ELSE Append(caps, cap)

HandleCapability(s, e) ==
  CASE e.type = "capability.started"   -> [s EXCEPT !.current = e.cap, !.capability = "started"]
    [] e.type = "capability.completed" -> [s EXCEPT !.capability = "completed", !.used = Noted(@, e.cap)]
    [] OTHER                           -> [s EXCEPT !.capability = "failed", !.failures = Noted(@, e.cap)]

HandlePhase(s, e) ==
  CASE e.type = "execution.started"      -> [s EXCEPT !.execution = "started"]
    [] e.type = "execution.completed"    -> [s EXCEPT !.execution = "completed"]
    [] e.type = "verification.completed" -> [s EXCEPT !.verification = "completed"]
    [] e.type = "verification.failed"    -> [s EXCEPT !.verification = "failed"]
    [] e.type = "recovery.started"       -> [s EXCEPT !.recovery = "started", !.attempts = @ + 1]
    [] e.type = "recovery.exhausted"     -> [s EXCEPT !.recovery = "exhausted"]
    [] OTHER                             -> s

ApplyEvent(s, e) ==
  CASE e.type \in DOMAIN AgentStatus -> [s EXCEPT !.agent = AgentStatus[e.type]]
    [] e.type \in ends \cup {"capability.started"} -> HandleCapability(s, e)
    [] e.type \in {"security.denied", "security.approved"} -> [s EXCEPT !.decisions = Append(@, <<e.type, e.cap>>)]
    [] OTHER -> HandlePhase(s, e)

\* The states after 0, 1, ... events.
States(l) ==
  LET state[i \in 0..Len(l)] == IF i = 0 THEN InitialState ELSE ApplyEvent(state[i - 1], l[i])
  IN state
Reduce(l) == States(l)[Len(l)]

(***************************************************************************)
(* The consistency checker (consistency.py).                               *)
(***************************************************************************)
BadParents(l) == {i \in DOMAIN l : l[i].parent # NoParent /\ l[i].parent \notin DOMAIN l}

EndsWithoutStart(l) == {l[i].cap : i \in {j \in DOMAIN l : l[j].type \in ends}}
                       \ {l[i].cap : i \in {j \in DOMAIN l : l[j].type = "capability.started"}}

NoReviewOnComplete(l) == "agent.completed" \in Types(l)
                         /\ Types(l) \cap {"review.completed", "verification.completed"} = {}

\* What the checker believes of a capability before event i: the last start or end it saw.
CapabilityState(l, i) ==
  LET before == {j \in 1..(i - 1) : l[j].cap = l[i].cap /\ l[j].type \in ends \cup {"capability.started"}}
      last == CHOOSE j \in before : \A k \in before : k <= j
  IN IF before = {} THEN "none" ELSE IF l[last].type \in ends THEN "completed" ELSE "started"

StartedTwice(before, type) == \/ type = "capability.started" /\ before = "started"
                              \/ type \in ends /\ before # "started"
Impossible(before, type) == \/ type = "capability.started" /\ before \in {"started", "completed"}
                            \/ type \in ends /\ before # "started"

ImpossibleTransitions(l) == {i \in DOMAIN l : l[i].cap # NoCap /\ Impossible(CapabilityState(l, i), l[i].type)}

Denials(l, cap) == {i \in DOMAIN l : l[i].type = "security.denied" /\ l[i].cap = cap}
FirstDenial(l, cap) == CHOOSE i \in Denials(l, cap) : \A j \in Denials(l, cap) : i <= j
HasApprovalBefore(l, cap) == \E j \in DOMAIN l : l[j].type = "security.approved" /\ l[j].cap = cap /\ j < FirstDenial(l, cap)
\* An approval anywhere after the first denial excuses an execution.
HasApproval(l, cap) == \E j \in DOMAIN l : /\ l[j].type \in {"security.approved", "security.allowed"}
                                           /\ l[j].cap = cap /\ j > FirstDenial(l, cap)
ExecutedAfterDenial(l) == {i \in DOMAIN l : /\ l[i].type = "execution.completed"
                                            /\ \E d \in Denials(l, l[i].cap) : d < i
                                            /\ ~HasApproval(l, l[i].cap)}

ForeignRuns(l) == {l[i].run : i \in DOMAIN l} \ {ThisRun}

Errors(l) == ImpossibleTransitions(l) # {} \/ ExecutedAfterDenial(l) # {} \/ ForeignRuns(l) # {}
Warnings(l) == BadParents(l) # {} \/ EndsWithoutStart(l) # {} \/ NoReviewOnComplete(l)

ConsistencyStatus(l) == IF Errors(l) THEN "invalid" ELSE IF Warnings(l) THEN "warnings" ELSE "valid"

(***************************************************************************)
(* The execution tree (tree.py): an event is put under its parent when the *)
(* parent was placed already, otherwise under the innermost open start.    *)
(***************************************************************************)
IsStart(e) == e.type \in {"agent.started", "capability.started", "execution.started", "recovery.started"}
IsEnd(e) == e.type \in ends \cup {"agent.completed", "agent.failed", "execution.completed", "recovery.exhausted",
                                  "verification.completed", "verification.failed"}

Top(stack) == stack[Len(stack)]
Popped(stack) == IF Len(stack) > 1 THEN SubSeq(stack, 1, Len(stack) - 1) ELSE stack
\* The events 1..i that are open when event i + 1 is placed; 0 is the root.
ActiveStack(l) ==
  LET stack[i \in 0..Len(l)] ==
        IF i = 0 THEN <<0>>
        ELSE IF IsStart(l[i]) THEN Append(stack[i - 1], i)
        ELSE IF IsEnd(l[i]) THEN Popped(stack[i - 1]) ELSE stack[i - 1]
  IN stack

AnyParent(l, i) == IF l[i].parent # NoParent THEN l[i].parent ELSE Top(ActiveStack(l)[i - 1])
FindParent(l, i) == IF l[i].parent # NoParent /\ l[i].parent < i THEN l[i].parent
                    ELSE Top(ActiveStack(l)[i - 1])

Init == log = <<>>

\* EventEmitter.emit: the event is tracked, so the loader will find it.
Record == Len(log) < MaxEvents /\ \E k \in Kinds : k.parent # Len(log) + 1 /\ log' = Append(log, k)

Next == Record
Spec == Init /\ [][Next]_log

----------------------------------------------------------------------------
TypeOK == Range(log) \subseteq Kinds /\ Len(log) <= MaxEvents

\* A log the report calls valid is one a reader may trust: every capability in it
\* was started before it ended and used once at most, as the folded state says too,
\* and a run that completed was verified or reviewed.
ValidLogIsSound ==
  ConsistencyStatus(log) = "valid" =>
    LET s == Reduce(log) IN
    /\ \A c \in Range(s.used) \cup Range(s.failures) :
         \E i \in DOMAIN log : log[i].type = "capability.started" /\ log[i].cap = c
    /\ IsInjective(s.used \o s.failures)
    /\ s.agent = "completed" => {"verification.completed", "review.completed"} \cap Types(log) # {}

\* An execution reported as having followed a denial did so: the last decision
\* on that capability before it was a denial.
DenialReportIsTrue ==
  \A i \in ExecutedAfterDenial(log) :
    LET decided == {j \in 1..(i - 1) : log[j].cap = log[i].cap /\ log[j].type \in {"security.denied", "security.approved"}}
    IN decided # {} /\ \A j \in decided : (\A k \in decided : k <= j) => log[j].type = "security.denied"

\* Every event hangs below an earlier event or the root, so the tree built from a
\* damaged log, whose parents may be missing or recorded later, has no cycle.
EveryEventIsPlaced == \A i \in DOMAIN log : FindParent(log, i) \in 0..(i - 1)

=============================================================================
