---------------------------- MODULE AdaptiveLoop ----------------------------
(***************************************************************************)
(* AdaptiveAgentLoop.execute (argus/capabilities/adaptive_loop.py): route  *)
(* the best capability for a query and, if it fails, the alternatives in   *)
(* turn.  Any step may raise; the exception becomes the failed result.     *)
(***************************************************************************)
EXTENDS Naturals, Sequences

CONSTANTS Capabilities, MaxRecovers, Alternatives,  \* 3 and 3 in the code
          Verification,                             \* enable_verification
          MaxQueries                                \* bound on the queries

AdaptiveAssumption == /\ {MaxRecovers, Alternatives, MaxQueries} \subseteq Nat /\ Verification \in BOOLEAN

VARIABLES pc,       \* "idle", "act", "verify", "recover"
          todo,     \* the capability chosen and its alternatives, best first
          tries,    \* alternatives tried
          did,      \* the calls made for this query: capability and success
          trace,    \* success reported, and by which capability
          queries

vars == <<pc, todo, tries, did, trace, queries>>

NoTrace == [success |-> FALSE, by |-> "nobody"]
Init == pc = "idle" /\ todo = <<>> /\ tries = 0 /\ did = <<>> /\ trace = NoTrace /\ queries = 0

Suggested == {s \in UNION {[1..n -> Capabilities] : n \in 0..Alternatives + 1} : \A i, j \in DOMAIN s : s[i] = s[j] => i = j}

Answer(t) == trace' = t /\ pc' = "idle"

Decide ==
  /\ pc = "idle" /\ queries < MaxQueries /\ queries' = queries + 1
  /\ did' = <<>> /\ tries' = 0 /\ trace' = NoTrace /\ pc' = "act"
  /\ \E s \in Suggested : todo' = s

Act ==
  /\ pc = "act" /\ pc' = "verify"
  /\ \/ todo = <<>> /\ UNCHANGED <<todo, did>>
     \/ /\ todo # <<>> /\ todo' = Tail(todo)
        /\ \E ok \in BOOLEAN : did' = Append(did, [capability |-> Head(todo), success |-> ok])
  /\ UNCHANGED <<tries, trace, queries>>

Succeeded == did # <<>> /\ did[Len(did)].success
Success == [success |-> TRUE, by |-> did[Len(did)].capability]

\* Without verification the result of the call is the answer, and nothing is tried after a failure.
VerifyAnswers ==
  /\ pc = "verify" /\ UNCHANGED <<todo, tries, did, queries>>
  /\ IF Succeeded THEN Answer(Success)
     ELSE IF ~Verification THEN Answer(NoTrace)
     ELSE pc' = "recover" /\ UNCHANGED trace

RecoverHeadOnly ==
  /\ pc = "recover"
  /\ IF todo = <<>> \/ tries = MaxRecovers THEN Answer(NoTrace) /\ UNCHANGED <<todo, tries, did>>
     ELSE \E ok \in BOOLEAN :
            /\ tries' = tries + 1 /\ did' = Append(did, [capability |-> Head(todo), success |-> ok])
            /\ todo' = todo
            /\ IF ok THEN Answer([success |-> TRUE, by |-> Head(todo)]) ELSE UNCHANGED <<pc, trace>>
  /\ UNCHANGED queries
Recover ==
  /\ pc = "recover"
  /\ IF todo = <<>> \/ tries = MaxRecovers THEN Answer(NoTrace) /\ UNCHANGED <<todo, tries, did>>
     ELSE \E ok \in BOOLEAN :
            /\ tries' = tries + 1 /\ did' = Append(did, [capability |-> Head(todo), success |-> ok])
            /\ todo' = Tail(todo)
            /\ IF ok THEN Answer([success |-> TRUE, by |-> Head(todo)]) ELSE UNCHANGED <<pc, trace>>
  /\ UNCHANGED queries

\* A capability that raises instead of answering; what was done before stays done.
Raise == /\ pc \in {"act", "recover"} /\ todo # <<>> /\ (pc = "recover" => tries < MaxRecovers)
         /\ todo' = Tail(todo) /\ Answer(NoTrace) /\ UNCHANGED <<tries, did, queries>>

Next == Decide \/ Act \/ VerifyAnswers \/ Recover \/ Raise
Spec == Init /\ [][Next]_vars

----------------------------------------------------------------------------
TypeOK == pc \in {"idle", "act", "verify", "recover"} /\ tries \in 0..MaxRecovers /\ trace.success \in BOOLEAN

\* The report agrees with what was done: a call that succeeded is reported, as the last
\* one made, and no capability was called twice for the query.
ReportMatchesEffects ==
  /\ \A i, j \in DOMAIN did : did[i].capability = did[j].capability => i = j
  /\ pc = "idle" => (trace.success <=> \E i \in DOMAIN did : did[i].success)
=============================================================================
