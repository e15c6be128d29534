--------------------------- MODULE ReconcilerTable ---------------------------
(***************************************************************************)
(* Every UNKNOWN operation Reconciler.reconcile can meet: its type, what   *)
(* truly became of it, and the evidence collected, by the default          *)
(* collectors or by one the embedding program registered.  A registered    *)
(* collector is the program's own; the properties about the truth hold for *)
(* the default ones, the others for any evidence at all.                   *)
(***************************************************************************)
EXTENDS Reconciler

VARIABLES type, target, happened, evidence, verdict
vars == <<type, target, happened, evidence, verdict>>

Pending == Verdict("skip", "unknown")

(* The keys an analyser of this type reads, and collection_error.          *)
KeysOf(t) ==
  {"collection_error"} \cup
  CASE t = "filesystem.write"  -> {"file_exists", "content_matches", "write_completed"}
    [] t = "filesystem.delete" -> {"file_exists", "delete_completed"}
    [] t = "shell.execute"     -> {"side_effects_detected"}
    [] t = "git.operation"     -> {"operation_completed", "expected_state_matches"}
    [] t = "mcp.tool"          -> {"call_completed", "response_received"}
    [] t = "model.call"        -> {"response_received"}
    [] t \in PhaseTypes        -> {"phase_completed"}
    [] OTHER                   -> {}

TypeOK ==
  /\ type \in OperationTypes
  /\ target \in TargetStates
  /\ happened \in BOOLEAN
  /\ evidence \in Evidence
  /\ verdict \in [decision : Decisions,
                  status : {"unknown", "reconciled_completed",
                            "reconciled_not_executed", "requires_decision"}]

(* A write that happened left its content, a delete left nothing; when it  *)
(* did not happen the target is as some other program left it.             *)
Init ==
  /\ type \in OperationTypes
  /\ happened \in BOOLEAN
  /\ target \in IF happened /\ type = "filesystem.write"  THEN {"expected"}
                ELSE IF happened /\ type = "filesystem.delete" THEN {"missing"}
                ELSE TargetStates
  /\ evidence = NoEvidence
  /\ verdict = Pending

(* reconcile(op): the default collectors.                                  *)
ReconcileByDefault ==
  /\ verdict = Pending
  /\ evidence' = CollectEvidence(type, target)
  /\ verdict' = AnalyzeEvidence(type, evidence')
  /\ UNCHANGED <<type, target, happened>>

(* reconcile(op, evidence), or a registered collector: any evidence.       *)
ReconcileWith(e) ==
  /\ verdict = Pending
  /\ evidence' = [k \in EvidenceKeys |->
                    IF k \in KeysOf(type) THEN e[k] ELSE "absent"]
  /\ verdict' = AnalyzeEvidence(type, evidence')
  /\ UNCHANGED <<type, target, happened>>

Next ==
  \/ ReconcileByDefault
  \/ \E e \in [KeysOf(type) -> {"yes", "no", "absent"}] : ReconcileWith(e)

Spec == Init /\ [][Next]_vars

Default == verdict # Pending /\ evidence = CollectEvidence(type, target)

(* With the default collectors a write or a delete is declared completed   *)
(* only if its target is as it would leave it, and declared not executed   *)
(* only if it truly did not happen.                                        *)
DefaultVerdictIsTrue ==
  Default /\ type \in {"filesystem.write", "filesystem.delete"} =>
    /\ verdict = MarkCompleted =>
         target = IF type = "filesystem.write" THEN "expected" ELSE "missing"
    /\ verdict = Retry => ~happened

(* Whatever the evidence, an operation the idempotency table forbids to    *)
(* repeat is retried only when evidence says outright that it had no       *)
(* effect; silence is never enough.                                        *)
RetryRespectsIdempotency ==
  verdict = Retry /\ DetermineRetryPolicy(type) \in {"unsafe_retry", "user_decision"}
    => evidence["side_effects_detected"] = "no"
=============================================================================
