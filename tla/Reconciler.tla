----------------------------- MODULE Reconciler -----------------------------
(***************************************************************************)
(* The decision procedure for an operation whose outcome a crash left      *)
(* UNKNOWN (argus/durable/reconciler.py) and the idempotency table that    *)
(* names what may be repeated (argus/durable/idempotency.py).  Pure        *)
(* operators: the state machines of this project that recover a run use    *)
(* them, and ReconcilerTable enumerates their inputs.                      *)
(*                                                                         *)
(* Evidence is a function from the keys the analysers read to "yes", "no"  *)
(* or "absent"; dict.get(key, default) is Got(e, key, default).            *)
(***************************************************************************)
EXTENDS FiniteSets

OperationTypes ==
  {"filesystem.read", "filesystem.write", "filesystem.delete",
   "shell.execute", "git.operation", "mcp.tool", "model.call",
   "verification", "recovery", "review", "capability", "state.commit",
   "checkpoint"}

PhaseTypes == {"verification", "recovery", "review"}

Decisions == {"retry", "skip", "mark_completed", "mark_failed", "require_user"}

EvidenceKeys ==
  {"collection_error", "file_exists", "content_matches", "write_completed",
   "delete_completed", "side_effects_detected", "operation_completed",
   "expected_state_matches", "call_completed", "response_received",
   "phase_completed"}

Evidence == [EvidenceKeys -> {"yes", "no", "absent"}]
NoEvidence == [k \in EvidenceKeys |-> "absent"]
Got(e, key, default) == IF e[key] = "absent" THEN default ELSE e[key]

Verdict(d, s) == [decision |-> d, status |-> s]
MarkCompleted == Verdict("mark_completed", "reconciled_completed")
\* Mutant of Retry: the status is not one of OperationStatus.
RetryUncoded  == Verdict("retry", "not_executed")
Retry         == Verdict("retry", "reconciled_not_executed")
RequireUser   == Verdict("require_user", "requires_decision")

-----------------------------------------------------------------------------
(* One analyser per operation type.                                        *)

\* Mutant of AnalyzeFilesystemWrite: the content is not compared.
AnalyzeWriteByExistence(e) ==
  IF Got(e, "file_exists", "no") = "yes" THEN MarkCompleted ELSE Retry

AnalyzeFilesystemWrite(e) ==
  LET exists  == Got(e, "file_exists", "no") = "yes"
      matches == Got(e, "content_matches", "no") = "yes"
      written == Got(e, "write_completed", "no") = "yes"
  IN  CASE written /\ exists /\ matches -> MarkCompleted
        [] ~exists                      -> Retry
        [] OTHER                        -> RequireUser

AnalyzeFilesystemDelete(e) ==
  IF \/ Got(e, "delete_completed", "no") = "yes"
     \/ Got(e, "file_exists", "yes") = "no"
  THEN MarkCompleted ELSE Retry

\* Mutant of AnalyzeShellExecute: a missing answer counts as no effect.
AnalyzeShellSilence(e) ==
  IF Got(e, "side_effects_detected", "no") = "no" THEN Retry ELSE RequireUser

AnalyzeShellExecute(e) ==
  IF e["side_effects_detected"] = "no" THEN Retry ELSE RequireUser

AnalyzeGitOperation(e) ==
  CASE /\ Got(e, "operation_completed", "no") = "yes"
       /\ e["expected_state_matches"] = "yes" -> MarkCompleted
    [] e["expected_state_matches"] = "no"     -> Retry
    [] OTHER                                  -> RequireUser

AnalyzeMcpTool(e) ==
  IF /\ Got(e, "call_completed", "no") = "yes"
     /\ Got(e, "response_received", "no") = "yes"
  THEN MarkCompleted ELSE RequireUser

AnalyzeModelCall(e) ==
  IF Got(e, "response_received", "no") = "yes" THEN MarkCompleted ELSE Retry

AnalyzePhaseOperation(e) ==
  IF Got(e, "phase_completed", "no") = "yes" THEN MarkCompleted ELSE Retry

AnalyzeByType(type, e) ==
  CASE type = "filesystem.write"  -> AnalyzeFilesystemWrite(e)
    [] type = "filesystem.read"   -> Retry
    [] type = "filesystem.delete" -> AnalyzeFilesystemDelete(e)
    [] type = "shell.execute"     -> AnalyzeShellExecute(e)
    [] type = "git.operation"     -> AnalyzeGitOperation(e)
    [] type = "mcp.tool"          -> AnalyzeMcpTool(e)
    [] type = "model.call"        -> AnalyzeModelCall(e)
    [] type \in PhaseTypes        -> AnalyzePhaseOperation(e)
    [] OTHER                      -> RequireUser

AnalyzeEvidence(type, e) ==
  IF e["collection_error"] = "yes" THEN RequireUser ELSE AnalyzeByType(type, e)

-----------------------------------------------------------------------------
(* The default collectors.  A target is a path: missing, holding exactly   *)
(* the content the operation was to write, holding something else, not     *)
(* readable (open raises IOError, swallowed), or not decodable (read()     *)
(* raises UnicodeDecodeError, which is no IOError: the collector fails).   *)

TargetStates == {"missing", "expected", "other", "unreadable", "undecodable"}

YesNo(b) == IF b THEN "yes" ELSE "no"

CollectEvidence(type, target) ==
  LET there == target # "missing" IN
  CASE type = "filesystem.write" /\ target = "undecodable" ->
         [NoEvidence EXCEPT !["collection_error"] = "yes"]
    [] type = "filesystem.write" /\ target # "undecodable" ->
         [NoEvidence EXCEPT
            !["file_exists"]     = YesNo(there),
            !["content_matches"] = YesNo(target = "expected"),
            !["write_completed"] = YesNo(there /\ target # "unreadable")]
    [] type = "filesystem.read" ->
         [NoEvidence EXCEPT !["file_exists"] = YesNo(there)]
    [] type = "filesystem.delete" ->
         [NoEvidence EXCEPT !["file_exists"]      = YesNo(there),
                            !["delete_completed"] = YesNo(~there)]
    [] OTHER -> NoEvidence

(* What Reconciler().reconcile(op) answers for an UNKNOWN operation with   *)
(* no collector registered beyond the default ones.                        *)
Reconcile(type, target) == AnalyzeEvidence(type, CollectEvidence(type, target))

-----------------------------------------------------------------------------
(* IdempotencyClassifier.                                                  *)

Classify(type) ==
  CASE type \in {"filesystem.read", "model.call", "verification", "review",
                 "checkpoint"} -> "idempotent"
    [] type \in {"filesystem.write", "filesystem.delete", "git.operation",
                 "recovery", "state.commit"} -> "conditionally_idempotent"
    [] type = "shell.execute" -> "non_idempotent"
    [] OTHER -> "unknown"

DetermineRetryPolicy(type) ==
  CASE Classify(type) = "idempotent"               -> "safe_retry"
    [] Classify(type) = "conditionally_idempotent" -> "reconciliation_required"
    [] Classify(type) = "non_idempotent"           -> "unsafe_retry"
    [] OTHER                                       -> "user_decision"
=============================================================================
