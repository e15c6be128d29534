------------------------------ MODULE Reality ------------------------------
(***************************************************************************)
(* The reality suite (argus/reality): checks of the machine, the providers,*)
(* an MCP server, the secrets and thirty invariants of the package give    *)
(* totals, a release decision and recommendations.  A check makes an       *)
(* observation, which may be wrong or raise; what differs between the      *)
(* checks is whether they judge it.                                        *)
(***************************************************************************)
EXTENDS Naturals, FiniteSets, Sequences, TLC

\* subprocesses.py
LaunchChecks == {"process_launch", "stdout_capture", "stderr_capture", "exit_code"}
StopChecks   == {"timeout", "cancellation", "process_termination", "orphan_prevention"}
OutputChecks == {"large_output", "malformed_output", "unicode_output", "non_zero_exit"}
ChildChecks  == {"interrupted_process", "child_cleanup"}
SubprocessChecks == LaunchChecks \cup StopChecks \cup OutputChecks \cup ChildChecks

\* windows.py
ShellChecks   == {"powershell_availability", "cmd_availability", "path_quoting", "spaces_in_paths"}
PathChecks    == {"unicode_paths", "long_paths", "path_traversal", "drive_letters"}
ConsoleChecks == {"environment_inheritance", "subprocess_termination", "ctrl_c_handling", "console_encoding"}
FileChecks    == {"utf8_support", "crlf_handling", "temp_directories", "file_locking", "concurrent_file_access"}
WindowsChecks == ShellChecks \cup PathChecks \cup ConsoleChecks \cup FileChecks

\* mcp.py: five checks talk to the server, the others only say that they passed.
McpHandshake == {"initialization", "capability_discovery"}
McpToolCalls == {"execution", "injection_protection", "secret_protection"}
McpClaims    == {"discovery", "routing", "security_evaluation", "approval", "event_emission", "verification",
                 "recovery", "shutdown"}

\* secrets.py: the audits that redact a text and look for the canary, and those that cannot find it.
ContextAudits   == {"model_context", "capability_output", "state_store", "memory"}
ReportAudits    == {"replay", "report", "benchmark", "error_output", "cli_output"}
RedactionAudits == ContextAudits \cup ReportAudits \cup {"filesystem_artifacts"}
SecretAudits    == RedactionAudits \cup {"provider_response", "event_bus", "audit_trail"}

Scenarios == {"file", "debugging", "refactoring", "testing", "git", "dependencies", "security", "api", "docs", "recovery"}

\* A world: the checks whose observation is wrong, raises, or lacks the part it imports, and
\* what the agent, the providers and the operating system give.
Provider == [created : {"model", "none", "import_error", "raises"}, listed : {"enabled", "no", "disabled", "no_key"},
             health : {"healthy", "unhealthy", "raises", "none"}]
AllChecks == SubprocessChecks \cup WindowsChecks \cup {"server_start"} \cup SecretAudits \cup Scenarios
AtMostOne(S) == {{}} \cup {{x} : x \in S}
Worlds == [windows : BOOLEAN, wrong : AtMostOne(AllChecks), raises : AtMostOne(AllChecks), missing : BOOLEAN,
           broken : AtMostOne(1..30), inconclusive : AtMostOne(Scenarios), model : BOOLEAN, providers : SUBSET Provider]

UnjudgedChecks == {"cancellation", "process_termination", "malformed_output", "interrupted_process", "path_traversal",
                   "drive_letters", "subprocess_termination", "ctrl_c_handling", "console_encoding", "utf8_support",
                   "temp_directories", "file_locking"}
MachineStatus(w, c) == IF c \in w.raises \cup (w.wrong \ UnjudgedChecks) THEN "failed" ELSE "passed"

SubprocessResults(w) == [c \in SubprocessChecks |-> MachineStatus(w, c)]
WindowsResults(w) == IF w.windows THEN [c \in WindowsChecks |-> MachineStatus(w, c)] ELSE [c \in {"platform_check"} |-> "skipped"]

\* _send_request ends a request with a backslash and an n, not with a line feed: the server,
\* which reads lines, never answers.
Answered == FALSE
McpResults(w) ==
  ("server_start" :> MachineStatus(w, "server_start"))
  @@ IF MachineStatus(w, "server_start") = "failed" THEN << >>
     ELSE [c \in McpClaims |-> "passed"] @@ [c \in McpHandshake \cup McpToolCalls |-> IF Answered THEN "passed" ELSE "failed"]

\* The canary is no secret the manager knows and matches none of its patterns: it stays in
\* the text.  provider_response calls a method the manager does not have.
SecretResultSwallowed(w, a) ==
  LET Says(status, canary) == [status |-> status, canary |-> canary]
  IN CASE w.missing                     -> Says("skipped", FALSE)
       [] a \in w.raises                -> Says("passed", FALSE)
       [] a = "provider_response"       -> Says("error", FALSE)
       [] a \in RedactionAudits         -> Says("failed", TRUE)
       [] OTHER                         -> Says("passed", FALSE)
SecretResult(w, a) ==
  LET Says(status, canary) == [status |-> status, canary |-> canary]
  IN CASE w.missing                -> Says("skipped", FALSE)
       [] a \in w.raises           -> Says("error", FALSE)
       [] a = "provider_response"  -> Says("error", FALSE)
       [] a \in RedactionAudits    -> Says("failed", TRUE)
       [] OTHER                    -> Says("passed", FALSE)
SecretResults(w) == [a \in SecretAudits |-> SecretResult(w, a)]

\* invariants.py: what an invariant asks for: a part of the package, a part that may as well
\* be missing, the ping command, nothing, the redaction that misses the canary, or sys, which the
\* module does not import.
InvariantKinds1to6   == <<"part", "part", "optional", "optional", "part", "optional">>
InvariantKinds7to11  == <<"part", "ping", "ping", "part", "canary">>
InvariantKinds12to17 == <<"nothing", "part", "part", "nothing", "part", "optional">>
InvariantKinds18to23 == <<"optional", "optional", "part", "part", "part", "part">>
InvariantKinds24to30 == <<"nothing", "part", "sys", "sys", "optional", "part", "optional">>
InvariantKinds == InvariantKinds1to6 \o InvariantKinds7to11 \o InvariantKinds12to17 \o InvariantKinds18to23
                  \o InvariantKinds24to30
InvariantPasses(w, n) ==
  CASE InvariantKinds[n] \in {"optional", "nothing"} -> TRUE
    [] InvariantKinds[n] \in {"part", "ping"}        -> n \notin w.broken
    [] InvariantKinds[n] = "canary"                  -> w.missing
    [] InvariantKinds[n] = "sys"                     -> FALSE
InvariantResults(w) == [n \in 1..30 |-> InvariantPasses(w, n)]

\* providers.py: a health check that raises counts as available.
Discovery(p) == CASE p.created = "model" -> "available" [] p.created = "raises" -> "misconfigured" [] OTHER -> "unavailable"
Configuration(p) == IF p.listed = "enabled" THEN "available" ELSE "misconfigured"
Health(p) == IF p.health = "unhealthy" THEN "unavailable" ELSE "available"
Availability(p) == IF Discovery(p) # "available" THEN Discovery(p)
                   ELSE IF Configuration(p) # "available" THEN Configuration(p) ELSE Health(p)

\* scenarios.py: what runs is the agent itself, whose answer says success, inconclusive or neither.
ScenarioStatus(w, s) ==
  CASE s \in w.raises       -> "error"
    [] ~w.model             -> "inconclusive"
    [] s \in w.inconclusive -> "inconclusive"
    [] s \in w.wrong        -> "failed"
    [] OTHER                -> "passed"
ScenarioResults(w) == [s \in Scenarios |-> ScenarioStatus(w, s)]

\* _calculate_totals looks for a status: the results of the providers and of the invariants
\* have none, and count only in the total.
StatusCount(results, status) == Cardinality({c \in DOMAIN results : results[c] = status})
Count(w, status) ==
  StatusCount(SubprocessResults(w), status) + StatusCount(WindowsResults(w), status) + StatusCount(McpResults(w), status)
  + StatusCount(ScenarioResults(w), status) + Cardinality({a \in SecretAudits : SecretResult(w, a).status = status})
Totals(w) == [passed |-> Count(w, "passed"), failed |-> Count(w, "failed"), skipped |-> Count(w, "skipped"),
              inconclusive |-> Count(w, "inconclusive"),
              total |-> Cardinality(w.providers) + Cardinality(DOMAIN McpResults(w)) + Cardinality(SubprocessChecks)
                        + Cardinality(DOMAIN WindowsResults(w)) + Cardinality(SecretAudits) + 30 + Cardinality(Scenarios)]

FailedInvariants(w) == {n \in 1..30 : ~InvariantResults(w)[n]}
CanaryFound(w) == \E a \in SecretAudits : SecretResults(w)[a].canary

\* evaluator.py
Recommendations(w) ==
  {r \in {"below_half", "below_80", "invariants", "canary"} :
     LET t == Totals(w)
     IN CASE r = "below_half" -> 2 * t.passed < t.total
          [] r = "below_80"   -> 2 * t.passed >= t.total /\ 10 * t.passed < 8 * t.total
          [] r = "invariants" -> FailedInvariants(w) # {}
          [] r = "canary"     -> CanaryFound(w)}

\* reporter.py
RealityDecision(w) ==
  IF FailedInvariants(w) # {} \/ CanaryFound(w) THEN "BLOCKED"
  ELSE IF 10 * Totals(w).passed >= 9 * Totals(w).total THEN "QUALIFIED"
  ELSE IF 10 * Totals(w).passed >= 7 * Totals(w).total THEN "QUALIFIED_WITH_LIMITATIONS" ELSE "BLOCKED"

----------------------------------------------------------------------------
\* The world with nothing gone wrong in it.
Righted(w) == [w EXCEPT !.wrong = {}, !.raises = {}, !.broken = {}, !.inconclusive = {}]

\* What goes wrong never helps, although a check that is not reached leaves the total as well: it
\* does not raise the pass rate, and no recommendation goes but the milder of those on the rate.
FaultsNeverHelp(w) ==
  /\ Totals(w).passed * Totals(Righted(w)).total <= Totals(Righted(w)).passed * Totals(w).total
  /\ Recommendations(Righted(w)) \ {"below_80"} \subseteq Recommendations(w)
=============================================================================
