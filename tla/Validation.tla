----------------------------- MODULE Validation -----------------------------
(***************************************************************************)
(* Validation of an agent on ten scenarios (argus/validation).  A scenario *)
(* is a list of criteria in plain words; the verifier looks for key words  *)
(* in them, and a criterion with none of its words is met by every answer  *)
(* that reports no error.  A contract then judges the answer as a whole.   *)
(***************************************************************************)
EXTENDS Naturals, FiniteSets

\* What the words of a criterion make the verifier look at: a file it names, a file it does
\* not name, a new test file, a docstring, or whether an error was reported.
Criteria(named, unnamed, test, docstring, plain) ==
  [named |-> named, unnamed |-> unnamed, test |-> test, docstring |-> docstring, plain |-> plain]

FirstScenarios ==
  [file         |-> Criteria({"calculator.py"}, 4, 0, 1, 2),
   debugging    |-> Criteria({}, 0, 0, 0, 4),
   refactoring  |-> Criteria({}, 3, 0, 0, 3)]
TestAndGitScenarios ==
  [testing      |-> Criteria({"test_string_utils.py"}, 0, 5, 0, 1),
   git          |-> Criteria({}, 0, 0, 0, 6)]
PackageScenarios ==
  [dependencies |-> Criteria({"requirements.txt"}, 0, 1, 0, 3),
   security     |-> Criteria({}, 0, 0, 0, 5)]
ApiAndDocsScenarios ==
  [api          |-> Criteria({"models.py", "routes.py", "main.py"}, 0, 0, 0, 3),
   docs         |-> Criteria({"README.md"}, 0, 0, 0, 5)]
RecoveryScenario ==
  [recovery     |-> Criteria({"data_pipeline.py"}, 0, 0, 0, 7)]
Scenarios ==
  [s \in UNION {DOMAIN FirstScenarios, DOMAIN TestAndGitScenarios, DOMAIN PackageScenarios, DOMAIN ApiAndDocsScenarios,
                DOMAIN RecoveryScenario} |->
     CASE s \in DOMAIN FirstScenarios      -> FirstScenarios[s]
       [] s \in DOMAIN TestAndGitScenarios -> TestAndGitScenarios[s]
       [] s \in DOMAIN PackageScenarios    -> PackageScenarios[s]
       [] s \in DOMAIN ApiAndDocsScenarios -> ApiAndDocsScenarios[s]
       [] s \in DOMAIN RecoveryScenario    -> RecoveryScenario[s]]
\* Two criteria of "dependencies" name requirements.txt: the second names setup.py too, and
\* the verifier stops at the first expected file it finds in the words.
Twice == {"dependencies"}

\* An answer: what the agent did, or that it timed out or raised.
Answers == [ends : {"answers", "timeout", "raises"}, files : {"none", "some", "all"}, test_file : BOOLEAN, docstring : BOOLEAN,
            errors : BOOLEAN, output : BOOLEAN, calls : {"none", "failing", "working", "too_many"}, deleted : BOOLEAN,
            recovered : BOOLEAN]

\* How many of the named files are there: "some" is all but one.
NamedMet(a, s) ==
  LET n == Cardinality(Scenarios[s].named)
  IN (CASE a.files = "all" -> n [] a.files = "some" /\ n > 0 -> n - 1 [] OTHER -> 0)
     * (IF s \in Twice THEN 2 ELSE 1)
TestMet(a, s) == IF a.test_file THEN Scenarios[s].test ELSE 0
DocstringMet(a, s) == IF a.docstring THEN Scenarios[s].docstring ELSE 0
PlainMet(a, s) == IF a.errors THEN 0 ELSE Scenarios[s].plain
Met(a, s) == NamedMet(a, s) + TestMet(a, s) + DocstringMet(a, s) + PlainMet(a, s)
Asked(s) == LET c == Scenarios[s]
            IN Cardinality(c.named) * (IF s \in Twice THEN 2 ELSE 1) + c.unnamed + c.test + c.docstring + c.plain

Verify(a, s) ==
  IF 10 * Met(a, s) >= 9 * Asked(s) THEN [status |-> "passed", outcome |-> "success"]
  ELSE IF 10 * Met(a, s) >= 6 * Asked(s) THEN [status |-> "failed", outcome |-> "partial_success"]
  ELSE [status |-> "failed", outcome |-> "failure"]

\* The clauses of the default contract the answer breaks.
Clauses == {"output_format", "tool_usage", "state_mutation", "resource_limit", "verification_failure", "recovery_failure"}
Broken(a, s, clause) ==
  CASE clause = "output_format"        -> ~a.output
    [] clause = "tool_usage"           -> a.calls \in {"none", "failing"}
    [] clause = "state_mutation"       -> a.deleted
    [] clause = "resource_limit"       -> a.calls = "too_many"
    [] clause = "verification_failure" -> 10 * Met(a, s) < 8 * Asked(s)
    [] clause = "recovery_failure"     -> a.recovered /\ Verify(a, s).outcome # "success"
Violations(a, s) == {clause \in Clauses : Broken(a, s, clause)}
\* A safety violation and a timeout would block too: the contract never finds either, as the
\* verdict it looks at is not yet given.
Blocking == {"output_format"}

RunScenarioWithoutContract(a, s) == IF a.ends = "answers" THEN Verify(a, s).status ELSE "error"
RunScenario(a, s) ==
  CASE a.ends = "timeout" -> "timed_out"
    [] a.ends = "raises"  -> "error"
    [] OTHER -> IF Violations(a, s) \cap Blocking # {} THEN "failed" ELSE Verify(a, s).status

\* The four counters of a run: a scenario that timed out is in none of them.
RunAll(statuses) == [c \in {"passed", "failed", "error", "skipped"} |-> Cardinality({s \in DOMAIN statuses : statuses[s] = c})]
Recommendations(statuses, violated) ==
  LET passed == RunAll(statuses).passed
      total == Cardinality(DOMAIN statuses)
  IN {r \in {"critical", "warning", "timeouts", "contract"} :
        CASE r = "critical" -> 2 * passed < total
          [] r = "warning"  -> 2 * passed >= total /\ 10 * passed < 8 * total
          [] r = "timeouts" -> \E s \in DOMAIN statuses : statuses[s] = "timed_out"
          [] r = "contract" -> violated}

----------------------------------------------------------------------------
\* A scenario passes only for an agent that answered with some output, reported no error and
\* left the files that the criteria name: nine criteria in ten do not hide any of this.
PassedIsClean(a, s, status) ==
  status = "passed" => a.ends = "answers" /\ a.output /\ ~a.errors /\ (Scenarios[s].named # {} => a.files = "all")

\* What the name of the suite promises: an agent that does all it is asked passes.
PerfectAgentPasses(a, s, status) ==
  (a.ends = "answers" /\ a.files = "all" /\ a.test_file /\ a.docstring /\ a.output /\ a.calls = "working"
   /\ ~a.errors /\ ~a.deleted) => status = "passed"
=============================================================================
