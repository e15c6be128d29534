---------------------------- MODULE Verification ----------------------------
(***************************************************************************)
(* The verification engine (argus/verification): a suite is a sequence of  *)
(* criteria, a criterion runs an evaluator against the project, and the    *)
(* statuses of the criteria make the verdict.  That a criterion is not     *)
(* required changes nothing in the verdict.                                *)
(***************************************************************************)
EXTENDS Naturals, Sequences, FiniteSets, Functions

\* The project as the evaluators find it.  A git that fails writes no names: the lists of
\* changed files are empty then, and a diff that raises counts as an empty one too.
CommandOutcomes == {"succeeds", "fails", "times_out", "raises"}
Projects == [test : CommandOutcomes, type : CommandOutcomes, lint : CommandOutcomes,
             changed : {"few", "many_files", "many_lines", "git_fails", "git_raises"},
             debug : BOOLEAN, syntax : BOOLEAN, file : {"absent", "clean", "forbidden", "unreadable"}]

RunCommand(outcome) ==
  CASE outcome = "succeeds" -> "passed" [] outcome = "raises" -> "error" [] OTHER -> "failed"
CheckFilesChanged(p) ==
  CASE p.changed = "many_files" -> "failed" [] p.changed = "git_raises" -> "error" [] OTHER -> "passed"
CheckUncommittedChanges(p) ==
  CASE p.changed = "git_raises" -> "error" [] p.changed = "git_fails" -> "passed" [] OTHER -> "failed"
CheckMaxFiles(p) == IF p.changed = "many_files" THEN "failed" ELSE "passed"
CheckMaxLines(p) == IF p.changed = "many_lines" THEN "failed" ELSE "passed"
SeesChanges(p) == p.changed \in {"few", "many_files", "many_lines"}
CheckNoDebugStatements(p) == IF SeesChanges(p) /\ p.debug THEN "failed" ELSE "passed"
CheckImportsValid(p) == IF SeesChanges(p) /\ ~p.syntax THEN "failed" ELSE "passed"
CheckFileDoesNotContain(p) ==
  CASE p.file = "absent" -> "skipped" [] p.file = "clean" -> "passed" [] p.file = "forbidden" -> "failed" [] OTHER -> "error"
\* The test runner has a status of its own: it knows no error.
VerifyTests(p) == IF p.test = "succeeds" THEN "passed" ELSE "failed"

\* The suites.  The ready-made suites of criteria.py have no evaluators: they are skipped.
BuildComprehensiveSuite == <<"none", "none", "none", "none">>
BuildTestSuite == <<"none">>
DefaultSuite == <<"test", "type", "lint", "changed">>
StrictSuite == <<"test", "file", "changed">>
Suites == [comprehensive |-> BuildComprehensiveSuite, test |-> BuildTestSuite, default |-> DefaultSuite, strict |-> StrictSuite]
StopsOnFirstFailure == {"strict"}

EvaluateCriterion(p, evaluator) ==
  CASE evaluator = "none"    -> "skipped"
    [] evaluator = "changed" -> CheckFilesChanged(p)
    [] evaluator = "file"    -> CheckFileDoesNotContain(p)
    [] OTHER -> RunCommand(p[evaluator])
\* The criteria in their order; a failure, and not an error, may end the suite.
EvaluateSuite(p, name) ==
  LET all == [i \in DOMAIN Suites[name] |-> EvaluateCriterion(p, Suites[name][i])]
      failed == {i \in DOMAIN all : all[i] = "failed"}
  IN IF name \in StopsOnFirstFailure /\ failed # {}
     THEN SubSeq(all, 1, CHOOSE i \in failed : \A j \in failed : i <= j) ELSE all

StatusOfFailuresOnly(statuses) == IF "failed" \in Range(statuses) THEN "failed" ELSE "passed"
StatusOf(statuses) ==
  CASE "error" \in Range(statuses) -> "error"
    [] "error" \notin Range(statuses) /\ "failed" \in Range(statuses) -> "failed"
    [] Range(statuses) \subseteq {"passed"} -> "passed"
    [] OTHER -> "partial"
\* The criteria of all registered suites, one suite after the other.
EvaluateAll(p, registered) ==
  LET upto[i \in 0..Len(registered)] == IF i = 0 THEN <<>> ELSE upto[i - 1] \o EvaluateSuite(p, registered[i])
  IN upto[Len(registered)]
Verify(p, registered, name) ==
  LET statuses == CASE name = "all" -> EvaluateAll(p, registered)
                    [] name \in Range(registered) -> EvaluateSuite(p, name)
                    [] OTHER -> <<"error">>
  IN [status |-> StatusOf(statuses), criteria |-> statuses,
      passed |-> Cardinality({i \in DOMAIN statuses : statuses[i] = "passed"})]
RunComprehensive(p) == Verify(p, <<"default">>, "default")
\* A result made from a list of criteria takes an error or a skipped criterion for no failure.
WithFailures(statuses) == StatusOfFailuresOnly(statuses)

\* A verdict that passed hides nothing: every criterion of every suite it ran was evaluated
\* and passed, those that are not required as well, and none was cut off, skipped or in error;
\* the confidence is full unless nothing was checked at all.
PassedHidesNothing(p, registered, name) ==
  LET v == Verify(p, registered, name)
      asked == IF name = "all" THEN Range(registered) ELSE {name}
  IN v.status = "passed" =>
       /\ v.passed = Len(v.criteria)
       /\ \A s \in asked : \A i \in DOMAIN Suites[s] : EvaluateCriterion(p, Suites[s][i]) = "passed"
       /\ "default" \in asked => (p.test = "succeeds" /\ p.lint = "succeeds" /\ p.changed # "many_files")
       /\ v.criteria # <<>> => WithFailures(v.criteria) = "passed"
=============================================================================
