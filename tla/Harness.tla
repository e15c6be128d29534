------------------------------ MODULE Harness ------------------------------
(***************************************************************************)
(* The benchmark harness (argus/harness): a task is set up in a directory, *)
(* an agent works there, and the task's criteria are checked against what  *)
(* it left behind.  A task is the number of checks of each kind it has, a  *)
(* piece of work the part of them it meets.                                *)
(***************************************************************************)
EXTENDS Naturals, Sequences, FiniteSets, Functions

\* modified, content, tests: the number of checks of the kind.  clean: words that must be
\* gone.  named: a test is given by its bare name, which pytest takes for a path it cannot
\* find.  asked: checks the verifier skips (custom checks, words in the output).  fixed: the
\* files must not be changed.
Task(modified, content, clean, tests, named, asked, fixed) ==
  [modified |-> modified, content |-> content, clean |-> clean, tests |-> tests, named |-> named,
   asked |-> asked, fixed |-> fixed]
FixFailingTest == Task(1, 1, FALSE, 2, TRUE, FALSE, FALSE)
FixCompilation == Task(1, 1, FALSE, 2, TRUE, FALSE, FALSE)
AddFeature     == Task(0, 1, FALSE, 0, TRUE, TRUE, FALSE)
RefactorModule == Task(0, 1, TRUE, 2, TRUE, FALSE, FALSE)
DiagnoseBug    == Task(0, 0, FALSE, 0, TRUE, TRUE, TRUE)
MultipleFiles  == Task(0, 4, FALSE, 4, TRUE, FALSE, FALSE)
FixRegression  == Task(1, 1, FALSE, 4, TRUE, FALSE, FALSE)
EdgeCase       == Task(1, 0, FALSE, 4, TRUE, FALSE, FALSE)
BenchmarkTasks == {FixFailingTest, FixCompilation, AddFeature, RefactorModule, DiagnoseBug, MultipleFiles,
                   FixRegression, EdgeCase}
\* Tasks a caller builds, whose tests are given by their path.
CallersTasks == {Task(m, c, clean, t, FALSE, FALSE, FALSE) : m \in 0..1, c \in 0..4, clean \in BOOLEAN, t \in 0..2}
Tasks == BenchmarkTasks \cup CallersTasks

\* The tests are run by pytest up to four times: to verify, to verify again for the score,
\* to count them for it, and to report them.  A run may time out, and passed none then.
Rounds == {"verified", "again", "counted", "reported"}
\* What the agent did.  It is only timed out by itself: the harness passes it no limit.
Works == [ends : {"answers", "timeout", "raises"}, modified : BOOLEAN, content : {"none", "some", "all"}, clean : BOOLEAN,
          tests : [Rounds -> {"none", "some", "all"}], asked : BOOLEAN]
Passing(tests) == [round \in Rounds |-> tests]
NoAgent == [ends |-> "answers", modified |-> FALSE, content |-> "none", clean |-> FALSE, tests |-> Passing("none"), asked |-> FALSE]
Perfect == [ends |-> "answers", modified |-> TRUE, content |-> "all", clean |-> TRUE, tests |-> Passing("all"), asked |-> TRUE]

Met(part, n) == CASE part = "all" -> n [] part = "some" /\ n > 0 -> n - 1 [] OTHER -> 0
ModifiedMet(t, w) == IF w.modified THEN t.modified ELSE 0
ContentMet(t, w) == Met(w.content, t.content)
\* One run of pytest for each test, in each round.
TestsMet(t, w, round) == IF t.named THEN 0 ELSE Met(w.tests[round], t.tests)

Findings(t, w, round) ==
  (t.modified - ModifiedMet(t, w)) + (t.content - ContentMet(t, w)) + (t.tests - TestsMet(t, w, round))
  + (IF t.clean /\ ~w.clean THEN 1 ELSE 0)
Verify(t, w, round) == Findings(t, w, round) = 0
\* In thousandths.  Words that must be gone are no part of it.
CalculateScore(t, w) ==
  LET checks == t.modified + t.content + t.tests
  IN CASE Verify(t, w, "again") -> 1000
       [] ~Verify(t, w, "again") /\ checks = 0 -> 0
       [] OTHER -> (1000 * (ModifiedMet(t, w) + ContentMet(t, w) + TestsMet(t, w, "counted"))) \div checks

Result(status, success, score, findings, passed) ==
  [status |-> status, success |-> success, score |-> score, findings |-> findings, tests_passed |-> passed]
Judged(t, w, success) ==
  Result(IF success THEN "completed" ELSE "failed", success, CalculateScore(t, w), Findings(t, w, "verified"),
         TestsMet(t, w, "reported"))
RunTaskByScore(t, w) ==
  IF w.ends = "answers" THEN Judged(t, w, CalculateScore(t, w) >= 800) ELSE Result("error", FALSE, 0, 0, 0)
RunTask(t, w) ==
  CASE w.ends = "timeout" -> Result("timeout", FALSE, 0, 0, 0)
    [] w.ends = "raises"  -> Result("error", FALSE, 0, 0, 0)
    [] OTHER -> Judged(t, w, Verify(t, w, "verified") /\ CalculateScore(t, w) >= 800)
\* The same steps again, and the events of the run with a status of their own; what is
\* caught on the way gives no report.
RunTaskWithReplay(t, w) ==
  LET result == RunTask(t, w)
  IN [result |-> result, replay |-> CASE result.status = "error" -> "corrupted" [] result.success -> "complete" [] OTHER -> "partial"]

\* The counters of a benchmark over a sequence of results.
Counters == {"completed", "failed", "timeout", "error"}
RunBenchmark(results) ==
  [total |-> Len(results), by |-> [c \in Counters |-> Cardinality({i \in DOMAIN results : results[i].status = c})],
   score |-> SumFunction([i \in DOMAIN results |-> results[i].score])]

\* A task that counts as a success met every criterion the verifier knows when it was first
\* verified, and has a complete replay: the score alone (0.8 and more, with the words that must
\* be gone left out of it) is not enough.  It has the full score and all of its tests unless a
\* test that passed then did not in a later round.  A result is in one counter.
SuccessIsVerified(t, w) ==
  LET r == RunTask(t, w)
      steady == \A a, b \in Rounds : w.tests[a] = w.tests[b]
  IN /\ r.success => /\ w.ends = "answers" /\ r.findings = 0 /\ (t.clean => w.clean)
                     /\ TestsMet(t, w, "verified") = t.tests /\ r.score >= 800
                     /\ (steady => r.score = 1000 /\ r.tests_passed = t.tests)
                     /\ RunTaskWithReplay(t, w).replay = "complete"
     /\ LET by == RunBenchmark(<<r, r>>).by IN by["completed"] + by["failed"] + by["timeout"] + by["error"] = 2

\* Every task of the benchmark can be solved: perfect work on it is a success.
PerfectWorkSucceeds(t, w) == (t \in BenchmarkTasks /\ w = Perfect) => RunTask(t, w).success
\* "Do NOT modify any files": a diagnosis that changed the file is no success.
DiagnosisChangesNothing(t, w) == (t.fixed /\ w.modified) => ~RunTask(t, w).success
=============================================================================
