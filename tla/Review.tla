------------------------------- MODULE Review -------------------------------
(***************************************************************************)
(* ReviewEngine.review (argus/review): seven criteria look at the evidence *)
(* collected about a change, and their results and findings become one     *)
(* status.  Severities are strings in the code and are compared as such.   *)
(***************************************************************************)
EXTENDS Naturals, FiniteSets

\* The order of the severities as Python compares them: alphabetical.
Rank == [critical |-> 1, high |-> 2, info |-> 3, low |-> 4, medium |-> 5]
AtLeast(s, t) == Rank[s] >= Rank[t]
Most(S) == CHOOSE s \in S : \A t \in S : AtLeast(s, t)

Requirements == {"satisfied", "unsatisfied", "unverified"}
DiffFlags == {"debug", "secret", "large", "tests_deleted"}

Criteria == {"requirements", "verification", "regression", "security", "diff", "scope", "tests"}

\* What a collector may hold: per type nothing, or what its latest item (of the
\* requirements, events and lists of tests: any item) says; "raises" the criteria that do.
ReviewEvidence == [requirements : {{"none"}} \cup SUBSET Requirements,
                   verification : {"none", "passed", "failed"},
                   regression   : {"none", "no_baseline", "clean", "regressed"},
                   events       : SUBSET {"deny", "injection", "audit"},
                   diff         : {{"none"}} \cup SUBSET DiffFlags,
                   tests        : SUBSET {"deleted", "weakened"},
                   scope        : {"none", "inside", "outside"},
                   raises       : SUBSET Criteria]

Pass == [status |-> "pass", severity |-> "info", findings |-> {}]
Inconclusive == [status |-> "inconclusive", severity |-> "info", findings |-> {}]
Finding(category, severity) == [category |-> category, severity |-> severity]
Result(status, severity, findings) == [status |-> status, severity |-> severity, findings |-> findings]

RequirementCriterion(e) ==
  IF e.requirements = {"none"} THEN Inconclusive
  ELSE IF "unsatisfied" \in e.requirements
       THEN Result(IF "satisfied" \in e.requirements THEN "warning" ELSE "fail",
                   IF "satisfied" \in e.requirements THEN "medium" ELSE "high", {Finding("requirement", "high")})
  ELSE IF "unverified" \in e.requirements THEN Inconclusive ELSE Pass

VerificationCriterion(e) ==
  CASE e.verification = "none"   -> Inconclusive
    [] e.verification = "passed" -> Pass
    [] OTHER                     -> Result("fail", "high", {Finding("verification", "high")})

RegressionCriterion(e) ==
  CASE e.regression \in {"none", "no_baseline"} -> Inconclusive
    [] e.regression = "clean"                   -> Pass
    [] OTHER                                    -> Result("fail", "high", {Finding("regression", "high")})

SecurityCriterion(e) ==
  IF e.events = {} THEN Pass
  ELSE Result("fail", "critical", {Finding("security", IF v = "audit" THEN "high" ELSE "critical") : v \in e.events})

DiffFinding(flag) == CASE flag = "secret"        -> Finding("security", "critical")
                       [] flag = "tests_deleted" -> Finding("test_deletion", "high")
                       [] OTHER                  -> Finding("quality", "low")
DiffQualityCriterion(e) ==
  LET found == {DiffFinding(flag) : flag \in e.diff}
      severities == {f.severity : f \in found}
  IN IF e.diff = {"none"} THEN Inconclusive
     ELSE IF e.diff = {} THEN Pass
     ELSE IF "critical" \in severities THEN Result("fail", "medium", found)
     ELSE Result(IF \A s \in severities : AtLeast("medium", s) THEN "warning" ELSE "fail", Most(severities), found)

ScopeCriterion(e) ==
  CASE e.scope = "none"   -> Inconclusive
    [] e.scope = "inside" -> Pass
    [] OTHER              -> Result("warning", "medium", {Finding("scope", "medium")})

TestDeletionCriterion(e) ==
  IF e.diff = {"none"} \/ e.tests = {} THEN Pass
  ELSE Result("fail", "high", {Finding("test_deletion", IF t = "deleted" THEN "high" ELSE "medium") : t \in e.tests})

Evaluate(c, e) ==
  CASE c = "requirements" -> RequirementCriterion(e)
    [] c = "verification" -> VerificationCriterion(e)
    [] c = "regression"   -> RegressionCriterion(e)
    [] c = "security"     -> SecurityCriterion(e)
    [] c = "diff"         -> DiffQualityCriterion(e)
    [] c = "scope"        -> ScopeCriterion(e)
    [] OTHER              -> TestDeletionCriterion(e)

\* A criterion that raises is inconclusive, whatever it saw, and leaves no finding.
CriterionResults(e) == {IF c \in e.raises THEN Inconclusive ELSE Evaluate(c, e) : c \in Criteria}

AggregateByFailure(results) ==
  IF \E r \in results : r.status = "fail" THEN "fail"
  ELSE IF \E r \in results : r.status = "warning" THEN "pass_with_warnings" ELSE "pass"
AggregateStatus(results) ==
  LET findings == UNION {r.findings : r \in results}
      Some(status) == {r \in results : r.status = status}
  IN IF \E f \in findings : f.severity = "critical" \/ (f.category = "security" /\ f.severity = "high") THEN "blocked"
     ELSE IF Some("fail") # {} THEN "fail"
     ELSE IF Some("warning") # {} THEN "pass_with_warnings"
     ELSE IF Some("pass") # {} /\ Some("inconclusive") = {} THEN "pass"
     ELSE IF Some("pass") # {} /\ \A r \in Some("inconclusive") : ~AtLeast(r.severity, "high") THEN "pass_with_warnings"
     ELSE "inconclusive"

ReviewStatus(e) == AggregateStatus(CriterionResults(e))

----------------------------------------------------------------------------
\* A review passes only on evidence of everything it asks for, and not even with
\* warnings over a failed verification, a regression, a security event or a deleted
\* test that its criterion lived to report; a criterion that raises hides them.
ReviewIsEarned(e, status) ==
  /\ status = "pass" => /\ e.requirements \cap {"none", "unsatisfied", "unverified"} = {} /\ e.verification = "passed"
                        /\ e.regression = "clean" /\ e.events = {} /\ e.diff = {} /\ e.tests = {} /\ e.scope = "inside"
                        /\ e.raises = {}
  /\ status = "pass_with_warnings" => /\ "verification" \in e.raises \/ e.verification # "failed"
                                      /\ "regression" \in e.raises \/ e.regression # "regressed"
                                      /\ "security" \in e.raises \/ e.events = {}
                                      /\ "diff" \in e.raises \/ "secret" \notin e.diff
                                      /\ "tests" \in e.raises \/ e.diff = {"none"} \/ e.tests = {}
                                      /\ Criteria \ e.raises # {}
=============================================================================
