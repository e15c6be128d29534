------------------------------ MODULE Release ------------------------------
(***************************************************************************)
(* Release qualification (argus/release): the artifacts found, the version *)
(* and twenty invariants give totals and a decision.  Most invariants only *)
(* ask whether a part of the package imports; what they name is looked at, *)
(* if at all, by the artifact check.                                       *)
(***************************************************************************)
EXTENDS Naturals, FiniteSets

WheelFaults == {"missing_module", "forbidden_file", "forbidden_dir"}
Parts == {"package", "metadata", "modules", "policy", "approval", "durable", "detector", "bus", "replay", "mcp", "config"}
Steps == {"venv", "installs", "imports", "from_venv", "version", "help", "neutral"}

\* A build: its artifacts, {"absent"}, {"bad"} and {"unreadable"} besides the faults in
\* them, the parts that do not import, the steps that work in a clean environment.
Builds == [wheel   : {{"absent"}, {"bad"}, {"unreadable"}} \cup SUBSET WheelFaults,
           sdist   : {{"absent"}, {"bad"}, {"unreadable"}} \cup SUBSET {"forbidden_file"},
           broken  : {p \in SUBSET Parts : Cardinality(p) <= 3},
           version : {"same", "different", "unknown"}]

ArtifactStatus(a, errors) ==
  CASE a = {"absent"}           -> "none"
    [] a = {"unreadable"}       -> "error"
    [] a \cap errors # {}       -> "invalid"
    [] OTHER                    -> "valid"
ValidateWheel(b) == ArtifactStatus(b.wheel, {"bad", "forbidden_file"})
ValidateSdist(b) == ArtifactStatus(b.sdist, {"bad"})
Artifacts(b) == <<ValidateWheel(b), ValidateSdist(b)>>

IsConsistent(b) == b.version = "same"

\* Which part an invariant imports; the others pass whatever the build.
Imports ==
  [n \in {1, 5, 9, 10, 11, 12, 13, 16, 18} |->
     CASE n = 1  -> "package"  [] n = 5  -> "modules"  [] n \in {9, 16} -> "policy"
       [] n = 10 -> "approval" [] n = 11 -> "durable"  [] n = 12 -> "detector"
       [] n = 13 -> "bus"      [] n = 18 -> "config"]
SkippedWithout == [n \in {2, 14} |-> IF n = 2 THEN "metadata" ELSE "replay"]
Invariant(b, n) ==
  CASE n \in DOMAIN Imports        -> IF Imports[n] \in b.broken THEN "fail" ELSE "pass"
    [] n \in DOMAIN SkippedWithout -> IF SkippedWithout[n] \in b.broken THEN "skipped" ELSE "pass"
    [] n = 3                       -> IF IsConsistent(b) THEN "pass" ELSE "fail"
    [] OTHER                       -> "pass"
RunAllTests(b) == [n \in 1..20 |-> Invariant(b, n)]

Totals(b) ==
  LET found == {i \in 1..2 : Artifacts(b)[i] # "none"}
      results == RunAllTests(b)
  IN [total  |-> Cardinality(found) + 20,
      passed |-> Cardinality({i \in found : Artifacts(b)[i] = "valid"}) + Cardinality({n \in 1..20 : results[n] = "pass"}),
      failed |-> Cardinality({i \in found : Artifacts(b)[i] # "valid"}) + Cardinality({n \in 1..20 : results[n] = "fail"})]

RateOnly(b) == IF 10 * Totals(b).passed >= 9 * Totals(b).total THEN "QUALIFIED" ELSE "QUALIFIED_WITH_LIMITATIONS"
ReleaseDecision(b) ==
  IF \E n \in 1..20 : RunAllTests(b)[n] = "fail" THEN "BLOCKED"
  ELSE IF \E i \in 1..2 : Artifacts(b)[i] = "invalid" THEN "BLOCKED"
  ELSE RateOnly(b)

\* cleanroom.py: the test stops at the first of the two steps that fails; whether the
\* installation works from a neutral directory is noted and not judged.
CleanInstallation(works) ==
  CASE "venv" \notin works                                -> "error"
    [] "installs" \notin works                            -> "invalid"
    [] ~({"imports", "from_venv"} \subseteq works)        -> "invalid"
    [] {"version", "help"} \subseteq works                -> "valid"
    [] OTHER                                              -> "invalid"

----------------------------------------------------------------------------
\* A qualified build imports and agrees on its version, and its artifacts hold nothing
\* the artifact check found forbidden, although nine checks in ten would do for the rate.
QualifiedIsSound(b, decision) ==
  decision = "QUALIFIED" => /\ b.version = "same" /\ b.wheel \cap {"bad", "forbidden_file"} = {} /\ "bad" \notin b.sdist
                            /\ b.broken \subseteq {"metadata", "replay", "mcp"}

\* What REL-006 says: "No development-only files enter artifact".
NoDevelopmentFiles(b) == Invariant(b, 6) = "pass" => "forbidden_dir" \notin b.wheel
=============================================================================
