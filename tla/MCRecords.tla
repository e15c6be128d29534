----------------------------- MODULE MCRecords -----------------------------
(* A small instance of Records.                                            *)
EXTENDS Records

CONSTANTS p1, p2,        \* subagents, MCP servers, threads that emit, work or lock: alike in each part
          q1, q2         \* roles of subagents, start tasks of the MCP manager

MCRoleDefaults == [r \in {q1, q2} |-> [max_iterations |-> 1, max_time_seconds |-> 1]]
MCBudgetOverrides == {<<>>, [max_iterations |-> 2]}

\* Two tools of two servers with one full id: "c" of the server "a.b", "b.c" of the server "a".
MCFullToolId == [x \in {p1, p2} \X {"tool"} |-> "mcp.a.b.c"]

\* The events of a log: the life of two capabilities, decisions, executions, an agent, and two
\* with a parent that is recorded later or never.
Kind(t, cap, parent, run) == [type |-> t, cap |-> cap, parent |-> parent, run |-> run]
MCRecordable ==
  {Kind(t, "a", 0, "r") : t \in {"capability.started", "capability.completed", "capability.failed",
                                 "security.denied", "security.approved", "execution.completed"}}
  \cup {Kind(t, "b", 0, "r") : t \in {"capability.started", "capability.completed"}}
  \cup {Kind(t, "none", 0, "r") : t \in {"agent.started", "agent.completed", "verification.completed"}}
  \cup {Kind("execution.started", "a", 2, "r"), Kind("verification.failed", "none", 9, "x")}

MCRouterIds == <<"bash", "git", "found">>
MCRouterKinds == [c \in {"bash", "git", "found"} |-> IF c = "found" THEN "discovered" ELSE "tool"]
MCAlike == {<<"text", "code">>}
MCLimitOf == [r \in {"runs", "tokens"} |-> IF r = "runs" THEN 1 ELSE 2]
MCApprovalAsks == [capability : {"shell.execute"}, command : {"none", "ls"}]

-----------------------------------------------------------------------------
\* The inputs of the parts that judge: all there are of some, of others those in which the
\* fields vary that a verdict combines.
Evidence(requirements, diffs, raising) ==
  [requirements : requirements, diff : diffs, raises : raising, verification : {"none", "passed", "failed"},
   regression : {"none", "clean", "regressed"}, events : {{}, {"deny"}, {"injection"}, {"audit"}},
   tests : SUBSET {"deleted", "weakened"}, scope : {"none", "inside", "outside"}]
Reviewed == {e \in Evidence({{"none"}} \cup SUBSET Rev!Requirements, {{"none"}} \cup SUBSET Rev!DiffFlags, {{}}) :
               (e.diff = {"none"} => e.tests = {}) /\ Cardinality(e.diff) <= 2}
            \cup Evidence({{"none"}, {"satisfied"}}, {{}, {"secret"}}, {{c} : c \in Rev!Criteria} \cup {Rev!Criteria})
Released == {b \in Rel!Builds : Cardinality(b.broken) <= 1}
Validated == {a \in Val!Answers : a.ends = "answers" \/ (a.files = "none" /\ a.calls = "none" /\ ~a.test_file /\ ~a.docstring)}
Verified == {p \in Ver!Projects : p.type \in {"succeeds", "fails"} /\ p.lint \in {"succeeds", "raises"}
                                  /\ p.file # "unreadable" /\ p.syntax}
\* Tests that pass alike in every round, or all at first and fewer later.
Worked == {w \in Har!Works : /\ \A a, b \in Har!Rounds \ {"verified"} : w.tests[a] = w.tests[b]
                             /\ w.tests["verified"] \in {"all", w.tests["again"]}}
\* Lists of results for the benchmark: every single result, and short lists of a few kinds.
Outcome(success, recoveries, calls) ==
  [success |-> success, verified |-> success, reviewed |-> FALSE, recoveries |-> recoveries, blocks |-> 0, providers |-> 0,
   calls |-> calls, error |-> "none", label |-> "none", blamed |-> "none"]
Outcomes == {Outcome(ok, n, calls) : ok \in BOOLEAN, n \in 0..1, calls \in {1, 2, 4}}
Lists == UNION {[1..n -> Outcomes] : n \in 0..2}
Baselines == UNION {[1..n -> {Outcome(ok, 0, 1) : ok \in BOOLEAN}] : n \in 0..2}
Measured == {[results |-> <<r>>, baseline |-> <<>>] : r \in Ben!Results} \cup [results : Lists, baseline : Baselines]

\* Worlds in which one thing goes wrong or nothing, without providers or with one that is there.
Right == [windows : BOOLEAN, wrong : {{}}, raises : {{}}, missing : BOOLEAN, broken : {{}}, inconclusive : {{}}, model : BOOLEAN,
          providers : {{}, {[created |-> "model", listed |-> "enabled", health |-> "healthy"]}}]
Imagined == UNION {{w} \cup {[w EXCEPT !.wrong = {c}] : c \in Rea!AllChecks} \cup {[w EXCEPT !.raises = {c}] : c \in Rea!AllChecks}
                   \cup {[w EXCEPT !.broken = {n}] : n \in 1..30} \cup {[w EXCEPT !.inconclusive = {s}] : s \in Rea!Scenarios}
                   : w \in Right}

\* Up to two results of subagents, each with at most one finding, and up to three checks of an
\* MCP server.
Reported == [status : {"completed", "failed", "timed_out", "blocked", "cancelled"},
             findings : {{}} \cup {{f} : f \in [topic : {"bug", "unknown"}, conclusion : {"none", "yes", "no"}]}]
\* So many results that one which timed out is rounded away, and nearly so many.
Many == {[i \in 1..n |-> [status |-> IF i = 1 THEN "timed_out" ELSE "completed", findings |-> {}]] : n \in {199, 200, 201}}

MCQuestions ==
  [p \in Judging |->
     CASE p = "security"     -> Kernel!Invocations
       [] p = "review"       -> Reviewed
       [] p = "release"      -> Released
       [] p = "validation"   -> [answer : Validated, scenario : DOMAIN Val!Scenarios]
       [] p = "harness"      -> [task : Har!Tasks, work : Worked]
       [] p = "benchmark"    -> Measured
       [] p = "verification" -> [project : Verified, name : {"all", "default", "strict"},
                                 registered : {<<"default">>, <<"default", "strict">>, <<>>, <<"comprehensive">>}]
       [] p = "reality"      -> Imagined
       [] p = "aggregation"  -> Many \cup UNION {[1..n -> Reported] : n \in 0..2}
       [] p = "health"       -> UNION {[1..n -> Mcp!Checks] : n \in 0..3}]

Symmetry == Permutations({p1, p2}) \cup Permutations({q1, q2})
=============================================================================
