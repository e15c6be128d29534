----------------------------- MODULE Benchmark -----------------------------
(***************************************************************************)
(* The figures of a benchmark (argus/benchmark): what a list of task       *)
(* results says of success, cost, recovery, providers and security, the    *)
(* score, the percentiles, the comparison of two experiments, the check    *)
(* for a regression and the class of each failure.  Rates are counted in   *)
(* parts of Scale, which every list of at most MaxResults results divides. *)
(***************************************************************************)
EXTENDS Integers, Sequences, FiniteSets, Functions, TLC

MaxResults == 3
Scale == 72

\* The words of an error the classifiers know, one for each class they lead to.
ErrorWords == {"none", "other", "environment", "harness", "planning", "context", "model", "tool", "crash", "verification", "review"}
Results == [success : BOOLEAN, verified : BOOLEAN, reviewed : BOOLEAN, recoveries : 0..1, blocks : 0..1,
            providers : 0..1, calls : {1, 2, 4}, error : ErrorWords,
            label : {"none", "tool_failure"}, blamed : {"none", "harness_failure"}]

Successful(rs) == SelectSeq(rs, LAMBDA r : r.success)
Count(Test(_), rs) == Len(SelectSeq(rs, Test))
Total(Cost(_), rs) == SumFunction([i \in DOMAIN rs |-> Cost(rs[i])])
Rate(n, of) == IF of = 0 THEN 0 ELSE (n * Scale) \div of

\* The metrics of a list of results.  An empty list is all zeros.
Recovering(r) == r.recoveries > 0
Violating(r) == r.blocks > 0 /\ ~r.success
PrimaryMetrics(rs) ==
  LET n == Len(rs)
      recovering == SelectSeq(rs, Recovering)
  IN [success  |-> Rate(Count(LAMBDA r : r.success, rs), n),
      first    |-> Rate(Count(LAMBDA r : r.success /\ ~Recovering(r), rs), n),
      verified |-> Rate(Count(LAMBDA r : r.verified, rs), n),
      reviewed |-> Rate(Count(LAMBDA r : r.reviewed, rs), n),
      recovery |-> IF n > 0 /\ recovering = <<>> THEN Scale ELSE Rate(Len(Successful(recovering)), Len(recovering)),
      security |-> Rate(Count(Violating, rs), n)]
EfficiencyMetrics(rs) ==
  LET calls(r) == r.calls
      won == Successful(rs)
  IN [calls |-> Total(calls, rs), average |-> Rate(Total(calls, rs), Len(rs)),
      per_success |-> Rate(Total(calls, won), Len(won))]
RecoveryMetrics(rs) ==
  LET recovering == SelectSeq(rs, Recovering)
  IN [attempts |-> Total(LAMBDA r : r.recoveries, rs), won |-> Len(Successful(recovering)),
      lost |-> Len(recovering) - Len(Successful(recovering)),
      budget |-> Rate(Total(LAMBDA r : r.recoveries, rs), 3 * Len(rs))]
ProviderMetrics(rs) == LET n == Total(LAMBDA r : r.providers, rs) IN [failures |-> n, rate |-> Rate(n, Len(rs))]
\* Every block counts as an attack that was stopped, and every task without one as benign:
\* the difference is below zero when tasks have more blocks than there are tasks.
SecurityMetrics(rs) ==
  LET blocks == Total(LAMBDA r : r.blocks, rs)
  IN [attacks |-> blocks, blocked |-> blocks, benign |-> Len(rs) - blocks, block_rate |-> IF blocks > 0 THEN Scale ELSE 0]
QualityMetrics(rs) == [verified |-> PrimaryMetrics(rs).verified, critical |-> Count(LAMBDA r : r.error # "none", rs)]

\* The score: five rates weighted 40, 20, 15, 15 and 10.  Efficiency looks at the tasks that
\* succeeded only, and is best at two calls a task (and at one and a half iterations, which
\* are left out: they are scored as the calls are).
Abs(n) == IF n < 0 THEN -n ELSE n
AtLeastZero(n) == IF n < 0 THEN 0 ELSE n
Efficiency(rs) ==
  LET won == Successful(rs)
  IN IF won = <<>> THEN 0 ELSE AtLeastZero(Scale - Abs(EfficiencyMetrics(rs).per_success - 2 * Scale) \div 2)
RawMetrics(rs) == [task_success |-> PrimaryMetrics(rs).success, verification |-> PrimaryMetrics(rs).verified,
                   review |-> PrimaryMetrics(rs).reviewed, security |-> Scale - PrimaryMetrics(rs).security,
                   efficiency |-> Efficiency(rs)]
Weights == [task_success |-> 40, verification |-> 20, review |-> 15, security |-> 15, efficiency |-> 10]
Score(rs) ==
  IF rs = <<>> THEN 0
  ELSE LET raw == RawMetrics(rs)
       IN SumFunction([m \in DOMAIN Weights |-> raw[m] * Weights[m]])

\* Statistics of a list of whole numbers.  A median is doubled and a percentile is a hundred
\* times its value, so that both stay whole.
Sorted(values) == SortSeq(values, <)
Median(values) ==
  LET s == Sorted(values)  mid == Len(s) \div 2
  IN IF values = <<>> THEN 0 ELSE IF (Len(s) % 2) = 0 THEN s[mid] + s[mid + 1] ELSE 2 * s[mid + 1]
\* The bug that rounds the rank up to a member of the list.
NearestRank(values, p) ==
  LET s == Sorted(values)  k == p * (Len(s) - 1)
  IN IF values = <<>> THEN 0 ELSE 100 * s[(k + 99) \div 100 + 1]
Percentile(values, p) ==
  LET s == Sorted(values)
      k == p * (Len(s) - 1)
      f == k \div 100
  IN IF values = <<>> THEN 0
     ELSE IF (k % 100) = 0 THEN 100 * s[f + 1]
     ELSE s[f + 1] * (100 - (k % 100)) + s[f + 2] * (k % 100)
Summary(values) ==
  [count |-> Len(values), median |-> Median(values), min |-> IF values = <<>> THEN 0 ELSE Sorted(values)[1],
   max |-> IF values = <<>> THEN 0 ELSE Sorted(values)[Len(values)],
   p |-> [p \in {50, 75, 90, 95, 99} |-> Percentile(values, p)]]

\* The two classes of one result.  A label the result brings for either is kept; provider
\* failures come before everything else.
InfrastructureOfError(r) ==
  CASE r.providers > 0         -> "provider_failure"
    [] r.providers = 0 /\ r.error = "environment" -> "environment_failure"
    [] r.providers = 0 /\ r.error = "harness"     -> "harness_failure"
    [] OTHER                   -> "agent_failure"
InfrastructureType(r) == IF r.blamed # "none" THEN r.blamed ELSE InfrastructureOfError(r)
TypeOfWord(r) ==
  CASE r.error \in {"planning", "context", "model", "tool"} -> r.error
    [] r.error = "crash"        -> "durability"
    [] r.error \in {"verification", "review"} -> r.error
    [] OTHER -> CASE ~r.verified -> "verification" [] r.verified /\ ~r.reviewed -> "review" [] OTHER -> "unknown"
FailureTypeByWord(r) == IF r.label # "none" THEN "tool" ELSE TypeOfWord(r)
FailureType(r) ==
  CASE r.label # "none" -> "tool"
    [] r.label = "none" /\ r.providers > 0 -> "provider_failure"
    [] r.label = "none" /\ r.providers = 0 /\ Violating(r) -> "security_block"
    [] r.label = "none" /\ r.providers = 0 /\ ~Violating(r) /\ Recovering(r) /\ ~r.success -> "recovery_exhaustion"
    [] OTHER -> TypeOfWord(r)
FailureRecord(r) ==
  LET first == IF r.label # "none" THEN "tool" ELSE "unknown"
  IN [infrastructure |-> InfrastructureType(r), type |-> FailureType(r), attempted |-> Recovering(r),
      succeeded |-> Recovering(r) /\ r.success, initial |-> first,
      fatal |-> CASE ~Recovering(r) -> first [] Recovering(r) /\ ~r.success -> "recovery_exhausted" [] OTHER -> ""]
Failed(rs) == SelectSeq(rs, LAMBDA r : ~r.success)
Records(rs) == [i \in DOMAIN Failed(rs) |-> FailureRecord(Failed(rs)[i])]
Distribution(rs, field) ==
  LET values == {Records(rs)[i][field] : i \in DOMAIN Records(rs)}
  IN [v \in values |-> Cardinality({i \in DOMAIN Records(rs) : Records(rs)[i][field] = v})]
\* Only failed results are looked at, and a recovery succeeded only with its task: no failure
\* is ever counted as recoverable.
ErrorBudget(rs) ==
  LET recoverable == Cardinality({i \in DOMAIN Records(rs) : Records(rs)[i].succeeded})
  IN [failed |-> Len(Failed(rs)), first |-> Distribution(rs, "initial"), fatal |-> Distribution(rs, "fatal"),
      recoverable |-> recoverable, unrecoverable |-> Len(Failed(rs)) - recoverable]

\* Two experiments side by side: a difference of less than two in a hundred is none.
ExtractMetrics(rs) == [success_rate |-> PrimaryMetrics(rs).success, calls |-> EfficiencyMetrics(rs).average]
Conclusion(a, b) ==
  LET diff == ExtractMetrics(b).success_rate - ExtractMetrics(a).success_rate
  IN CASE 100 * Abs(diff) < 2 * Scale -> "none" [] 100 * diff >= 2 * Scale -> "B" [] OTHER -> "A"
\* A registered baseline has a rate and no results: the comparison is with an empty list.
CompareAgainstBaseline(rs, percent) == Conclusion(rs, <<>>)
RegressionSignSwapped(a, b) ==
  LET was == ExtractMetrics(a)  is == ExtractMetrics(b)
  IN [success_rate |-> 100 * (is.success_rate - was.success_rate) > 5 * Scale,
      calls        |-> was.calls # 0 /\ 10 * (is.calls - was.calls) > was.calls]
Regressions(a, b) ==
  LET was == ExtractMetrics(a)  is == ExtractMetrics(b)
  IN [success_rate |-> 100 * (is.success_rate - was.success_rate) < -(5 * Scale),
      calls        |-> was.calls # 0 /\ 10 * (is.calls - was.calls) > was.calls]

\* An experiment: its counters are sums over the results it was given.  Without results it
\* makes one success for every task and repetition.
Placeholders(tasks, repeat) ==
  [i \in 1..(tasks * repeat) |-> [success |-> TRUE, verified |-> FALSE, reviewed |-> FALSE, recoveries |-> 0, blocks |-> 0,
                                  providers |-> 0, calls |-> 1, error |-> "none", label |-> "none", blamed |-> "none"]]
Experiment(rs) == [total |-> Len(rs), successful |-> Len(Successful(rs)), failed |-> Len(Failed(rs)),
                   calls |-> EfficiencyMetrics(rs).calls, metrics |-> PrimaryMetrics(rs), score |-> Score(rs),
                   budget |-> ErrorBudget(rs)]

\* The results of an experiment by the level, tier or category of their task.  A result whose
\* task has none is in no group, and an experiment without results makes one success a task.
Dataset == [bug_fix |-> "easy", feature |-> "easy", refactor |-> "medium", debugging |-> "hard", security |-> "medium",
            multi_file |-> "medium", edge_case |-> "easy", regression |-> "hard", performance |-> "medium", expert |-> "expert"]
ComputeAggregate(rs) == [count |-> Len(rs), success |-> Rate(Len(Successful(rs)), Len(rs)), calls |-> EfficiencyMetrics(rs).average]
AggregateBy(groupOf, tasks, rs) ==
  LET known == {i \in DOMAIN rs : tasks[i] \in DOMAIN groupOf}
      members(g) == SelectSeq([i \in DOMAIN rs |-> i], LAMBDA i : i \in known /\ groupOf[tasks[i]] = g)
  IN [g \in {groupOf[tasks[i]] : i \in known} |-> ComputeAggregate([k \in DOMAIN members(g) |-> rs[members(g)[k]]])]
LearningCurve(tasks, rs) ==
  LET by == AggregateBy(Dataset, tasks, rs)
  IN [level \in DOMAIN by \cap {"easy", "medium", "hard", "expert"} |-> by[level]]
\* Features an ablation turns off stay as they are in every other respect.
CreateAblationExperiment(features, disabled) == [f \in DOMAIN features \cup disabled |-> f \notin disabled /\ features[f]]
NondeterminismSources(model, temperature, seed) ==
  (IF model # "" THEN {"external_model_calls"} ELSE {}) \cup (IF temperature > 0 THEN {"model_temperature"} ELSE {})
  \cup (IF seed = 0 THEN {"no_random_seed"} ELSE {})

\* The figures agree with one another: (MedianIsP50) a percentile of 50 is the median, and a
\* higher percentile is never lower; (RegressionIsConcluded) a success rate that regressed
\* makes the comparison name the baseline; (ProvidersAreBlamedAlike) the two classes of a
\* failure that brings neither blame the provider together; (BudgetsAddUp) every failure is in one
\* class.  The code computes each pair of figures in two places.
MedianIsP50(rs) ==
  LET calls == [i \in DOMAIN rs |-> rs[i].calls]
  IN /\ Percentile(calls, 50) = 50 * Median(calls)
     /\ \A p, q \in {0, 50, 75, 90, 95, 99, 100} : p <= q => Percentile(calls, p) <= Percentile(calls, q)
RegressionIsConcluded(a, b) == Regressions(a, b).success_rate => Conclusion(a, b) = "A"
ProvidersAreBlamedAlike(r) ==
  r.label = "none" /\ r.blamed = "none" => (InfrastructureType(r) = "provider_failure" <=> FailureType(r) = "provider_failure")
BudgetsAddUp(rs) ==
  LET levels == LearningCurve([i \in DOMAIN rs |-> IF i = 1 THEN "bug_fix" ELSE "expert"], rs)
  IN /\ SumFunction([l \in DOMAIN levels |-> levels[l].count]) = Len(rs)
     /\ \A field \in {"infrastructure", "type", "initial", "fatal"} : SumFunction(Distribution(rs, field)) = ErrorBudget(rs).failed

\* "Compare an experiment against a registered baseline": when the baseline is well ahead, it
\* is the baseline (configuration B) that the comparison names.
BaselineCanWin(rs, percent) ==
  100 * PrimaryMetrics(rs).success + 2 * Scale <= percent * Scale => CompareAgainstBaseline(rs, percent) = "B"
=============================================================================
