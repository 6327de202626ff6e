--------------------------- MODULE EvaluationPlan ---------------------------
(***************************************************************************)
(* packages/backtest evaluation.go: what an evaluation is made of. A       *)
(* request (the Evaluation document with its BacktestRun) becomes a plan:  *)
(* the cases, one for each period and parameter set, and the train and     *)
(* test cases of each step of the walk-forward. Of results it makes a      *)
(* ranking and a split by regime.                                          *)
(*                                                                         *)
(* A date is the number of a day. The calendar is that of years without a  *)
(* 29 February. A parameter set is a function from paths to numbers.       *)
(***************************************************************************)
EXTENDS Integers, Sequences, FiniteSets, SequencesExt, FiniteSetsExt, TLC

-----------------------------------------------------------------------------
(* Dates                                                                   *)

DaysBeforeMonth == <<0, 31, 59, 90, 120, 151, 181, 212, 243, 273, 304, 334>>

YearOf(day)   == (day - 1) \div 365
YearStart(y)  == 365 * y + 1
MonthStart(m) == YearStart((m - 1) \div 12) + DaysBeforeMonth[((m - 1) % 12) + 1]
MonthOf(day)  ==
  12 * YearOf(day) + Cardinality({m \in 1..12 : DaysBeforeMonth[m] <= (day - 1) % 365})

\* time.AddDate: the same day of another month, of which days that the month has
\* not run on into the next one; then the days.
AddDuration(day, d) ==
  MonthStart(MonthOf(day) + 12 * d.years + d.months) + (day - MonthStart(MonthOf(day))) + d.days

NoDuration == [years |-> 0, months |-> 0, days |-> 0]

Period(from, to) == [from |-> from, to |-> to]

YearlyPeriods(from, to) ==
  [i \in 1..(YearOf(to) - YearOf(from) + 1) |->
     LET y == YearOf(from) + i - 1
     IN  Period(Max({from, YearStart(y)}), Min({to, YearStart(y + 1) - 1}))]

\* Windows of one length, each a step after the one before, until one does not fit.
RollingPeriods(from, to, window, step) ==
  LET end(start) == AddDuration(start, window) - 1
      roll[start \in Nat] ==
        IF start > to \/ end(start) > to THEN <<>>
        ELSE <<Period(start, end(start))>> \o roll[AddDuration(start, step)]
  IN  roll[from]

\* Windows from the same day on, whose ends are a step apart.
ExpandingPeriods(from, to, window, step) ==
  LET grow[end \in Nat] ==
        IF end > to THEN <<>> ELSE <<Period(from, end)>> \o grow[AddDuration(end, step)]
  IN  grow[AddDuration(from, window) - 1]

Some(xs) == IF xs = <<>> THEN {} ELSE {xs}

\* The periods of the cases; none at all for a request without valid ones. A
\* walk-forward of its own has no cases beside its steps.
EvaluationPeriods(r) ==
  LET step == IF r.step = NoDuration THEN r.window ELSE r.step
  IN  IF r.to < r.from THEN {}
      ELSE CASE r.mode = "explicit"     -> {IF r.items = <<>> THEN <<Period(r.from, r.to)>> ELSE r.items}
             [] r.mode = "yearly"       -> {YearlyPeriods(r.from, r.to)}
             [] r.mode = "rolling"      -> IF r.window = NoDuration THEN {}
                                           ELSE Some(RollingPeriods(r.from, r.to, r.window, step))
             [] r.mode = "expanding"    -> IF r.window = NoDuration THEN {}
                                           ELSE Some(ExpandingPeriods(r.from, r.to, r.window, step))
             [] r.mode = "walk_forward" -> {<<>>}
             [] OTHER                   -> {}

\* Slip: the test begins on the last day of the training.
StepsFromLastDay(r) ==
  LET advance == IF r.advance = NoDuration THEN r.test ELSE r.advance
      walk[start \in Nat] ==
        LET trainEnd == AddDuration(start, r.train) - 1
            testEnd  == AddDuration(trainEnd, r.test) - 1
        IN  IF testEnd > r.to THEN <<>>
            ELSE <<[train |-> Period(start, trainEnd), test |-> Period(trainEnd, testEnd)]>>
                 \o walk[AddDuration(start, advance)]
  IN  walk[r.from]

\* The train and test periods of the walk-forward. Without a step of its own it
\* advances by the length of a test.
WalkForwardSteps(r) ==
  LET advance == IF r.advance = NoDuration THEN r.test ELSE r.advance
      walk[start \in Nat] ==
        LET trainEnd == AddDuration(start, r.train) - 1
            testEnd  == AddDuration(trainEnd + 1, r.test) - 1
        IN  IF testEnd > r.to THEN <<>>
            ELSE <<[train |-> Period(start, trainEnd), test |-> Period(trainEnd + 1, testEnd)]>>
                 \o walk[AddDuration(start, advance)]
  IN  walk[r.from]

\* No walk-forward is asked for, or one of at least one step.
WalkForwards(r) ==
  IF r.train = NoDuration /\ r.test = NoDuration THEN {<<>>}
  ELSE IF NoDuration \in {r.train, r.test} THEN {}
  ELSE Some(WalkForwardSteps(r))

-----------------------------------------------------------------------------
(* Parameters: a sequence of [path, values] in the order of the paths      *)

\* The map m in which key has the value v.
With(m, key, v) == [k \in DOMAIN m \cup {key} |-> IF k = key THEN v ELSE m[k]]

\* Every combination of values, the first path varying slowest; none if a path has
\* no values.
ParameterGrid(ps) ==
  LET grid[k \in 0..Len(ps)] ==
        IF k = 0 THEN << <<>> >>
        ELSE LET n == Len(ps[k].values)
             IN  [i \in 1..(Len(grid[k - 1]) * n) |->
                    With(grid[k - 1][((i - 1) \div n) + 1], ps[k].path, ps[k].values[((i - 1) % n) + 1])]
  IN  IF \E k \in DOMAIN ps : ps[k].values = <<>> THEN {} ELSE {grid[Len(ps)]}

\* The values of a parameter that is searched: those listed, or a range; an
\* incomplete range, one without a positive step or the wrong way round has none.
SearchValues(p) ==
  IF p.values # <<>> THEN p.values
  ELSE IF p.range = <<>> \/ p.range.step <= 0 THEN <<>>
  ELSE [i \in 1..(((p.range.max - p.range.min) \div p.range.step) + 1) |->
          p.range.min + (i - 1) * p.range.step]

\* "bounded" is the grid of all values, "random" any draw of samples from it, in
\* which a set may come twice. Other modes have no optimizer.
SearchedSets(search) ==
  LET grid == ParameterGrid([k \in DOMAIN search.parameters |->
                [path   |-> search.parameters[k].path,
                 values |-> SearchValues(search.parameters[k])]])
  IN  IF search.parameters = <<>> THEN {}
      ELSE CASE search.mode = "bounded" -> grid
             [] search.mode = "random" /\ search.samples > 0
                                        -> UNION {[1..search.samples -> ToSet(sets)] : sets \in grid}
             [] OTHER                   -> {}

NoSearch == [mode |-> "", samples |-> 0, parameters |-> <<>>]

ParameterSets(r) ==
  IF r.search = NoSearch THEN ParameterGrid(r.parameters)
  ELSE IF r.parameters = <<>> THEN SearchedSets(r.search)
  ELSE {}

\* The paths that a strategy with an indicator "fast" has, and what compiles there.
Applicable(set) ==
  \A path \in DOMAIN set :
    \/ path = "risk.max_positions"
    \/ path \in {"sizing.value", "indicators.fast.params.window"} /\ set[path] > 0

-----------------------------------------------------------------------------
(* Metrics *)

CoreMetrics == {"total_return", "final_equity", "max_drawdown", "trade_count", "win_rate"}

ResearchMetrics ==
  {"total_return", "cagr", "max_drawdown", "volatility", "sharpe", "calmar", "turnover",
   "trade_count", "win_rate", "profit_factor", "exposure", "unfilled_count", "data_issue_count"}

BenchmarkMetrics ==
  {"benchmark_total_return", "excess_return", "benchmark_max_drawdown", "relative_drawdown",
   "monthly_win_rate_vs_benchmark", "benchmark_alpha", "benchmark_beta"}

RegisteredMetrics ==
  CoreMetrics \cup ResearchMetrics \cup BenchmarkMetrics \cup {"average_trade_return", "realized_pnl"}

NoSelection == [preset |-> "", include |-> {}, exclude |-> {}]

\* The metrics that a selection comes to: its preset, what it includes, without what
\* it excludes.
Preset(selection, benchmark) ==
  IF selection.preset # "research" THEN CoreMetrics
  ELSE IF benchmark THEN ResearchMetrics \cup BenchmarkMetrics
  ELSE ResearchMetrics

Selected(selection, benchmark) ==
  (Preset(selection, benchmark) \cup selection.include) \ selection.exclude

\* Only what is selected can be excluded, and a metric against the benchmark needs one.
ValidSelection(selection, benchmark) ==
  /\ selection.preset \in {"", "core", "research"}
  /\ \A m \in selection.include \cup selection.exclude :
       m \in RegisteredMetrics /\ (m \in BenchmarkMetrics => benchmark)
  /\ selection.exclude \subseteq Preset(selection, benchmark) \cup selection.include

\* What a constraint reads, and whether it is an upper limit. The constraints of a
\* request are a function from some of them to their limits.
ConstraintMetric ==
  [max_drawdown_lte |-> "max_drawdown", min_cagr_gte |-> "cagr", max_turnover_lte |-> "turnover",
   min_trade_count_gte |-> "trade_count", max_exposure_lte |-> "exposure",
   max_unfilled_count_lte |-> "unfilled_count", max_data_issue_count_lte |-> "data_issue_count"]

LowerLimits == {"min_cagr_gte", "min_trade_count_gte"}

\* A metric that was not computed is read as 0. A drawdown counts without its sign.
Actual(metrics, c) ==
  LET m     == ConstraintMetric[c]
      value == IF m \in DOMAIN metrics THEN metrics[m] ELSE 0
  IN  IF m = "max_drawdown" /\ value < 0 THEN 0 - value ELSE value

PassesConstraints(metrics, constraints) ==
  \A c \in DOMAIN constraints :
    IF c \in LowerLimits THEN Actual(metrics, c) >= constraints[c]
    ELSE Actual(metrics, c) <= constraints[c]

Objective(ranking) == IF ranking.objective = "" THEN "calmar" ELSE ranking.objective

\* A ranking by a metric, or by a weighted sum of metrics.
ObjectiveMetrics(ranking) ==
  IF Objective(ranking) = "weighted_score" THEN DOMAIN ranking.weights ELSE {Objective(ranking)}

ObjectiveValue(metrics, ranking) ==
  IF Objective(ranking) = "weighted_score"
  THEN MapThenSumSet(LAMBDA m : metrics[m] * ranking.weights[m], DOMAIN ranking.weights)
  ELSE metrics[Objective(ranking)]

HasObjective(metrics, ranking) ==
  /\ ObjectiveMetrics(ranking) # {}
  /\ ObjectiveMetrics(ranking) \subseteq DOMAIN metrics

ValidObjective(ranking) ==
  CASE ranking.objective = ""               -> TRUE
    [] ranking.objective = "weighted_score" -> /\ ranking.weights # <<>>
                                               /\ \A m \in DOMAIN ranking.weights :
                                                    m \in RegisteredMetrics /\ ranking.weights[m] # 0
    [] OTHER                                -> ranking.objective \in RegisteredMetrics

\* What the train cases of a walk-forward are ranked by and held to: its own
\* selection, and of the evaluation what that one leaves open.
WalkForwardRanking(r) ==
  [objective |-> IF r.select.objective = "" THEN Objective(r.ranking) ELSE r.select.objective,
   order     |-> IF r.select.order = "" THEN r.ranking.order ELSE r.select.order,
   weights   |-> IF r.select.weights = <<>> THEN r.ranking.weights ELSE r.select.weights]

WalkForwardConstraints(r) ==
  IF r.select.constraints = <<>> THEN r.constraints ELSE r.select.constraints

\* The metrics that a request needs for its rankings and constraints.
RequiredMetrics(r) ==
  (({Objective(r.ranking), r.select.objective} \ {"", "weighted_score"})
    \cup DOMAIN r.ranking.weights \cup DOMAIN r.select.weights)
  \cup {ConstraintMetric[c] : c \in DOMAIN r.constraints \cup DOMAIN r.select.constraints}

\* Slip: what is required is included, and excluded again.
IncludeRequired(r) ==
  [r.metrics EXCEPT !.include = @ \cup RequiredMetrics(r)]

\* The selection of the request with what it needs, and never without it.
MetricsOf(r) ==
  [r.metrics EXCEPT !.include = @ \cup RequiredMetrics(r), !.exclude = @ \ RequiredMetrics(r)]

\* The selection of a case: that of the evaluation, if it has one, in place of that of the run.
CaseSelection(r) == IF MetricsOf(r) = NoSelection THEN r.report ELSE MetricsOf(r)

\* A case runs against the benchmark of the run, or else that of the regime.
HasBenchmark(r) == r.runBenchmark \/ r.regimeBenchmark

\* What "validate evaluation" says will be computed.
ReportedMetrics(r) ==
  Selected(IF MetricsOf(r) = NoSelection THEN [NoSelection EXCEPT !.preset = "research"] ELSE MetricsOf(r),
           HasBenchmark(r))

-----------------------------------------------------------------------------
(* The plan *)

CasesOf(periods, sets, computed) ==
  LET n == Len(sets)
  IN  [i \in 1..(Len(periods) * n) |->
         [period     |-> periods[((i - 1) \div n) + 1],
          parameters |-> sets[((i - 1) % n) + 1],
          metrics    |-> computed]]

\* Checked before anything else. Order is checked when results are ranked.
ValidRequest(r) ==
  /\ ValidObjective(r.ranking) /\ ValidObjective(r.select)
  /\ r.mode = "walk_forward" => r.train # NoDuration /\ r.test # NoDuration
  /\ r.parallelism >= 0

PlanOf(periods, sets, steps, computed) ==
  [cases |-> CasesOf(periods, sets, computed),
   steps |-> [k \in DOMAIN steps |->
                [train |-> CasesOf(<<steps[k].train>>, sets, computed),
                 test  |-> CasesOf(<<steps[k].test>>, sets, computed)]]]

\* The plans that a request may become, before each of their cases is compiled.
Drafts(r) ==
  IF ~ValidRequest(r) THEN {}
  ELSE {PlanOf(periods, sets, steps, Selected(CaseSelection(r), HasBenchmark(r))) :
          periods \in EvaluationPeriods(r), sets \in ParameterSets(r), steps \in WalkForwards(r)}

CaseCompiles(case) == case.period.from <= case.period.to /\ Applicable(case.parameters)

\* Every case compiles. Metrics are the same for all.
Compiles(r, draft) ==
  /\ ValidSelection(CaseSelection(r), HasBenchmark(r))
  /\ \A i \in DOMAIN draft.cases : CaseCompiles(draft.cases[i])
  /\ \A k \in DOMAIN draft.steps : \A i \in DOMAIN draft.steps[k].train :
       CaseCompiles(draft.steps[k].train[i]) /\ CaseCompiles(draft.steps[k].test[i])

-----------------------------------------------------------------------------
(* Results: a sequence of [metrics, tags, passed, rank, value], one a case  *)

ValidOrder(ranking) == ranking.order \in {"", "asc", "desc"}

Passing(results) == {i \in DOMAIN results : results[i].passed}

\* The least power of ten above n.
Tens(n) ==
  LET tens[m \in 0..n] == IF m = 0 THEN 1 ELSE 10 * tens[m \div 10]
  IN  tens[n]

\* strings.Compare of the ids "case-i" and "case-j", whose numbers are not padded: digit
\* by digit, and a number before those that it begins.
IdBefore(i, j) ==
  LET a == i * Tens(j)
      b == j * Tens(i)
  IN  a < b \/ (a = b /\ i < j)

\* Slip: ties go to the case that was planned first.
RanksInOrder(results, ranking, i, j) ==
  LET a == ObjectiveValue(results[i].metrics, ranking)
      b == ObjectiveValue(results[j].metrics, ranking)
  IN  IF a = b THEN i < j ELSE IF ranking.order = "asc" THEN a < b ELSE a > b

\* Better objectives first, of equal ones the smaller id.
RanksBefore(results, ranking, i, j) ==
  LET a == ObjectiveValue(results[i].metrics, ranking)
      b == ObjectiveValue(results[j].metrics, ranking)
  IN  IF a = b THEN IdBefore(i, j) ELSE IF ranking.order = "asc" THEN a < b ELSE a > b

\* The rank of a case that passed: behind all that rank before it.
RankOf(results, ranking, i) ==
  Cardinality({j \in Passing(results) : RanksBefore(results, ranking, j, i)}) + 1

\* The cases that passed, best first.
Ranking(results, ranking) ==
  [n \in 1..Cardinality(Passing(results)) |->
     CHOOSE i \in Passing(results) : RankOf(results, ranking, i) = n]

\* Results with the rank and objective of those that are ranked.
WithRanks(results, ranking) ==
  [i \in DOMAIN results |->
     IF results[i].passed
     THEN [results[i] EXCEPT !.rank  = RankOf(results, ranking, i),
                             !.value = ObjectiveValue(results[i].metrics, ranking)]
     ELSE results[i]]

\* A case with a rank before one without, a better rank before another; without
\* ranks the greater objective, then the smaller id.
BetterRegimeCase(results, i, j) ==
  LET a == results[i]
      b == results[j]
  IN  IF (a.rank > 0) # (b.rank > 0) THEN a.rank > 0
      ELSE IF a.rank # b.rank THEN a.rank < b.rank
      ELSE IF a.value # b.value THEN a.value > b.value
      ELSE IdBefore(i, j)

\* The cases of each tag: how many, how many passed, and the best one.
RegimeSplit(results) ==
  LET tagged(tag) == {i \in DOMAIN results : tag \in results[i].tags}
      best(tag)   == FoldLeftDomain(LAMBDA b, i :
                       IF i \in tagged(tag) /\ (b = 0 \/ BetterRegimeCase(results, i, b)) THEN i ELSE b,
                       0, results)
  IN  [tag \in UNION {results[i].tags : i \in DOMAIN results} |->
         [cases  |-> Cardinality(tagged(tag)),
          passed |-> Cardinality(Passing(results) \cap tagged(tag)),
          best   |-> best(tag)]]

\* matchingTestCase: the first test case with the parameters of the train case chosen.
MatchingTestCase(step, chosen) ==
  Min({i \in DOMAIN step.test : step.test[i].parameters = step.train[chosen].parameters})
=============================================================================
