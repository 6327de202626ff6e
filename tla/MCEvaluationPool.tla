-------------------------- MODULE MCEvaluationPool --------------------------
(***************************************************************************)
(* The evaluations asked for: small ones that are run, ones of many cases, *)
(* and many that are only validated, for the plans they come to.           *)
(***************************************************************************)
EXTENDS EvaluationPool

Days(n)   == [NoDuration EXCEPT !.days = n]
Months(n) == [NoDuration EXCEPT !.months = n]

Free == [objective |-> "", order |-> "", weights |-> <<>>]

\* A request with nothing but a range: the last days of one January to the end of a March.
Plain ==
  [command |-> "validate", option |-> 0, parallelism |-> 0,
   from |-> 29, to |-> 90, mode |-> "explicit", items |-> <<>>,
   window |-> NoDuration, step |-> NoDuration,
   parameters |-> <<>>, search |-> NoSearch,
   report |-> NoSelection, metrics |-> NoSelection, runBenchmark |-> FALSE, regimeBenchmark |-> FALSE,
   constraints |-> <<>>, ranking |-> Free,
   train |-> NoDuration, test |-> NoDuration, advance |-> NoDuration,
   select |-> Free @@ [constraints |-> <<>>]]

Parameter(path, values) == [path |-> path, values |-> values]
Sizing(values)          == <<Parameter("sizing.value", values)>>
Window                  == Parameter("indicators.fast.params.window", <<2, 3>>)

-----------------------------------------------------------------------------
(* Requests that are run *)

AtLeastOne == [min_cagr_gte |-> 1]

\* Three cases of one period, two at a time.
ThreeSets ==
  [Plain EXCEPT !.command = "run", !.parallelism = 2, !.parameters = Sizing(<<1, 2, 3>>),
                !.constraints = AtLeastOne, !.ranking.objective = "cagr"]

\* The order is wrong, or the option.
Wrong ==
  {[ThreeSets EXCEPT !.ranking.order = "up", !.parameters = <<>>], [ThreeSets EXCEPT !.option = 0 - 1]}

\* Smaller is better, and more workers are asked for than there are cases.
Ascending == [ThreeSets EXCEPT !.parameters = Sizing(<<1, 2>>), !.option = 3, !.ranking.order = "asc"]

\* Two cases, and then a walk-forward of one step whose best is not that of the cases.
ThenWalk ==
  [ThreeSets EXCEPT !.parameters = Sizing(<<1, 2>>), !.train = Months(1), !.test = Months(1),
                    !.select = [objective |-> "sharpe", order |-> "", weights |-> <<>>,
                                constraints |-> [max_drawdown_lte |-> 1]]]

\* A walk-forward alone, of two steps.
WalkAlone ==
  [ThreeSets EXCEPT !.mode = "walk_forward", !.train = Days(30), !.test = Days(15),
                    !.parameters = Sizing(<<1, 2>>), !.ranking = [objective |-> "weighted_score", order |-> "",
                                                                  weights |-> [cagr |-> 0 - 1]]]

\* Three draws of two values: some set comes twice.
Drawn ==
  [ThreeSets EXCEPT !.parameters = <<>>, !.mode = "walk_forward", !.train = Months(1), !.test = Months(1),
                    !.search = [mode |-> "random", samples |-> 3,
                                parameters |-> <<[path |-> "sizing.value", values |-> <<1, 2>>, range |-> <<>>]>>]]

Run == Wrong \cup {ThreeSets, Ascending, ThenWalk, WalkAlone, Drawn}

-----------------------------------------------------------------------------
(* Requests of enough cases that their ids do not come in the order of their numbers *)

\* One worker: it is the ties that matter here.
Ten == [ThreeSets EXCEPT !.parallelism = 1, !.parameters = Sizing([i \in 1..10 |-> i])]

TenTrained ==
  [Ten EXCEPT !.mode = "walk_forward", !.train = Months(1), !.test = Months(1), !.constraints = <<>>]

ManyCases == {Ten, TenTrained}

\* Of so many cases all but two come to the same, and none fails or is cancelled.
AsUsual(o) == Range(o.metrics) \subseteq {1} /\ o.tags \subseteq {"bull", "low_vol"}

Bounds ==
  request \in ManyCases =>
    /\ Cardinality({key \in DOMAIN truth : ~AsUsual(truth[key])}) <= 2
    /\ firstErr = "none" /\ ~parentDone

\* strconv.Itoa, and the strings that it makes compared digit by digit.
Digits(n) ==
  LET digits[k \in Nat] == IF k < 10 THEN <<k>> ELSE Append(digits[k \div 10], k % 10)
  IN  digits[n]

DigitsBefore(a, b) ==
  \/ \E k \in DOMAIN a \cap DOMAIN b : a[k] < b[k] /\ SubSeq(a, 1, k - 1) = SubSeq(b, 1, k - 1)
  \/ IsStrictPrefix(a, b)

ASSUME IdsCompareAsStrings ==
  \A i, j \in 1..120 : IdBefore(i, j) = DigitsBefore(Digits(i), Digits(j))

-----------------------------------------------------------------------------
(* Requests that are validated *)

Lengths == {Days(10), Days(31), Months(1), [Months(1) EXCEPT !.days = 1], [NoDuration EXCEPT !.years = 1]}

Starts == {1, 31, 334}

ByPeriods ==
  {[Plain EXCEPT !.mode = m, !.from = f, !.to = f + n] :
     m \in {"explicit", "yearly", "rolling", "expanding", "weekly"}, f \in Starts, n \in {0 - 1, 0, 400}} \cup
  {[Plain EXCEPT !.mode = m, !.from = f, !.to = f + n, !.window = w, !.step = s] :
     m \in {"rolling", "expanding"}, f \in Starts, n \in {59, 400},
     w \in Lengths, s \in Lengths \cup {NoDuration}} \cup
  {[Plain EXCEPT !.items = <<Period(a, b), Period(30, 50)>>] : a \in {29, 40}, b \in {29, 41}}

BySteps ==
  {[Plain EXCEPT !.mode = m, !.from = f, !.to = f + 100, !.train = a, !.test = b, !.advance = s,
                 !.parameters = Sizing(<<1, 2>>)] :
     m \in {"explicit", "walk_forward"}, f \in Starts, a \in Lengths \cup {NoDuration},
     b \in {NoDuration, Days(10), Months(1)}, s \in {NoDuration, Days(31), Months(1)}}

Ranges == {<<>>, [min |-> 0, max |-> 3, step |-> 2], [min |-> 1, max |-> 2, step |-> 1],
           [min |-> 2, max |-> 1, step |-> 1], [min |-> 1, max |-> 2, step |-> 0]}

ByParameters ==
  {[Plain EXCEPT !.mode = "yearly", !.parameters = ps] :
     ps \in {<<Window>> \o Sizing(<<1, 2, 3>>), Sizing(<<0, 1>>), Sizing(<<>>),
             <<Parameter("risk.max_positions", <<0, 5>>)>>, <<Parameter("entry", <<1>>)>>}} \cup
  {[Plain EXCEPT !.parameters = ps, !.search = [mode |-> m, samples |-> n, parameters |-> searched]] :
     ps \in {<<>>, Sizing(<<1>>)}, m \in {"", "bounded", "random", "bayesian"}, n \in {0, 2},
     searched \in {<<>>} \cup
       {<<[path |-> "sizing.value", values |-> vs, range |-> range]>> : vs \in {<<>>, <<1, 2>>}, range \in Ranges}}

Weighted(order, weights) == [objective |-> "weighted_score", order |-> order, weights |-> weights]
Sharpe == [Free EXCEPT !.objective = "sharpe"]

Rankings ==
  {<<Free, Free>>, <<[Free EXCEPT !.objective = "alpha"], Free>>, <<Sharpe, Weighted("", <<>>)>>,
   <<Weighted("asc", [cagr |-> 1, benchmark_beta |-> 0 - 1]), [Free EXCEPT !.weights = [exposure |-> 1]]>>,
   <<Weighted("asc", [turnover |-> 0]), Free>>, <<Free, Sharpe>>}

ByMetrics ==
  {[Plain EXCEPT !.metrics = [preset |-> p, include |-> i, exclude |-> e],
                 !.ranking = ranking[1], !.select = ranking[2] @@ [constraints |-> limits[2]],
                 !.constraints = limits[1], !.regimeBenchmark = b, !.train = Months(1), !.test = Months(1)] :
     p \in {"", "research", "all"}, i \in {{}, {"sharpe", "exposure"}, {"benchmark_beta"}},
     e \in {{}, {"total_return"}, {"calmar", "sharpe"}, {"exposure", "cagr"}},
     ranking \in Rankings, b \in BOOLEAN,
     limits \in {<< <<>>, <<>> >>, <<AtLeastOne, <<>> >>, << <<>>, [max_drawdown_lte |-> 1, max_exposure_lte |-> 1]>>}}

AllRequests == Run \cup ManyCases \cup ByPeriods \cup BySteps \cup ByParameters \cup ByMetrics

\* One direction and the other, at one volatility.
TwoTags == {{"bull", "low_vol"}, {"bear", "low_vol"}}
=============================================================================
