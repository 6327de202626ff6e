-------------------------- MODULE UniversePipeline --------------------------
(***************************************************************************)
(* packages/universe and service/universe: the symbols a strategy may      *)
(* trade, chosen again on every date of a schedule. A pipeline of steps    *)
(* turns rows into rows: sources bring them, transforms, filters, ranks    *)
(* and limits change them, a combine step runs pipelines of its own. The   *)
(* engine then looks up the snapshot that is valid at the time of a bar.   *)
(*                                                                         *)
(* A row is a candidate: symbol, security type (one market), trading date, *)
(* one price field, one computed field, one score, tags. Symbols, types    *)
(* and days are strings that do not read as numbers, written as numbers in *)
(* their order, 0 for "" or no date; Missing stands for a number that is   *)
(* not there, which sorts before all others. Negative ones are left out.   *)
(* A step gives a set of results: more than one where the code ranges over *)
(* a Go map, none where it returns an error.                               *)
(***************************************************************************)
EXTENDS FiniteSets, Lists

CONSTANTS
  Listings,   \* pairs of a symbol and its security type
  LastDay,    \* bound: days of data
  Prices,
  Scale,      \* returns are counted in units of 1/Scale
  WeekOf, MonthOf,   \* the calendar
  Histories,  \* what the store may hold: a price for each listing and day, or 0
  Plans       \* the plans that are asked for

Days == 1..LastDay

ASSUME UniverseAssumption ==
  /\ IsFiniteSet(Listings) /\ LastDay \in Nat \ {0}
  /\ Scale \in Nat
  /\ \A p \in Prices : p \in Nat \ {0} /\ Scale % p = 0
  /\ {WeekOf, MonthOf} \subseteq [Days -> Int]
  /\ \A d \in Days, e \in Days :
       d <= e => WeekOf[d] <= WeekOf[e] /\ MonthOf[d] <= MonthOf[e]
  /\ \A l \in Listings : l \in Int \X Int
  /\ Histories \subseteq [Listings -> [Days -> Prices \cup {0}]]
  /\ \A p \in Plans : p.from \in Days \cup {0} /\ {p.window, p.to} \subseteq Days \cup {0}

VARIABLES
  plan,       \* schedule, dates, pipeline, from, to, window, fallback
  bars,       \* the stored prices, 0 where there is no bar
  data,       \* ExecutionContext.DailyBars
  status,     \* "given", "compiled", "running", "done" or "failed"
  todo,       \* dates still to select for
  step,       \* the next step of the pipeline
  rows,       \* candidates
  snapshots

vars == <<plan, bars, data, status, todo, step, rows, snapshots>>

Missing == -2
NaN     == -1

\* The fields that a step may ask for, and those of them that are numbers.
Columns == {"type", "day", "val", "met", "score"}
Numbers == {"val", "met", "score"}

Row(symbol, type, day, val, tags) ==
  [symbol |-> symbol, type |-> type, day |-> day, val |-> val,
   met |-> Missing, score |-> Missing, tags |-> tags]

\* The tag that the store gives, and those of a plan or a file.
Tags == {"liquid"} \cup STRING

Rows == [symbol : Int, type : Int, day : Int, val : Int, met : Int, score : Int, tags : SUBSET Tags]

\* candidateKey, barKey
Key(r) == <<r.type, r.symbol>>
Keys(rs) == {Key(rs[i]) : i \in DOMAIN rs}
OfKey(rs, k) == Picked(rs, {i \in DOMAIN rs : Key(rs[i]) = k})

\* sortCandidates
RowLess(a, b) == Below(<<a.symbol, a.type, a.day>>, <<b.symbol, b.type, b.day>>)
SortRows(rs) == SortFunc(rs, RowLess)

\* floatField: what is no number, or not there, counts as 0.
Number(r, field) == IF field \notin Numbers \/ r[field] = Missing THEN 0 ELSE Max({NaN, r[field]})

\* compareValues: a NaN is neither less nor greater than any number, so it is equal.
Cmp(left, right) == IF NaN \in {left, right} /\ Missing \notin {left, right} THEN 0 ELSE left - right

\* sortCandidatesByField: "desc" turns the order of the symbols round as well ...
SortByField(rs, field, order) ==
  SortFunc(rs, LAMBDA a, b :
    IF order = "desc" THEN Below(<<0, b.symbol>>, <<Cmp(a[field], b[field]), a.symbol>>)
                      ELSE Below(<<Cmp(a[field], b[field]), a.symbol>>, <<0, b.symbol>>))

\* ... and sortCandidatesByFieldStableKey does not.
SortByScore(rs) ==
  SortFunc(rs, LAMBDA a, b : Below(<<b.score, a.type, a.symbol>>, <<a.score, b.type, b.symbol>>))

\* The limit of a rank step: 0 is none.
Top(rs, n) == IF n > 0 THEN Cut(rs, n) ELSE rs

-----------------------------------------------------------------------------
\* service/universe: what is read from the store before any step runs.
SubPipelines(s) == IF "pipelines" \in DOMAIN s THEN s.pipelines ELSE <<>>

\* The pipeline of a plan and those inside it.
PipelinesOf(p) == {p.pipeline} \cup UNION {Range(SubPipelines(s)) : s \in Range(p.pipeline)}

\* Every step of a pipeline and of the pipelines inside it.
AllSteps(pipeline) ==
  FlattenSeq([i \in DOMAIN pipeline |-> <<pipeline[i]>> \o FlattenSeq(SubPipelines(pipeline[i]))])

NeedsBars(pipeline) ==
  \E s \in Range(AllSteps(pipeline)) :
    s.id \in {"source.daily_bars", "source.instrument_master", "filter.has_daily_bars",
              "filter.listing_age"}

\* In calendar days, also for a window, which counts bars.
MaxLookback(pipeline) ==
  Max({0} \cup {s.lookback : s \in {t \in Range(AllSteps(pipeline)) : t.id = "source.daily_bars"}}
          \cup {s.window : s \in {t \in Range(AllSteps(pipeline)) : t.id = "transform.window_metrics"}})

\* The security types to query, 0 for all of them.
Queries(p) ==
  LET all   == AllSteps(p.pipeline)
      asked == Picked(all, {i \in DOMAIN all : all[i].id = "source.daily_bars"})
      types == [i \in DOMAIN asked |-> IF asked[i].type = 0 THEN p.fallback ELSE asked[i].type]
  IN  IF types = <<>> THEN <<p.fallback>> ELSE types

\* dedupeDailyBarQueries: queries that overlap without being equal both stay.
Distinct(seq) == Picked(seq, {i \in DOMAIN seq : \A j \in 1..(i - 1) : seq[j] # seq[i]})

\* A zero from loads everything, unless a lookback counts back from the end.
LoadFrom(p) ==
  LET back == MaxLookback(p.pipeline)
  IN  IF back = 0 THEN p.from ELSE (IF p.from = 0 THEN p.to ELSE p.from) - back

\* The listings by symbol and type.
ListingsInOrder == SortSet(Listings, Below)

BarsOf(type, d, stored) ==
  LET of == ListingsInOrder
  IN  Picked([k \in DOMAIN of |-> Row(of[k][1], of[k][2], d, stored[of[k]][d], {"liquid"})],
             {k \in DOMAIN of : type \in {0, of[k][2]} /\ stored[of[k]][d] > 0})

Query(type, from, to, stored) ==
  FlattenSeq([d \in Days |-> IF from <= d /\ d <= to THEN BarsOf(type, d, stored) ELSE <<>>])

\* loadDailyBars: by query, day and symbol.
Loaded(p, stored) ==
  LET types == Distinct(Queries(p))
  IN  IF ~NeedsBars(p.pipeline) THEN <<>>
      ELSE FlattenSeq([i \in DOMAIN types |-> Query(types[i], LoadFrom(p), p.to, stored)])

\* Slip: the bar of the selection date itself is taken as closed.
ClosedBarsOfToday(known, day) == Picked(known, {i \in DOMAIN known : known[i].day <= day})

\* closedBars
ClosedBars(known, day) == Picked(known, {i \in DOMAIN known : known[i].day < day})

-----------------------------------------------------------------------------
\* sourceDailyBars: a lookback counts from the selection date, none from the plan.
DailyBars(s, known, day, from) ==
  LET closed == ClosedBars(known, day)
      since  == IF s.lookback > 0 THEN day - s.lookback ELSE from
  IN  Picked(closed, {i \in DOMAIN closed : closed[i].day >= since /\ s.type \in {0, closed[i].type}})

\* latestBarsBySymbol, and transformLatestPerSymbol over candidates: the first of the
\* rows of a key with the latest date.
Latest(rs) ==
  {rs[i] : i \in {j \in DOMAIN rs : \A k \in DOMAIN rs : Key(rs[k]) = Key(rs[j]) =>
                   \/ rs[k].day < rs[j].day
                   \/ rs[k].day = rs[j].day /\ j <= k}}

\* windowMetric over the rows of one key in the order of their dates.
\* max_drawdown: the least of price over a price that is not after it; no NaN is less.
WindowMetric(id, rs, field, window) ==
  LET w == SubSeq(rs, Len(rs) - window + 1, Len(rs))
      V(i) == Number(w[i], field)
  IN  IF window <= 0 \/ Len(rs) < window THEN Missing
      ELSE CASE id = "average" ->
                  IF \E i \in DOMAIN w : V(i) = NaN THEN NaN ELSE Total([i \in DOMAIN w |-> V(i)])
             [] id = "return" -> IF V(1) = 0 THEN Missing
                                 ELSE IF NaN \in {V(1), V(Len(w))} THEN NaN
                                 ELSE (V(Len(w)) * Scale) \div V(1)
             [] id = "max_drawdown" ->
                  Min({Scale} \cup {(V(p[2]) * Scale) \div V(p[1]) :
                        p \in {q \in (DOMAIN w) \X (DOMAIN w) :
                                 q[1] <= q[2] /\ V(q[1]) > 0 /\ V(q[2]) # NaN}})

ByDate(rs) == SortByField(rs, "day", "asc")

\* transformWindowMetrics writes the metric to the last row of each key only.
WindowMetrics(s, rs) ==
  [i \in DOMAIN rs |->
     LET m == WindowMetric(s.metric, ByDate(OfKey(rs, Key(rs[i]))), s.field, s.window)
     IN  IF m # Missing /\ ~\E j \in (i + 1)..Len(rs) : Key(rs[j]) = Key(rs[i])
           THEN [rs[i] EXCEPT !.met = m] ELSE rs[i]]

\* transformIndicator writes the last value (here of an sma) to all rows of the key,
\* and a NaN while there are too few of them.
Indicator(s, rs) ==
  [i \in DOMAIN rs |->
     LET of == OfKey(rs, Key(rs[i]))
     IN  [rs[i] EXCEPT !.met = IF Len(of) < s.window THEN NaN
                               ELSE WindowMetric("average", ByDate(of), s.field, s.window)]]

\* transformDistinct
DistinctBy(s, rs) ==
  Picked(rs, {i \in DOMAIN rs : \A j \in 1..(i - 1) : rs[j][s.by] # rs[i][s.by]})

-----------------------------------------------------------------------------
\* compareAny
Compare(left, op, right) ==
  CASE op = "gt"  -> Cmp(left, right) > 0
    [] op = "gte" -> Cmp(left, right) >= 0
    [] op = "lt"  -> Cmp(left, right) < 0
    [] op = "lte" -> Cmp(left, right) <= 0
    [] op = "eq"  -> Cmp(left, right) = 0
    [] op = "between" -> Cmp(left, right[1]) >= 0 /\ Cmp(left, right[2]) <= 0

\* Does a filter step keep the row? earliestBarDate looks at all bars, open ones too.
Keeps(s, r, known, day) ==
  CASE s.id = "filter.field" -> Compare(r[s.field], s.op, s.value)
    [] s.id = "filter.expr" ->
         LET met == {i \in DOMAIN s.conds :
                       Compare(r[s.conds[i].field], s.conds[i].op, s.conds[i].value)}
         IN  \/ s.mode = "all" /\ met = DOMAIN s.conds
             \/ s.mode = "any" /\ met # {}
             \/ s.mode = "not" /\ 1 \notin met
    [] s.id = "filter.has_daily_bars" -> Len(OfKey(ClosedBars(known, day), Key(r))) >= s.min
    [] s.id = "filter.listing_age" ->
         \E i \in DOMAIN known : known[i].symbol = r.symbol /\ day - known[i].day >= s.min
    [] s.id = "filter.liquidity" -> Max({0, r.val}) >= s.min
    [] s.id = "filter.exclude_symbols" -> r.symbol \notin s.symbols
    [] s.id = "filter.include_symbols" -> r.symbol \in s.symbols
    [] s.id = "filter.security_type" -> r.type = s.type
    [] s.id = "filter.tags" -> s.include \subseteq r.tags /\ s.exclude \cap r.tags = {}

Kept(s, rs, known, day) == Picked(rs, {i \in DOMAIN rs : Keeps(s, rs[i], known, day)})

Filters ==
  {"filter.field", "filter.expr", "filter.has_daily_bars", "filter.listing_age", "filter.liquidity",
   "filter.exclude_symbols", "filter.include_symbols", "filter.security_type", "filter.tags"}

-----------------------------------------------------------------------------
\* Slip: equal values get different scores, by their place in the order.
PercentileScoresUntied(rs, field, direction) ==
  LET n == Len(rs)
      Rank(i) == 2 * Cardinality({j \in 1..n : \/ rs[j][field] < rs[i][field]
                                               \/ rs[j][field] = rs[i][field] /\ j < i})
  IN  [i \in 1..n |-> IF n = 1 THEN 1
                      ELSE IF direction = "asc" THEN 2 * (n - 1) - Rank(i) ELSE Rank(i)]

\* percentileScores: in sorted order, a run of equal values shares the mean of its
\* first and last index; in units of 1 / (2 * (n - 1)). A NaN is a run of its own. One
\* row alone has the best score.
PercentileScores(rs, field, direction) ==
  LET n == Len(rs)
      order == Order(rs, LAMBDA a, b : Below(<<Cmp(a[field], b[field]), a.type, a.symbol>>,
                                             <<0, b.type, b.symbol>>))
      Value(k) == rs[order[k]][field]
      Tied(k, l) == k = l \/ (Value(k) = Value(l) /\ Value(k) # NaN)
      Run(k) == {j \in 1..n : \A l \in (j..k) \cup (k..j) : Tied(k, l)}
      Place(i) == CHOOSE k \in 1..n : order[k] = i
      Rank(i) == (Min(Run(Place(i))) - 1) + (Max(Run(Place(i))) - 1)
  IN  [i \in 1..n |-> IF n = 1 THEN 1
                      ELSE IF direction = "asc" THEN 2 * (n - 1) - Rank(i) ELSE Rank(i)]

\* rankScore; a metric that is no number in some row is an error. A row's components are
\* kept by field, so that of metrics of one field the last gives its component to all.
RankScore(s, rs) ==
  LET parts == [m \in DOMAIN s.metrics |->
                  PercentileScores(rs, s.metrics[m].field, s.metrics[m].direction)]
      last == [m \in DOMAIN s.metrics |-> Max({l \in DOMAIN s.metrics : s.metrics[l].field = s.metrics[m].field})]
      Score(i) == Total([m \in DOMAIN s.metrics |-> parts[last[m]][i] * s.metrics[m].weight])
  IN  IF \E m \in DOMAIN s.metrics, i \in DOMAIN rs :
           s.metrics[m].field \notin Numbers \/ rs[i][s.metrics[m].field] = Missing THEN {}
      ELSE {Top(SortByScore([i \in DOMAIN rs |-> [rs[i] EXCEPT !.score = Score(i)]]), s.limit)}

\* rankWeighted: one NaN makes the sum one.
RankWeighted(s, rs) ==
  LET Of(r, k) == Number(r, s.fields[k].field)
      Score(r) == IF \E k \in DOMAIN s.fields : Of(r, k) = NaN THEN NaN
                  ELSE Total([k \in DOMAIN s.fields |-> Of(r, k) * s.fields[k].weight])
  IN  Top(SortByField([i \in DOMAIN rs |-> [rs[i] EXCEPT !.score = Score(rs[i])]], "score", s.order),
          s.limit)

\* rankPercentile: the share rounds up to whole rows; bottom goes before top.
RankPercentile(s, rs) ==
  LET share == IF s.bottom[1] > 0 THEN s.bottom ELSE s.top
      whole == share[1] <= 0 \/ share[1] > share[2]
      keep  == IF whole THEN Len(rs) ELSE (Len(rs) * share[1] + share[2] - 1) \div share[2]
  IN  Cut(SortByField(rs, s.field, IF s.bottom[1] > 0 THEN "asc" ELSE "desc"), keep)

Group(rs, field, g) == Picked(rs, {i \in DOMAIN rs : rs[i][field] = g})
Groups(rs, field) == {rs[i][field] : i \in DOMAIN rs}

\* rankGroupTopN walks the groups in the order of a Go map, then sorts.
RankGroupTopN(s, rs) ==
  {SortRows(FlattenSeq([i \in DOMAIN order |->
              Cut(SortByField(Group(rs, s.group, order[i]), s.field, s.order), s.n)])) :
     order \in SetToSeqs(Groups(rs, s.group))}

\* rankRoundRobin: the first row of every group, then the second of every group ...
RankRoundRobin(s, rs) ==
  LET order  == SortSet(Groups(rs, s.group), <)
      sorted == [g \in Groups(rs, s.group) |-> SortRows(Group(rs, s.group, g))]
      Round(k) == LET left == Picked(order, {i \in DOMAIN order : Len(sorted[order[i]]) >= k})
                  IN  [i \in DOMAIN left |-> sorted[left[i]][k]]
      all == FlattenSeq([k \in 1..Len(rs) |-> Round(k)])
  IN  Cut(all, Max({0, s.limit}))

\* limitPerGroup
LimitPerGroup(s, rs) ==
  Picked(rs, {i \in DOMAIN rs :
                Cardinality({j \in 1..(i - 1) : rs[j][s.group] = rs[i][s.group]}) < s.count})

-----------------------------------------------------------------------------
\* sourceSymbols, sourceDailyBars, sourceInstrumentMaster, and "source.rows" for the
\* sources whose rows do not depend on the date: a saved screen, a strategy, a file ...
Source(s, known, day, from) ==
  CASE s.id = "source.symbols" ->
         IF s.symbols = <<>> THEN {}
         ELSE {[i \in DOMAIN s.symbols |-> Row(s.symbols[i], s.type, 0, Missing, {})]}
    [] s.id = "source.rows" -> {s.rows}
    [] s.id = "source.daily_bars" -> {DailyBars(s, known, day, from)}
    [] s.id = "source.instrument_master" ->
         SetToSeqs({[r EXCEPT !.tags = {}] : r \in Latest(ClosedBars(known, day))})

\* An indicator needs a window and a price, if there is a row to calculate it for.
Transform(s, rs) ==
  CASE s.id = "transform.latest_per_symbol" -> {SortSet(Latest(rs), RowLess)}
    [] s.id = "transform.window_metrics" -> {WindowMetrics(s, rs)}
    [] s.id = "transform.indicator" -> IF (s.window <= 0 \/ s.field # "val") /\ rs # <<>> THEN {}
                                   ELSE {Indicator(s, rs)}
    [] s.id = "transform.distinct" -> {DistinctBy(s, rs)}
    [] s.id = "transform.tag" -> {[i \in DOMAIN rs |-> [rs[i] EXCEPT !.tags = @ \cup s.tags]]}

Ranked(s, rs) ==
  CASE s.id = "rank.by_field" -> {Top(SortByField(rs, s.field, s.order), s.limit)}
    [] s.id = "rank.score" -> RankScore(s, rs)
    [] s.id = "rank.weighted" -> {RankWeighted(s, rs)}
    [] s.id = "rank.percentile" -> {RankPercentile(s, rs)}
    [] s.id = "rank.group_top_n" -> RankGroupTopN(s, rs)
    [] s.id = "rank.round_robin" -> {RankRoundRobin(s, rs)}

Limited(s, rs) ==
  CASE s.id = "limit.count" -> {Cut(rs, s.count)}
    [] s.id = "limit.per_group" -> {LimitPerGroup(s, rs)}
    [] s.id = "limit.min_count" -> IF Len(rs) < s.count THEN {} ELSE {rs}
    [] s.id = "limit.max_count" -> IF Len(rs) > s.count /\ s.fail THEN {} ELSE {Cut(rs, s.count)}

\* debug.snapshot changes nothing.
Debugged(s, rs) ==
  CASE s.id = "debug.assert_count" -> IF Len(rs) < s.min \/ Len(rs) > s.max THEN {} ELSE {rs}
    [] s.id = "debug.sample" -> {Cut(rs, s.count)}

\* defaultUniverseSelectors
SelectorsOf ==
  [source    |-> {"source.symbols", "source.rows", "source.daily_bars", "source.instrument_master"},
   transform |-> {"transform.latest_per_symbol", "transform.window_metrics", "transform.indicator",
                  "transform.distinct", "transform.tag"},
   filter    |-> Filters,
   rank      |-> {"rank.by_field", "rank.score", "rank.weighted", "rank.percentile",
                  "rank.group_top_n", "rank.round_robin"},
   limit     |-> {"limit.count", "limit.per_group", "limit.min_count", "limit.max_count"},
   combine   |-> {"combine.union", "combine.intersect", "combine.difference", "combine.concat"},
   debug     |-> {"debug.assert_count", "debug.sample"}]

Selectors == UNION {SelectorsOf[kind] : kind \in DOMAIN SelectorsOf}

\* What one step other than a combine step may turn rows rs into.
Basic(s, rs, known, day, from) ==
  CASE s.id \in SelectorsOf.source    -> Source(s, known, day, from)
    [] s.id \in SelectorsOf.transform -> Transform(s, rs)
    [] s.id \in SelectorsOf.filter    -> {Kept(s, rs, known, day)}
    [] s.id \in SelectorsOf.rank      -> Ranked(s, rs)
    [] s.id \in SelectorsOf.limit     -> Limited(s, rs)
    [] s.id \in SelectorsOf.debug     -> Debugged(s, rs)

\* pipelinePreservesOrder
PreservesOrder(pipeline) ==
  \E s \in Range(pipeline) : s.id \in SelectorsOf.rank \cup SelectorsOf.limit

\* Slip: the rows stay as the steps leave them.
SettledUnsorted(pipeline, rs) == rs

Settled(pipeline, rs) == IF PreservesOrder(pipeline) THEN rs ELSE SortRows(rs)

\* executeUniversePipeline: what the rows may be after n steps ...
After(n, pipeline, Result(_, _)) ==
  LET after[i \in 0..n] ==
        IF i = 0 THEN {<<>>} ELSE UNION {Result(pipeline[i], rs) : rs \in after[i - 1]}
  IN  after[n]

\* ... and after all of them.
Through(pipeline, Result(_, _)) ==
  {Settled(pipeline, rs) : rs \in After(Len(pipeline), pipeline, Result)}

\* A pipeline inside a combine step; deeper nesting is left out.
SubResults(pipeline, known, day, from) ==
  Through(pipeline, LAMBDA s, rs : Basic(s, rs, known, day, from))

\* One result for each sub-pipeline, in all ways.
Parts(s, known, day, from) ==
  LET Of(i) == SubResults(s.pipelines[i], known, day, from)
  IN  {p \in [DOMAIN s.pipelines -> UNION {Of(i) : i \in DOMAIN s.pipelines}] :
         \A i \in DOMAIN s.pipelines : p[i] \in Of(i)}

\* mergeCandidate: what the right row has wins.
Merge(l, r) ==
  [l EXCEPT !.day = IF r.day = 0 THEN @ ELSE r.day,
            !.val = IF r.val = Missing THEN @ ELSE r.val,
            !.met = IF r.met = Missing THEN @ ELSE r.met,
            !.score = IF r.score = Missing THEN @ ELSE r.score,
            !.tags = @ \cup r.tags]

MergedRow(of) ==
  LET merged[i \in DOMAIN of] == IF i = 1 THEN of[1] ELSE Merge(merged[i - 1], of[i])
  IN  merged[Len(of)]

\* One row for each of the keys, in the order of mapCandidates.
Merged(rs, keys) == SortSet({MergedRow(OfKey(rs, k)) : k \in keys}, RowLess)

CombineUnion(parts) == LET all == FlattenSeq(parts) IN Merged(all, Keys(all))

\* combineIntersect counts rows: a key passes if it has as many as there are pipelines.
CombineIntersect(parts) ==
  LET all == FlattenSeq(parts)
  IN  Merged(all, {k \in Keys(all) : Len(OfKey(all, k)) = Len(parts)})

\* Slip: only the second pipeline is taken away.
CombineDifferenceOfTwo(parts) ==
  Picked(parts[1], {i \in DOMAIN parts[1] : Len(parts) < 2 \/ Key(parts[1][i]) \notin Keys(parts[2])})

CombineDifference(parts) ==
  Picked(parts[1], {i \in DOMAIN parts[1] : \A j \in 2..Len(parts) : Key(parts[1][i]) \notin Keys(parts[j])})

Outcomes(s, rs, known, day, from) ==
  CASE s.id = "combine.union"      -> {CombineUnion(p) : p \in Parts(s, known, day, from)}
    [] s.id = "combine.intersect"  -> {CombineIntersect(p) : p \in Parts(s, known, day, from)}
    [] s.id = "combine.difference" ->
         IF s.pipelines = <<>> THEN {} ELSE {CombineDifference(p) : p \in Parts(s, known, day, from)}
    [] s.id = "combine.concat"     -> {FlattenSeq(p) : p \in Parts(s, known, day, from)}
    [] OTHER                       -> Basic(s, rs, known, day, from)

-----------------------------------------------------------------------------
\* dailyDates
DailyDates(from, to) == [i \in 1..(to - from + 1) |-> from + i - 1]

\* Slip: periods of a fixed length, counted from the first date.
FirstOfFixed(period, from, to) ==
  LET days   == DailyDates(from, to)
      length == Cardinality({d \in Days : period[d] = period[from]})
  IN  Picked(days, {i \in DOMAIN days : (i - 1) % length = 0})

\* anchoredWeekDates, anchoredMonthDates: the first day of each period in the range.
FirstOf(period, from, to) ==
  LET days == DailyDates(from, to)
  IN  Picked(days, {i \in DOMAIN days : \A j \in 1..(i - 1) : period[days[j]] # period[days[i]]})

CustomDates(dates, from, to) == Picked(dates, {i \in DOMAIN dates : from <= dates[i] /\ dates[i] <= to})

\* universeSelectionDates. A screen compiles its as_of into the window, but a from
\* that is set goes first.
SelectionDates(p) ==
  LET from == IF p.from = 0 THEN p.window ELSE p.from
  IN  IF p.to < from THEN <<>>
      ELSE CASE p.schedule = "once"    -> <<from>>
             [] p.schedule = "daily"   -> DailyDates(from, p.to)
             [] p.schedule = "weekly"  -> FirstOf(WeekOf, from, p.to)
             [] p.schedule = "monthly" -> FirstOf(MonthOf, from, p.to)
             [] p.schedule = "custom_calendar" -> CustomDates(p.dates, from, p.to)

\* validateUniverseStepParams
ValidStep(s) ==
  /\ s.id \in Selectors
  /\ s.id = "rank.by_field" => s.order \in {"asc", "desc"}
  /\ s.id = "rank.score" =>
       s.metrics # <<>> /\ \A m \in Range(s.metrics) : m.direction \in {"asc", "desc"}

\* validateUniversePipeline: only the first step is tied to a kind, so that a source may
\* also come later and throw the rows before it away; a pipeline of a combine step may
\* be empty.
ValidPipeline(pipeline) ==
  /\ \A i \in DOMAIN pipeline : ValidStep(pipeline[i])
  /\ pipeline # <<>> => Head(pipeline).id \in SelectorsOf.source \cup SelectorsOf.combine

\* compileScreenRun, compileScreenStrategy: a screen selects once, as of a day that
\* it must give, by as_of or else by to.
ScreenPlan(pipeline, type, dates) ==
  LET asOf == IF dates.asOf = 0 THEN dates.to ELSE dates.asOf
  IN  [pipeline |-> pipeline, schedule |-> "once", dates |-> <<>>, fallback |-> type,
       from |-> dates.from, window |-> asOf, to |-> IF dates.to = 0 THEN asOf ELSE dates.to]

\* CompilePipelineSpec
Compilable(p) ==
  /\ p.pipeline # <<>> /\ p.window # 0
  /\ p.schedule \in {"once", "daily", "weekly", "monthly", "custom_calendar"}
  /\ ValidPipeline(p.pipeline)
  /\ \A s \in Range(p.pipeline) : \A sub \in Range(SubPipelines(s)) : ValidPipeline(sub)

\* What the parameters of a step are read as, as far as what it does depends on it. A
\* negative count, with which the code panics, is left out, and a negative weight.
TypedStep(s) ==
  /\ s.id = "source.symbols" => s.symbols \in Seq(Int) /\ s.type \in Int
  /\ s.id = "source.rows" => s.rows \in Seq(Rows)
  /\ s.id = "transform.window_metrics" =>
       s.metric \in {"average", "return", "max_drawdown"} /\ s.field \in Columns /\ s.window \in Int
  /\ s.id = "transform.indicator" => s.field \in Columns /\ s.window \in Int
  /\ s.id = "transform.distinct" => s.by \in Columns \cup {"symbol"}
  /\ s.id = "transform.tag" => s.tags \in SUBSET Tags
  /\ s.id = "filter.field" => s.field \in Columns
  /\ s.id = "filter.expr" => \A c \in Range(s.conds) : c.field \in Columns
  /\ s.id = "filter.listing_age" => s.min \in Int
  /\ s.id = "rank.by_field" => s.field \in Columns /\ s.limit \in Int
  /\ s.id = "rank.score" =>
       s.metrics \in Seq([field : Columns, weight : Nat, direction : STRING]) /\ s.limit \in Int
  /\ s.id = "rank.weighted" => s.fields \in Seq([field : Columns, weight : Nat]) /\ s.limit \in Int
  /\ s.id = "rank.percentile" =>
       /\ s.field \in Columns
       /\ s.top \in Int \X (Nat \ {0}) /\ s.bottom \in Int \X (Nat \ {0})
  /\ s.id = "rank.group_top_n" => s.group \in Columns /\ s.field \in Columns /\ s.n \in Nat
  /\ s.id = "rank.round_robin" => s.group \in Columns \ Numbers /\ s.limit \in Int
  /\ s.id = "limit.per_group" => s.group \in Columns
  /\ s.id \in {"limit.count", "limit.max_count", "debug.sample"} => s.count \in Nat

TypedPipeline(pipeline) == IsList(pipeline) /\ \A s \in Range(pipeline) : TypedStep(s)

\* A combine step has its pipelines, and those have none.
ASSUME PlanAssumption ==
  \A p \in Plans :
    /\ p.dates \in Seq(Int)
    /\ \A pipeline \in PipelinesOf(p) : TypedPipeline(pipeline)
    /\ \A s \in Range(p.pipeline) :
         /\ IsList(SubPipelines(s)) /\ (s.id \in SelectorsOf.combine => "pipelines" \in DOMAIN s)
         /\ \A sub \in Range(SubPipelines(s)) : \A r \in Range(sub) : r.id \notin SelectorsOf.combine

Init ==
  /\ plan \in Plans
  /\ bars \in Histories
  /\ data = <<>>
  /\ status = "given"
  /\ todo = <<>> /\ step = 1 /\ rows = <<>> /\ snapshots = <<>>

Compile ==
  /\ status = "given"
  /\ status' = IF Compilable(plan) THEN "compiled" ELSE "failed"
  /\ UNCHANGED <<plan, bars, data, todo, step, rows, snapshots>>

\* Explain: the context is loaded once for all dates; no date at all is an error.
Explain ==
  /\ status = "compiled"
  /\ data' = Loaded(plan, bars)
  /\ todo' = SelectionDates(plan)
  /\ status' = IF todo' = <<>> THEN "failed" ELSE "running"
  /\ UNCHANGED <<plan, bars, step, rows, snapshots>>

Now == Outcomes(plan.pipeline[step], rows, data, Head(todo), plan.from)

RunStep ==
  /\ status = "running" /\ todo # <<>> /\ step <= Len(plan.pipeline)
  /\ rows' \in Now
  /\ step' = step + 1
  /\ UNCHANGED <<plan, bars, data, status, todo, snapshots>>

\* A step that fails fails the whole run.
FailStep ==
  /\ status = "running" /\ todo # <<>> /\ step <= Len(plan.pipeline)
  /\ Now = {}
  /\ status' = "failed"
  /\ UNCHANGED <<plan, bars, data, todo, step, rows, snapshots>>

TakeSnapshot ==
  /\ status = "running" /\ todo # <<>> /\ step > Len(plan.pipeline)
  /\ snapshots' = Append(snapshots, [day |-> Head(todo), rows |-> Settled(plan.pipeline, rows)])
  /\ todo' = Tail(todo)
  /\ step' = 1 /\ rows' = <<>>
  /\ UNCHANGED <<plan, bars, data, status>>

Finish ==
  /\ status = "running" /\ todo = <<>>
  /\ status' = "done"
  /\ UNCHANGED <<plan, bars, data, todo, step, rows, snapshots>>

Rest == status \in {"done", "failed"} /\ UNCHANGED vars

Next == Compile \/ Explain \/ RunStep \/ FailStep \/ TakeSnapshot \/ Finish \/ Rest

Spec == Init /\ [][Next]_vars

TypeOK ==
  /\ plan \in Plans /\ bars \in Histories /\ data \in Seq(Rows)
  /\ status \in {"given", "compiled", "running", "done", "failed"}
  /\ todo \in Seq(Int) /\ step \in Nat \ {0} /\ rows \in Seq(Rows)
  /\ snapshots \in Seq([day : Int, rows : Seq(Rows)])

-----------------------------------------------------------------------------
\* activeSymbolsAt: the last snapshot in the list that is not after the bar.
ActiveAt(t) == Max({0} \cup {i \in DOMAIN snapshots : snapshots[i].day <= t})

\* The whole pipeline over some data, without the engine's steps.
Selections(p, known, day) ==
  Through(p.pipeline, LAMBDA s, rs : Outcomes(s, rs, known, day, p.from))

\* The store as it was before the day.
Past(day) == [l \in Listings |-> [d \in Days |-> IF d < day THEN bars[l][d] ELSE 0]]

\* "At each evaluation time of the schedule only data that is closed by then may be
\* used" (packages/backtest/docs/universe/README.md:523): with the bars of the
\* selection date and after it taken out of the store, the selection is the same.
OnlyThePast ==
  \A i \in DOMAIN snapshots :
    snapshots[i].rows \in
      Selections(plan, Loaded(plan, Past(snapshots[i].day)), snapshots[i].day)

\* A filter.listing_age that keeps an instrument whose first bar is of the day itself.
CountsToday(p) ==
  \E pipeline \in PipelinesOf(p) : \E s \in Range(pipeline) : s.id = "filter.listing_age" /\ s.min < 1

\* Every other plan selects from what is closed.
SelectsFromThePast == ~CountsToday(plan) => OnlyThePast

\* source.instrument_master brings its rows in the order of a Go map; a rank or a limit
\* keeps that order, and a step that takes the first rows depends on it. The groups of
\* rank.group_top_n come in such an order too, in which rows that its sort takes for equal
\* stay, unless they are of one group.
Lucky(p) ==
  \E pipeline \in PipelinesOf(p) :
    \/ /\ \E s \in Range(pipeline) : s.id = "source.instrument_master"
       /\ \/ PreservesOrder(pipeline)
          \/ \E s \in Range(pipeline) : s.id \in {"transform.distinct", "debug.sample"}
    \/ \E s \in Range(pipeline) : s.id = "rank.group_top_n" /\ s.group \in Numbers

\* "The same input and the same data must give the same result"
\* (packages/backtest/docs/universe/README.md:149), maps of Go notwithstanding.
SameResult ==
  \A i \in DOMAIN snapshots :
    Selections(plan, data, snapshots[i].day) = {snapshots[i].rows}

\* Every plan that does not meet the order of those maps selects the same again.
SameSelection == ~Lucky(plan) => SameResult

AtStep(id) == status = "running" /\ todo # <<>> /\ step <= Len(plan.pipeline) /\ plan.pipeline[step].id = id

Common(parts) ==
  {k \in UNION {Keys(parts[i]) : i \in DOMAIN parts} : \A i \in DOMAIN parts : k \in Keys(parts[i])}
OnceEach(rs) == Cardinality(Keys(rs)) = Len(rs)

\* combine.union, combine.difference and combine.intersect are set operations on
\* instruments; the last if no pipeline brings an instrument twice.
CombinesAsSets ==
  LET s == plan.pipeline[step]
      All == Parts(s, data, Head(todo), plan.from)
  IN  /\ AtStep("combine.union") =>
           \A p \in All : /\ Keys(CombineUnion(p)) = UNION {Keys(p[i]) : i \in DOMAIN p}
                         /\ OnceEach(CombineUnion(p))
      /\ AtStep("combine.difference") =>
           \A p \in All \ {<<>>} : Keys(CombineDifference(p)) =
                                     Keys(p[1]) \ UNION {Keys(p[i]) : i \in 2..Len(p)}
      /\ AtStep("combine.intersect") =>
           \A p \in All : (\A i \in DOMAIN p : OnceEach(p[i])) =>
                            Keys(CombineIntersect(p)) = Common(p)

\* "combine.intersect keeps only the instruments that appear in all of the
\* sub-pipelines" (packages/backtest/docs/universe/README.md:452).
IntersectIsCommon ==
  AtStep("combine.intersect") =>
    \A p \in Parts(plan.pipeline[step], data, Head(todo), plan.from) :
      Keys(CombineIntersect(p)) = Common(p)

\* A row's percentile is the share of the other rows it beats, ties counting half, in
\* whatever order the rows come; a row gets the sum over the metrics, each by its
\* weight, and no row that is cut off has more than one that is kept. (Of two metrics of
\* one field only the last would count, and a NaN has no place in an order.)
ScoreIsPercentile ==
  AtStep("rank.score") =>
    LET s == plan.pipeline[step]
        Beats(r, m) == Cardinality({i \in DOMAIN rows :
          IF m.direction = "desc" THEN rows[i][m.field] < r[m.field] ELSE rows[i][m.field] > r[m.field]})
        Ties(r, m) == Cardinality({i \in DOMAIN rows : rows[i][m.field] = r[m.field]}) - 1
        Share(r, m) == IF Len(rows) = 1 THEN 1 ELSE 2 * Beats(r, m) + Ties(r, m)
        Worth(r) == Total([k \in DOMAIN s.metrics |-> Share(r, s.metrics[k]) * s.metrics[k].weight])
        Scored(r) == [r EXCEPT !.score = Worth(r)]
    IN  /\ \A k, l \in DOMAIN s.metrics : s.metrics[k].field = s.metrics[l].field => k = l
        /\ \A k \in DOMAIN s.metrics, i \in DOMAIN rows : rows[i][s.metrics[k].field] # NaN
        => \A out \in Now :
             /\ Len(out) = IF s.limit \in 1..Len(rows) THEN s.limit ELSE Len(rows)
             /\ \A i \in DOMAIN out : \E j \in DOMAIN rows : out[i] = Scored(rows[j])
             /\ \A j \in DOMAIN rows :
                  \/ \E i \in DOMAIN out : out[i] = Scored(rows[j])
                  \/ \A i \in DOMAIN out : Worth(rows[j]) <= out[i].score

\* Once the first date has come, every bar is traded with the universe of its own period,
\* or, with a calendar in order, of the last date listed.
UniverseIsFresh ==
  (status = "done" /\ \A i \in 1..(Len(snapshots) - 1) : snapshots[i].day < snapshots[i + 1].day) =>
    \A t \in snapshots[1].day..plan.to :
      LET day == snapshots[ActiveAt(t)].day
      IN  CASE plan.schedule = "once"    -> day = snapshots[1].day
            [] plan.schedule = "daily"   -> day = t
            [] plan.schedule = "weekly"  -> WeekOf[day] = WeekOf[t]
            [] plan.schedule = "monthly" -> MonthOf[day] = MonthOf[t]
            [] plan.schedule = "custom_calendar" -> \A d \in Range(plan.dates) : ~(day < d /\ d <= t)
=============================================================================
