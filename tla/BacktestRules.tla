---------------------------- MODULE BacktestRules ----------------------------
(***************************************************************************)
(* From the series of the feed (BacktestFeed) to buy and sell signals: the *)
(* compilation of a strategy (compiler.go), the engine's indicators, and   *)
(* the rules of a strategy (rule.go), bar after bar.                       *)
(*                                                                         *)
(* What becomes of a signal belongs to BacktestEngine: here any of them    *)
(* may be filled at once, one unit at the close, or not at all.            *)
(***************************************************************************)
EXTENDS BacktestIndicators, BacktestFeed

VARIABLES
  strategy,
  runtimes,   \* the indicator runtimes of each symbol, each with its newest value
  values,     \* the indicator values of each symbol, for each of its bars
  cash,
  positions,  \* the entry time and average price of every position
  peak,       \* the highest point of the equity curve
  decided,    \* the side of the order intent of each symbol
  said        \* history variable: what the child rules said at each bar of a symbol

indicatorVars == <<runtimes, values>>
bookVars      == <<cash, positions, peak, decided, said>>
vars          == <<feedVars, strategy, indicatorVars, bookVars>>

----------------------------------------------------------------------------
(* compiler.go: which strategies are accepted *)

NoRule == [operator |-> "", args |-> <<>>, rules |-> <<>>]

Timeframes == {"1m", "5m", "15m", "30m", "1h", "1d", "1w", "1mo", "custom"}

CrossSectional == {"rank", "percentile", "universe_rank", "relative_strength"}

RECURSIVE HasCrossSection(_)
HasCrossSection(expr) ==
  expr.kind \in CrossSectional \/ \E k \in DOMAIN expr.args : HasCrossSection(expr.args[k])

RECURSIVE ValidValue(_, _)
ValidValue(expr, aliases) ==
  LET n == Len(expr.args)
  IN  /\ \/ expr.timeframe = ""
         \/ expr.timeframe \in Timeframes /\ expr.kind \notin CrossSectional \union {"position", "portfolio"}
      /\ \/ expr.kind = "value"
         \/ expr.kind = "price" /\ expr.name \in PriceFields
         \/ expr.kind = "ref" /\ expr.name \in aliases
         \/ expr.kind = "position" /\ expr.name \in {"holding_bars", "unrealized_return", "drawdown_from_entry"}
         \/ /\ expr.kind = "portfolio"
            /\ expr.name \in {"cash_pct", "exposure_pct", "position_count", "portfolio_drawdown"}
         \/ expr.kind = "indicator" /\ ValidIndicator(expr.indicator)
         \/ expr.kind \in CrossSectional /\ n = 1 /\ ~HasCrossSection(expr.args[1])
         \/ expr.kind \in {"spread", "ratio"} /\ n = 2
         \/ expr.kind \in {"add", "sub", "mul", "div", "min", "max"} /\ n >= 2
         \/ expr.kind = "abs" /\ n = 1
      /\ \A k \in DOMAIN expr.args : ValidValue(expr.args[k], aliases)

Temporal == {"for_n_bars", "bars_since", "cooldown"}
Calendar == {"weekly", "monthly", "first_trading_day"}
Stops    == {"stop_loss", "take_profit", "time_stop", "trailing_stop"}

TakesArgs(op, n) ==
  \/ op \in {"all", "any", "not"}
  \/ op \in {"gt", "gte", "lt", "lte", "eq", "crosses_above", "crosses_below"} /\ n = 2
  \/ op \in {"rising", "falling", "new_high", "new_low", "volatility_stop"} /\ n = 2
  \/ op \in {"between", "slope"} /\ n = 3
  \/ op \in Temporal \union Stops \union {"changed"} /\ n = 1
  \/ op = "target_weight_changed" /\ n <= 1
  \/ op \in Calendar \union {"position_exists"} /\ n = 0

TakesRules(op, n) ==
  /\ op \in {"all", "any"} => n > 0
  /\ op \in Temporal \union {"not"} => n = 1
  /\ op \in Calendar \union {"position_exists"} => n = 0

RECURSIVE ValidRule(_, _)
ValidRule(rule, aliases) ==
  LET parent == rule.operator \in {"all", "any", "not"} \union Temporal
  IN  /\ TakesArgs(rule.operator, Len(rule.args))
      /\ TakesRules(rule.operator, Len(rule.rules))
      /\ rule.operator \in {"all", "any", "not"} \/ \A k \in DOMAIN rule.args : ValidValue(rule.args[k], aliases)
      /\ parent => \A k \in DOMAIN rule.rules : ValidRule(rule.rules[k], aliases)

\* The single entry or exit rule stands in for a list that is not given.
Normalized(s) ==
  LET Listed(rules, one) == IF rules = <<>> /\ one # NoRule THEN <<one>> ELSE rules
  IN  [s EXCEPT !.entries = Listed(@, s.entry), !.exits = Listed(@, s.exit)]

RulesOf(s) ==
  Range(s.entries) \union Range(s.exits) \union Range(s.rebalance) \union Range(s.stops)

ValidStrategy(s) ==
  /\ Zero \prec s.size
  /\ \A alias \in DOMAIN s.indicators : ValidIndicator(s.indicators[alias])
  /\ s.entries # <<>>
  /\ \A rule \in RulesOf(s) : ValidRule(rule, DOMAIN s.indicators)

RECURSIVE InValue(_)
InValue(expr) ==
  (IF expr.kind = "indicator" THEN {expr.indicator} ELSE {})
    \union UNION {InValue(expr.args[k]) : k \in DOMAIN expr.args}

RECURSIVE InRule(_)
InRule(rule) ==
  UNION {InValue(rule.args[k]) : k \in DOMAIN rule.args}
    \union UNION {InRule(rule.rules[k]) : k \in DOMAIN rule.rules}

\* An indicator is kept under its alias, or under its specification when a rule spells it out.
RefKey(alias)   == [ref |-> alias]
InlineKey(spec) == [indicator |-> spec]

IndicatorsOf(s) ==
  LET inline == UNION {InRule(rule) : rule \in RulesOf(s)}
      keys   == {RefKey(alias) : alias \in DOMAIN s.indicators} \union {InlineKey(spec) : spec \in inline}
  IN  [k \in keys |-> IF "ref" \in DOMAIN k THEN s.indicators[k.ref] ELSE k.indicator]

----------------------------------------------------------------------------
(* rule.go: the values a rule reads. ctx is the symbol a rule is evaluated *)
(* for and the bar it takes for the present one, ctx.index.                *)

Held(symbol) == symbol \in DOMAIN positions

\* closePrices holds the symbols of the frame only: a position without a bar counts as 0.
PositionsValue ==
  MapThenSumSet(LAMBDA s : currentBars[s].close, DOMAIN positions \intersect DOMAIN currentBars)

Equity == cash + PositionsValue

Percent(part, whole) == Frac(100 * part, whole)

\* The bars strictly after the entry, up to the one looked at.
HoldingBars(ctx) ==
  Cardinality({i \in 1..ctx.index : series[ctx.symbol][i].time > positions[ctx.symbol].entry})

PeakSinceEntry(ctx) ==
  LET since == {i \in 1..ctx.index : series[ctx.symbol][i].time >= positions[ctx.symbol].entry}
  IN  FoldSet(LAMBDA i, top : Greatest(top, Num(series[ctx.symbol][i].close)), Zero, since)

PositionValue(field, ctx) ==
  LET s      == ctx.symbol
      price  == Num(currentBars[s].close)
      top    == PeakSinceEntry(ctx)
      priced == Held(s) /\ s \in DOMAIN currentBars
  IN  Once(priced,
        CASE field = "holding_bars"        -> Num(HoldingBars(ctx))
          [] field = "unrealized_return"   -> (price // positions[s].price) -- Num(1)
          [] field = "drawdown_from_entry" -> Once(Zero \prec top, (price // top) -- Num(1)))

PortfolioValue(field) ==
  CASE field = "position_count" -> Num(Cardinality(DOMAIN positions))
    [] field = "portfolio_drawdown" ->
         LET top == IF peak > Equity THEN peak ELSE Equity
         IN  IF top <= 0 THEN Zero ELSE Frac(Equity, top) -- Num(1)
    [] field = "cash_pct"     -> Once(Equity > 0, Percent(cash, Equity))
    [] field = "exposure_pct" -> Once(Equity > 0, Percent(PositionsValue, Equity))

\* Arguments are there or the whole expression is not.
Combined(kind, xs) ==
  LET first == Head(xs)
      rest  == Tail(xs)
  IN  IF NoValue \in Range(xs) THEN NoValue
      ELSE CASE kind = "add"                -> SumOf(xs)
             [] kind \in {"sub", "spread"}  -> FoldLeft(LAMBDA out, x : out -- x, first, rest)
             [] kind = "mul"                -> FoldLeft(LAMBDA out, x : out ** x, Num(1), xs)
             [] kind \in {"div", "ratio"}   ->
                  Once(Zero \notin Range(rest), FoldLeft(LAMBDA out, x : out // x, first, rest))
             [] kind = "min"                -> Lowest(xs)
             [] kind = "max"                -> Highest(xs)
             [] kind = "abs"                -> Magnitude(first)

\* Highest value first; among equals the smaller symbol.
RankOf(s, peers) ==
  1 + Cardinality({t \in DOMAIN peers :
        \/ peers[s] \prec peers[t]
        \/ peers[s] = peers[t] /\ t < s})

Standing(kind, s, peers) ==
  LET count   == Cardinality(DOMAIN peers)
      average == FoldSet(LAMBDA t, sum : sum ++ peers[t], Zero, DOMAIN peers) // Num(count)
  IN  Once(s \in DOMAIN peers,
        CASE kind = "percentile" ->
               IF count = 1 THEN Num(100) ELSE Percent(count - RankOf(s, peers), count - 1)
          [] kind = "relative_strength" ->
               Once(average # Zero, (peers[s] // average) -- Num(1))
          [] OTHER -> Num(RankOf(s, peers)))

RECURSIVE ValueAt(_, _, _)

\* What the active symbols with a bar in the frame have to show for themselves.
Peers(expr, ctx, i) ==
  LET Own(s)  == ValueAt(expr, [symbol |-> s, index |-> Len(series[s])], Len(series[s]))
      present == {s \in run.symbols \intersect DOMAIN currentBars : Own(s) # NoValue}
  IN  IF i = ctx.index THEN [s \in present |-> Own(s)] ELSE None

\* The newest bar of the asked timeframe that is not later than bar i.
TimeframeValueAt(expr, ctx, i) ==
  LET bars   == series[ctx.symbol]
      closed == {j \in DOMAIN bars : bars[j].time <= bars[i].time /\ bars[j].timeframe = expr.timeframe}
      j      == FoldSet(LAMBDA a, b : IF a > b THEN a ELSE b, 0, closed)
  IN  Once(j > 0, ValueAt([expr EXCEPT !.timeframe = ""], [ctx EXCEPT !.index = j], j))

\* Position and portfolio values are known for the present bar only.
ValueAt(expr, ctx, i) ==
  LET bars == series[ctx.symbol]
      kind == expr.kind
  IN  IF i \notin DOMAIN bars THEN NoValue
      ELSE IF expr.timeframe # "" THEN TimeframeValueAt(expr, ctx, i)
      ELSE CASE kind = "value"         -> expr.value
             [] kind = "price"         -> Price(bars[i], expr.name)
             [] kind = "ref"           -> values[ctx.symbol][i][RefKey(expr.name)]
             [] kind = "indicator"     -> values[ctx.symbol][i][InlineKey(expr.indicator)]
             [] kind = "position"      -> Once(i = ctx.index, PositionValue(expr.name, ctx))
             [] kind = "portfolio"     -> Once(i = ctx.index, PortfolioValue(expr.name))
             [] kind \in CrossSectional -> Standing(kind, ctx.symbol, Peers(expr.args[1], ctx, i))
             [] OTHER -> Combined(kind, [k \in DOMAIN expr.args |-> ValueAt(expr.args[k], ctx, i)])

\* What the arguments of a rule are worth at bar i.
ValuesAt(args, ctx, i) == [k \in DOMAIN args |-> ValueAt(args[k], ctx, i)]

----------------------------------------------------------------------------
(* The rules: "yes", "no", or "fault" for an error that ends the run *)

Says(b)   == IF b THEN "yes" ELSE "no"
Negate(v) == CASE v = "yes" -> "no" [] v = "no" -> "yes" [] OTHER -> v

\* Without a value for everything it reads a rule does not match.
Reading(xs, v) == IF NoValue \in xs THEN "no" ELSE v

\* Rules are asked in turn until one says something else.
Unless(v, verdicts) ==
  LET others == SelectSeq(verdicts, LAMBDA w : w # v)
  IN  IF others = <<>> THEN v ELSE Head(others)

AtMost(a, b) == a = b \/ a \prec b

Compares(op, l, r) ==
  CASE op = "gt"  -> r \prec l
    [] op = "gte" -> AtMost(r, l)
    [] op = "lt"  -> l \prec r
    [] op = "lte" -> AtMost(l, r)
    [] op = "eq"  -> l = r

Crosses(op, l, r, l0, r0) ==
  IF op = "crosses_above" THEN AtMost(l0, r0) /\ r \prec l ELSE AtMost(r0, l0) /\ l \prec r

\* A number of bars read from an argument: at least least, or the run ends.
Bars(x) == x[1] \div x[2]

Counted(x, least, v) ==
  IF x = NoValue THEN "no" ELSE IF Bars(x) < least THEN "fault" ELSE v

Trend(op, expr, ctx, n) ==
  LET xs == [k \in 1..n |-> ValueAt(expr, ctx, ctx.index - n + k)]
  IN  Reading(Range(xs),
        Says(\A k \in 2..n : IF op = "rising" THEN xs[k - 1] \prec xs[k] ELSE xs[k] \prec xs[k - 1]))

Slope(current, minimum, start, n) ==
  Reading({start, current, minimum}, Says(minimum \prec ((current -- start) // Num(n))))

NewExtreme(op, current, before) ==
  Reading(before \union {current},
    Says(\A x \in before : IF op = "new_high" THEN x \prec current ELSE current \prec x))

\* The first bar of a series is always due.
CalendarDue(op, ctx) ==
  LET Period(t) == IF op = "weekly" THEN WeekOf[t] ELSE MonthOf[t]
      bars      == series[ctx.symbol]
  IN  ctx.index = 1 \/ Period(bars[ctx.index].time) # Period(bars[ctx.index - 1].time)

WeightChanged(threshold, ctx) ==
  LET units  == IF Held(ctx.symbol) THEN 1 ELSE 0
      weight == Percent(units * currentBars[ctx.symbol].close, Equity)
  IN  IF threshold = NoValue THEN "no"
      ELSE IF threshold \prec Zero THEN "fault"
      ELSE Says(Equity > 0 /\ threshold \prec Magnitude(weight -- strategy.size))

StopField(op) ==
  CASE op = "time_stop"     -> "holding_bars"
    [] op = "trailing_stop" -> "drawdown_from_entry"
    [] OTHER                -> "unrealized_return"

Stopped(op, threshold, value) ==
  Reading({threshold, value},
    Says(IF op \in {"take_profit", "time_stop"} THEN AtMost(threshold, value)
         ELSE AtMost(value, Zero -- Magnitude(threshold))))

VolatilityStopped(volatility, multiplier, ctx) ==
  LET s    == ctx.symbol
      stop == positions[s].price -- (volatility ** multiplier)
  IN  IF NoValue \in {volatility, multiplier} THEN "no"
      ELSE IF volatility \prec Zero \/ multiplier \prec Zero THEN "fault"
      ELSE Says(Held(s) /\ s \in DOMAIN currentBars /\ AtMost(Num(currentBars[s].close), stop))

RECURSIVE Verdict(_, _)

ForNBars(child, ctx, n) ==
  IF ctx.index < n THEN "no"
  ELSE Unless("yes", [k \in 1..n |-> Verdict(child, [ctx EXCEPT !.index = @ - n + k])])

\* Slip: the bar looked at counts as well.
BarsSinceAndNow(child, ctx, n) ==
  LET reach == IF ctx.index < n THEN ctx.index ELSE n
  IN  Unless("no", [k \in 1..reach |-> Verdict(child, [ctx EXCEPT !.index = @ + 1 - k])])

\* Back from the bar before this one, at most n bars.
BarsSince(child, ctx, n) ==
  LET reach == IF ctx.index - 1 < n THEN ctx.index - 1 ELSE n
  IN  Unless("no", [k \in 1..reach |-> Verdict(child, [ctx EXCEPT !.index = @ - k])])

\* x and y hold the values of the arguments at the present and at the previous bar.
Judged(rule, ctx, x, y) ==
  LET op    == rule.operator
      child == rule.rules[1]
      At(i) == ValueAt(rule.args[1], ctx, i)
      n     == Bars(x[2])
  IN
  CASE op \in {"all", "any"} ->
         Unless(IF op = "all" THEN "yes" ELSE "no",
                [k \in DOMAIN rule.rules |-> Verdict(rule.rules[k], ctx)])
    [] op = "not" -> Negate(Verdict(child, ctx))
    [] op \in {"gt", "gte", "lt", "lte", "eq"} ->
         Reading({x[1], x[2]}, Says(Compares(op, x[1], x[2])))
    [] op = "between" ->
         Reading({x[1], x[2], x[3]}, Says(AtMost(x[2], x[1]) /\ AtMost(x[1], x[3])))
    [] op \in {"crosses_above", "crosses_below"} ->
         Reading({x[1], x[2], y[1], y[2]}, Says(Crosses(op, x[1], x[2], y[1], y[2])))
    [] op = "changed" -> Reading({x[1], y[1]}, Says(x[1] # y[1]))
    [] op \in {"rising", "falling"} -> Counted(x[2], 2, Trend(op, rule.args[1], ctx, n))
    [] op = "slope" -> Counted(x[2], 1, Slope(x[1], x[3], At(ctx.index - n), n))
    [] op \in {"new_high", "new_low"} ->
         Counted(x[2], 2, NewExtreme(op, x[1], {At(i) : i \in (ctx.index - n + 1)..(ctx.index - 1)}))
    [] op = "for_n_bars" -> Counted(x[1], 1, ForNBars(child, ctx, Bars(x[1])))
    [] op = "bars_since" -> Counted(x[1], 1, BarsSince(child, ctx, Bars(x[1])))
    [] op = "cooldown" ->
         LET now == Verdict(child, ctx)
         IN  IF now # "yes" THEN now
             ELSE Negate(Counted(x[1], 1, BarsSince(child, ctx, Bars(x[1]))))
    [] op = "position_exists" -> Says(Held(ctx.symbol))
    [] op \in Calendar -> Says(CalendarDue(op, ctx))
    [] op = "target_weight_changed" ->
         WeightChanged(IF rule.args = <<>> THEN Zero ELSE x[1], ctx)
    [] op \in Stops -> Stopped(op, x[1], PositionValue(StopField(op), ctx))
    [] op = "volatility_stop" -> VolatilityStopped(x[1], x[2], ctx)

Verdict(rule, ctx) ==
  Judged(rule, ctx, ValuesAt(rule.args, ctx, ctx.index), ValuesAt(rule.args, ctx, ctx.index - 1))

\* The first rule of a list that matches, or a fault, decides.
FirstMatch(rules, ctx) == Unless("no", [k \in DOMAIN rules |-> Verdict(rules[k], ctx)])

----------------------------------------------------------------------------
(* The run *)

Init ==
  /\ \E c \in Cases : strategy = c.strategy /\ FeedInit(c)
  /\ runtimes = None
  /\ values = [s \in Wanted |-> <<>>]
  /\ cash = run.cash /\ positions = None /\ peak = 0 /\ decided = None
  /\ said = [s \in Wanted |-> <<>>]

Compile ==
  /\ OpenFeed(ValidStrategy(Normalized(strategy)))
  /\ strategy' = Normalized(strategy)
  /\ UNCHANGED <<indicatorVars, bookVars>>

Read ==
  /\ ReadStep
  /\ UNCHANGED <<strategy, indicatorVars, bookVars>>

\* The runtimes of a symbol after one more bar, each with the value it gave.
AppendBar(s, bar) ==
  LET specs == IndicatorsOf(strategy)
  IN  [k \in DOMAIN specs |->
         AddBar(specs[k],
                IF s \in DOMAIN runtimes THEN runtimes[s][k].state ELSE NewRuntime(specs[k]),
                bar)]

\* The indicators of the symbols of a frame grow with their series.
AppendFrame ==
  /\ AppendBars
  /\ IF stage' = "failed" THEN UNCHANGED indicatorVars
     ELSE /\ runtimes' = [s \in DOMAIN currentBars |-> AppendBar(s, currentBars[s])] @@ runtimes
          /\ values' = [s \in Wanted |->
               IF s \in DOMAIN currentBars
               THEN Append(values[s], [k \in DOMAIN runtimes'[s] |-> runtimes'[s][k].value])
               ELSE values[s]]
  /\ UNCHANGED <<strategy, bookVars>>

----------------------------------------------------------------------------
(* Signals *)

Intent(s) ==
  LET ctx   == [symbol |-> s, index |-> Len(series[s])]
      out   == FirstMatch(strategy.stops \o strategy.exits, ctx)
      again == IF strategy.rebalance = <<>> THEN strategy.entries ELSE strategy.rebalance
      Side(v, side) == CASE v = "yes" -> side [] v = "no" -> "none" [] OTHER -> v
  IN  IF ~Held(s) THEN Side(FirstMatch(strategy.entries, ctx), "buy")
      ELSE IF out # "no" THEN Side(out, "sell")
      ELSE IF strategy.rebalances THEN Side(FirstMatch(again, ctx), "buy")
      ELSE "none"

RECURSIVE OfMarket(_)
OfMarket(expr) ==
  /\ expr.kind \notin CrossSectional \union {"position", "portfolio"}
  /\ \A k \in DOMAIN expr.args : OfMarket(expr.args[k])

\* Rules that read nothing but bars and indicators of their own symbol.
RECURSIVE MarketRule(_)
MarketRule(rule) ==
  /\ rule.operator \notin Stops \union {"volatility_stop", "position_exists", "target_weight_changed"}
  /\ \A k \in DOMAIN rule.args : OfMarket(rule.args[k])
  /\ \A k \in DOMAIN rule.rules : MarketRule(rule.rules[k])

RECURSIVE TemporalIn(_)
TemporalIn(rule) ==
  (IF rule.operator \in Temporal /\ MarketRule(rule) THEN {rule} ELSE {})
    \union UNION {TemporalIn(rule.rules[k]) : k \in DOMAIN rule.rules}

TemporalRules == UNION {TemporalIn(rule) : rule \in RulesOf(strategy)}

Remembered == {rule.rules[1] : rule \in TemporalRules}

Evaluated == run.symbols \intersect DOMAIN currentBars

Decide ==
  /\ stage = "decide"
  /\ decided' = [s \in Evaluated |-> Intent(s)]
  /\ Turn("decide", IF \E s \in Evaluated : decided'[s] = "fault" THEN "failed" ELSE "settle")
  /\ said' = [s \in Wanted |->
       IF s \in Evaluated
       THEN Append(said[s], [child \in Remembered |-> Verdict(child, [symbol |-> s, index |-> Len(series[s])])])
       ELSE said[s]]
  /\ UNCHANGED <<strategy, indicatorVars, cash, positions, peak>>

\* Any of the signals is filled with one unit at the close, sales and then purchases.
Settle(filled) ==
  LET sold   == {s \in filled : decided[s] = "sell"}
      bought == {s \in filled : decided[s] = "buy" /\ ~Held(s)}
      Worth(symbols) == MapThenSumSet(LAMBDA s : currentBars[s].close, symbols)
      now    == [s \in bought |-> [entry |-> currentBars[s].time, price |-> Num(currentBars[s].close)]]
      kept   == [s \in (DOMAIN positions) \ sold |-> positions[s]]
      held   == (DOMAIN kept \union bought) \intersect DOMAIN currentBars
  IN  /\ Turn("settle", "read")
      /\ cash + Worth(sold) >= Worth(bought)
      /\ cash' = cash + Worth(sold) - Worth(bought)
      /\ positions' = now @@ kept
      /\ peak' = IF cash' + Worth(held) > peak THEN cash' + Worth(held) ELSE peak
      /\ UNCHANGED <<strategy, indicatorVars, decided, said>>

Terminated ==
  /\ stage \in {"done", "failed", "rejected"}
  /\ UNCHANGED vars

Next ==
  \/ Compile
  \/ Read
  \/ AppendFrame
  \/ Decide
  \/ \E filled \in SUBSET {s \in DOMAIN decided : decided[s] \in {"buy", "sell"}} : Settle(filled)
  \/ Terminated

Spec == Init /\ [][Next]_vars

----------------------------------------------------------------------------
(* Properties *)

\* What a rule finds when it looks back is what was true then: for_n_bars,
\* bars_since and cooldown, which evaluate their child again at earlier bars,
\* agree with what that child said when those bars were the newest. Only
\* children over bars and indicators are meant: a position, a portfolio value or
\* a rank is always the present one.
HistoryIsAsItWas ==
  stage = "settle" =>
    \A rule \in TemporalRules, s \in Evaluated :
      LET i     == Len(series[s])
          ctx   == [symbol |-> s, index |-> i]
          n     == Bars(ValueAt(rule.args[1], ctx, i))
          yes   == {j \in 1..i : said[s][j][rule.rules[1]] = "yes"}
          since == \E j \in yes : j < i /\ j >= i - n
          clear == \A j \in 1..i : said[s][j][rule.rules[1]] # "fault"
      IN  n >= 1 /\ clear =>
            Verdict(rule, ctx) =
              Says(CASE rule.operator = "for_n_bars" -> n <= i /\ (i - n + 1)..i \subseteq yes
                     [] rule.operator = "bars_since" -> since
                     [] rule.operator = "cooldown"   -> i \in yes /\ ~since)

=============================================================================
