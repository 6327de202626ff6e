--------------------------- MODULE MCBacktestRules ---------------------------
EXTENDS BacktestRules

MCWeekOf  == <<1, 1, 2, 2, 3>>
MCMonthOf == <<1, 1, 1, 2, 2>>

----------------------------------------------------------------------------
(* Strategies *)

Expr(kind, name, args) ==
  [kind |-> kind, name |-> name, value |-> Zero, timeframe |-> "", indicator |-> <<>>, args |-> args]

V(n)            == [Expr("value", "", <<>>) EXCEPT !.value = Num(n)]
P(field)        == Expr("price", field, <<>>)
Ref(alias)      == Expr("ref", alias, <<>>)
Pos(field)      == Expr("position", field, <<>>)
Book(field)     == Expr("portfolio", field, <<>>)
Of(kind, args)  == Expr(kind, "", args)
On(tf, expr)    == [expr EXCEPT !.timeframe = tf]
Close           == P("close")

R(op, args)     == [operator |-> op, args |-> args, rules |-> <<>>]
G(op, rules)    == [operator |-> op, args |-> <<>>, rules |-> rules]
N(op, child, n) == [operator |-> op, args |-> <<V(n)>>, rules |-> <<child>>]

Ind(id, n) ==
  [id |-> id, source |-> "close", compare |-> "", window |-> n, k_window |-> 0, d_window |-> 0,
   fast_window |-> 0, slow_window |-> 0, signal_window |-> 0, atr_window |-> 0,
   multiplier |-> 0, output |-> ""]

Inline(spec) == [Expr("indicator", "", <<>>) EXCEPT !.indicator = spec]

Macd(output)    == [Ind("macd", 0) EXCEPT !.fast_window = 1, !.slow_window = 2, !.signal_window = 2, !.output = output]
Stoch(output)   == [Ind("stochastic", 2) EXCEPT !.d_window = 2, !.output = output]
Kama            == [Ind("kama", 2) EXCEPT !.fast_window = 1, !.slow_window = 3]
Beta            == [Ind("beta", 2) EXCEPT !.compare = "high"]

MCIndicators ==
  [k \in 1..15 |-> Ind(<<"sma", "ema", "wma", "hma", "rsi", "roc", "donchian_high", "donchian_low",
     "bollinger_middle", "atr", "natr", "adx", "di_plus", "di_minus", "keltner_middle">>[k], 2)]
    \o <<Ind("sma", 3), Ind("rsi", 3), Ind("hma", 4), [Ind("sma", 2) EXCEPT !.source = "low"],
         [Ind("keltner_upper", 2) EXCEPT !.multiplier = 1], [Ind("keltner_lower", 2) EXCEPT !.atr_window = 1],
         Macd(""), Macd("signal"), Macd("histogram"), Stoch(""), Stoch("d"), Kama, Beta>>

Bare(entries) ==
  [size |-> Num(50), indicators |-> None, entry |-> NoRule, exit |-> NoRule, entries |-> entries,
   exits |-> <<>>, rebalance |-> <<>>, stops |-> <<>>, rebalances |-> FALSE,
   symbols |-> {1}, benchmark |-> {}, timeframe |-> "1d", cash |-> 5]

Above(a, b) == R("gt", <<a, b>>)
Under(a, b) == R("lt", <<a, b>>)
Sma2        == Inline(Ind("sma", 2))
Rising      == R("rising", <<Close, V(2)>>)

Pair(s) == [s EXCEPT !.symbols = {1, 2}, !.benchmark = {3}]

MCRules ==
  { [Bare(<<G("all", <<N("for_n_bars", Above(Close, V(1)), 2),
                       G("not", <<N("bars_since", Under(Close, V(2)), 2)>>)>>)>>)
       EXCEPT !.exits = <<N("cooldown", R("gte", <<Close, V(2)>>), 2)>>],
    [Bare(<<G("any", <<Rising, R("falling", <<Close, V(3)>>)>>)>>)
       EXCEPT !.exits = <<R("slope", <<Close, V(1), V(0)>>), N("for_n_bars", N("bars_since", Rising, 2), 2)>>,
              !.stops = <<R("stop_loss", <<Of("div", <<V(1), V(3)>>)>>)>>],
    [Bare(<<>>)
       EXCEPT !.entry = N("cooldown", R("crosses_above", <<Close, Ref("fast")>>), 2),
              !.exit = R("crosses_below", <<Close, Sma2>>),
              !.indicators = ("fast" :> Ind("sma", 2)),
              !.stops = <<R("take_profit", <<V(1)>>)>>],
    [Bare(<<R("between", <<Close, V(1), V(2)>>)>>)
       EXCEPT !.exits = <<R("new_low", <<Close, V(2)>>), R("new_high", <<Close, V(3)>>), R("changed", <<Close>>)>>,
              !.stops = <<R("time_stop", <<V(2)>>)>>],
    [Bare(<<N("bars_since", R("weekly", <<>>), 1), R("monthly", <<>>)>>)
       EXCEPT !.exits = <<N("cooldown", R("first_trading_day", <<>>), 3)>>,
              !.stops = <<R("trailing_stop", <<Of("div", <<V(1), V(2)>>)>>)>>],
    [Pair(Bare(<<R("lte", <<Of("rank", <<Close>>), V(1)>>),
                 Above(Of("relative_strength", <<Sma2>>), V(0))>>))
       EXCEPT !.exits = <<R("lt", <<Of("percentile", <<Close>>), V(50)>>)>>,
              !.rebalance = <<R("target_weight_changed", <<V(10)>>)>>,
              !.rebalances = TRUE],
    [Pair(Bare(<<Above(Book("cash_pct"), V(30)), Under(Book("portfolio_drawdown"), V(0))>>))
       EXCEPT !.exits = <<G("all", <<R("position_exists", <<>>), Above(Book("exposure_pct"), V(50)),
                                     R("eq", <<Book("position_count"), V(2)>>)>>),
                          G("any", <<Above(Pos("holding_bars"), V(1)), Under(Pos("drawdown_from_entry"), V(0)),
                                     Above(Pos("unrealized_return"), V(0))>>)>>,
              !.stops = <<R("volatility_stop", <<Inline(Ind("atr", 1)), V(1)>>)>>],
    [Pair(Bare(<<Above(Of("add", <<Close, V(1)>>), Of("mul", <<V(2), Close>>)),
                 Under(Of("ratio", <<Close, P("open")>>), V(1))>>))
       EXCEPT !.exits = <<R("eq", <<Of("spread", <<Close, P("low")>>), Of("abs", <<Of("sub", <<V(1), V(1)>>)>>)>>),
                          R("gte", <<Of("min", <<Close, V(2)>>), Of("max", <<P("adjusted_close"), V(2)>>)>>)>>],
    Bare(<<Above(On("1d", Close), On("1d", Sma2)), Above(On("1w", Close), V(0))>>) }

\* Counts and thresholds are only looked at when a rule is evaluated.
MCFaults ==
  {Bare(<<rule>>) : rule \in
     {R("rising", <<Close, V(1)>>), N("for_n_bars", Rising, 0), R("target_weight_changed", <<V(-1)>>),
      R("volatility_stop", <<V(1), V(-1)>>), R("slope", <<Close, V(0), V(0)>>)}}

MCMalformed ==
  {Bare(<<>>), [Bare(<<Rising>>) EXCEPT !.size = Zero], [Bare(<<Rising>>) EXCEPT !.timeframe = "1h"],
   [Bare(<<Rising>>) EXCEPT !.indicators = ("a" :> Ind("sma", 0))]}
    \union {Bare(<<rule>>) : rule \in
     {Above(Close, Ref("a")), R("gt", <<Close>>), G("not", <<>>), G("all", <<>>), NoRule,
      R("weekly", <<V(1)>>), N("cooldown", R("between", <<Close, Close>>), 2),
      Above(Of("rank", <<Of("add", <<V(1), Of("rank", <<Close>>)>>)>>), V(1)),
      Above(On("1w", Pos("holding_bars")), V(1)), Above(On("2w", Close), V(1)),
      Above(Of("add", <<Close>>), V(1)), Above(P("bid"), V(1)),
      Above(Inline([Kama EXCEPT !.fast_window = 30]), V(1)), Above(Inline(Macd("mean")), V(1))}}

----------------------------------------------------------------------------
(* Stored bars *)

Shape(o, h, l, c, v) == [open |-> o, high |-> h, low |-> l, close |-> c, adjusted_close |-> 0, volume |-> v]
Up      == Shape(2, 4, 1, 3, 2)
Down    == Shape(3, 3, 2, 2, 1)
High    == Shape(5, 6, 4, 6, 1)
Idle    == Shape(0, 0, 0, 3, 0)
Flat(c) == [Shape(c, c, c, c, 1) EXCEPT !.adjusted_close = c]

\* days[d] is the set of <<symbol, provider, bar>> of a date.
RECURSIVE Stored(_, _)
Stored(days, d) ==
  IF d > Len(days) THEN <<>>
  ELSE LET today == SetToSortSeq(days[d], LAMBDA a, b : 10 * a[1] + a[2] < 10 * b[1] + b[2])
       IN  [k \in DOMAIN today |->
              today[k][3] @@ [symbol |-> today[k][1], date |-> d, readable |-> today[k][3].close < 9]]
             \o Stored(days, d + 1)

Only(bars) == Stored([d \in DOMAIN bars |-> {<<1, 1, bars[d]>>}], 1)

RunFields == {"symbols", "benchmark", "timeframe", "cash"}

Case(s, r) ==
  [strategy |-> [f \in (DOMAIN s) \ RunFields |-> s[f]], run |-> [f \in RunFields |-> s[f]], rows |-> r]

IndicatorCases ==
  LET s == Bare([k \in DOMAIN MCIndicators |-> Above(Inline(MCIndicators[k]), V(1000))])
  IN  {Case(s, Only(bars)) : bars \in [1..5 -> {Up, Down, High, Idle}]}

\* 1 and 2 trade on some of the days, 2 with a second provider, 3 is the benchmark, 9 is not asked for.
MixedRows(a, b, again, c) ==
  Stored([d \in 1..5 |->
    {<<s, provider, bar>> \in {<<1, 1, a[d]>>, <<2, 1, b[d]>>, <<2, 2, again[d]>>, <<3, 1, c[d]>>, <<9, 1, Up>>} :
       bar.close > 0}], 1)

Absent == Shape(0, 0, 0, 0, 0)
Broken == Shape(1, 9, 1, 9, 1)   \* a row that cannot be read
Never  == [d \in 1..5 |-> Absent]

ResampleCases ==
  {Case([Pair(Bare(<<Above(On(tf, Close), On(tf, Sma2)), Above(Of("rank", <<Close>>), V(1))>>))
           EXCEPT !.timeframe = tf, !.cash = 9],
        MixedRows(a, b[1], b[2], <<Up, Absent, Down, Absent, High>>)) :
     tf \in {"1d", "1w", "1mo"}, a \in [1..5 -> {Up, Down, Absent}],
     b \in {<<<<Up, Down, High, Up, Absent>>, <<Absent, High, Up, Absent, Down>>>>,
            <<<<Idle, Idle, Absent, Down, High>>, Never>>,
            <<<<Up, Idle, Absent, Down, High>>, <<Down, Absent, Absent, Up, Idle>>>>,
            <<<<Down, Up, Absent, Broken, High>>, Never>>}}

RuleCases ==
  LET closes == [1..4 -> {1, 2, 3}]
  IN  {Case(s, MixedRows([d \in 1..5 |-> IF d < 5 THEN Flat(a[d]) ELSE Absent],
                         [d \in 1..5 |-> IF d \in {1, 2, 4} THEN Flat(b[d]) ELSE Absent],
                         Never, <<Up, Up, Idle, Up, Absent>>)) :
         s \in MCRules, a \in closes, b \in {<<2, 2, 2, 2>>, <<3, 1, 2, 2>>}}

SpecCases ==
  {Case(s, Only(<<Flat(1), Flat(2), Flat(3)>>)) : s \in MCMalformed \union MCFaults}

MCCases == IndicatorCases \union ResampleCases \union RuleCases \union SpecCases

----------------------------------------------------------------------------
(* The indicators as textbooks define them, over all bars up to the newest *)

Wma(xs) == SumOf([i \in DOMAIN xs |-> xs[i] ** Num(2 * i)]) // Num(Len(xs) * (Len(xs) + 1))

\* The exponential average of xs, which starts as a mean.
Ema(xs, n) ==
  LET ema[i \in n..Len(xs)] ==
        IF i = n THEN Mean(SubSeq(xs, 1, n))
        ELSE ((xs[i] ** Num(2)) ++ (ema[i - 1] ** Num(n - 1))) // Num(n + 1)
  IN  Once(Len(xs) >= n, ema[Len(xs)])

Upto(xs, i) == SubSeq(xs, 1, i)

\* The values of an indicator from its first one on.
From(xs, first, of(_)) == [k \in 1..(Len(xs) - first + 1) |-> of(Upto(xs, first + k - 1))]

Hma(xs, n) ==
  LET half    == IF n < 2 THEN 1 ELSE n \div 2
      root    == IF n < 4 THEN 1 ELSE 2
      Diff(ys) == (Num(2) ** Wma(Newest(ys, half))) -- Wma(Newest(ys, n))
  IN  Once(Len(xs) >= n + root - 1, Wma(Newest(From(xs, n, Diff), root)))

Line(xs, spec) == Ema(xs, spec.fast_window) -- Ema(xs, spec.slow_window)

MacdLines(xs, spec) == From(xs, spec.slow_window, LAMBDA ys : Line(ys, spec))

Range2(bars, i) ==
  LET top == IF i > 1 /\ bars[i - 1].close > bars[i].high THEN bars[i - 1].close ELSE bars[i].high
      low == IF i > 1 /\ bars[i - 1].close < bars[i].low THEN bars[i - 1].close ELSE bars[i].low
  IN  Num(top - low)

Atr(bars, n) == Once(Len(bars) >= n, Mean(Newest([i \in DOMAIN bars |-> Range2(bars, i)], n)))

\* Wilder's running total of what the bars from the second on bring.
Running(bars, n, what(_)) ==
  LET total[i \in (n + 1)..Len(bars)] ==
        IF i = n + 1 THEN SumOf([k \in 1..n |-> what(k + 1)])
        ELSE ((total[i - 1] ** Num(n - 1)) // Num(n)) ++ what(i)
  IN  total[Len(bars)]

Directional(bars, n, sign) ==
  LET rise(i) == sign * (IF sign = 1 THEN bars[i].high - bars[i - 1].high ELSE bars[i].low - bars[i - 1].low)
      fall(i) == IF sign = 1 THEN bars[i - 1].low - bars[i].low ELSE bars[i].high - bars[i - 1].high
      Move(i) == IF rise(i) > fall(i) /\ rise(i) > 0 THEN Num(rise(i)) ELSE Zero
      range   == Running(bars, n, LAMBDA i : Range2(bars, i))
  IN  IF range = Zero THEN Zero ELSE (Running(bars, n, Move) // range) ** Num(100)

Dx(bars, n) ==
  LET up   == Directional(bars, n, 1)
      down == Directional(bars, n, -1)
  IN  IF up = down THEN Zero ELSE (Num(100) ** Magnitude(up -- down)) // (up ++ down)

Adx(bars, n) ==
  LET adx[i \in (2 * n)..Len(bars)] ==
        IF i = 2 * n THEN Mean(From(Upto(bars, i), n + 1, LAMBDA b : Dx(b, n)))
        ELSE ((adx[i - 1] ** Num(n - 1)) ++ Dx(Upto(bars, i), n)) // Num(n)
  IN  Once(Len(bars) >= 2 * n, adx[Len(bars)])

KamaOf(xs, spec) ==
  LET n == spec.window
      path(i)  == SumOf([k \in 1..n |-> Magnitude(xs[i - k + 1] -- xs[i - k])])
      ratio(i) == IF path(i) = Zero THEN Zero ELSE Magnitude(xs[i] -- xs[i - n]) // path(i)
      fast     == Frac(2, spec.fast_window + 1)
      slow     == Frac(2, spec.slow_window + 1)
      pull(i)  == (ratio(i) ** fast) ++ ((Num(1) -- ratio(i)) ** slow)
      kama[i \in n..Len(xs)] ==
        IF i = n THEN Mean(Upto(xs, n))
        ELSE ((pull(i) ** pull(i)) ** xs[i]) ++ ((Num(1) -- (pull(i) ** pull(i))) ** kama[i - 1])
  IN  Once(Len(xs) >= n, kama[Len(xs)])

StochK(bars, n) ==
  LET newest == Newest(bars, n)
      low    == Lowest([i \in DOMAIN newest |-> Num(newest[i].low)])
      high   == Highest([i \in DOMAIN newest |-> Num(newest[i].high)])
  IN  IF low = high THEN Num(50) ELSE (Num(100) ** (Num(Last(bars).close) -- low)) // (high -- low)

\* The slope of the returns of source on those of compare; a bar after a price of 0 has none.
Slope2(bars, spec) ==
  LET L       == Len(bars)
      at(i)   == <<Price(bars[i], spec.source), Price(bars[i], spec.compare)>>
      good(i) == i > 1 /\ at(i - 1)[1] # Zero /\ at(i - 1)[2] # Zero
      ret(i)  == [k \in 1..2 |-> (at(i)[k] -- at(i - 1)[k]) // at(i - 1)[k]]
      valid   == SelectSeq([i \in 1..L |-> i], good)
      last    == Newest([k \in DOMAIN valid |-> ret(valid[k])], spec.window)
      Sum(of(_)) == SumOf([k \in DOMAIN last |-> of(last[k])])
      n       == Num(spec.window)
      cross   == (n ** Sum(LAMBDA p : p[1] ** p[2])) -- (Sum(LAMBDA p : p[1]) ** Sum(LAMBDA p : p[2]))
      spread  == (n ** Sum(LAMBDA p : p[2] ** p[2])) -- (Sum(LAMBDA p : p[2]) ** Sum(LAMBDA p : p[2]))
  IN  Once(good(L) /\ Len(valid) >= spec.window, IF spread = Zero THEN Zero ELSE cross // spread)

Reference(spec, bars) ==
  LET xs == PricesOf(spec, bars)
      n  == spec.window
      id == spec.id
      L  == Len(bars)
      atr   == Atr(bars, OrElse(spec.atr_window, n))
      reach == IF id = "keltner_middle" THEN Zero ELSE atr ** Num(OrElse(spec.multiplier, 2))
      lines == MacdLines(xs, spec)
      ks    == From(bars, n, LAMBDA b : StochK(b, n))
  IN  CASE id \in {"sma", "bollinger_middle"}         -> BatchSma(spec, bars)
        [] id \in {"donchian_high", "donchian_low"}   -> BatchExtreme(spec, bars)
        [] id = "rsi"  -> BatchRsi(spec, bars)
        [] id = "ema"  -> Ema(xs, n)
        [] id = "wma"  -> Once(L >= n, Wma(Newest(xs, n)))
        [] id = "hma"  -> Hma(xs, n)
        [] id = "kama" -> KamaOf(xs, spec)
        [] id = "roc"  -> Once(L > n /\ xs[L - n] # Zero, (Num(100) ** (xs[L] -- xs[L - n])) // xs[L - n])
        [] id = "atr"  -> atr
        [] id = "natr" -> Once(L >= n, (Num(100) ** atr) // Num(bars[L].close))
        [] id = "adx"  -> Adx(bars, n)
        [] id \in {"di_plus", "di_minus"} ->
             Once(L > n, Directional(bars, n, IF id = "di_plus" THEN 1 ELSE -1))
        [] id \in Keltner ->
             Once(L >= n, Ema(xs, n) ++ (IF id = "keltner_lower" THEN Zero -- reach ELSE reach))
        [] id = "macd" ->
             Once(L >= spec.slow_window,
               CASE spec.output = ""          -> Line(xs, spec)
                 [] spec.output = "signal"    -> Ema(lines, spec.signal_window)
                 [] spec.output = "histogram" ->
                      Once(Len(lines) >= spec.signal_window, Line(xs, spec) -- Ema(lines, spec.signal_window)))
        [] id = "stochastic" ->
             Once(L >= n, IF spec.output = "" THEN Last(ks)
                          ELSE Once(Len(ks) >= spec.d_window, Mean(Newest(ks, spec.d_window))))
        [] id = "beta" -> Slope2(bars, spec)

\* Bar by bar comes to the same as all at once: the value an indicator's runtime
\* gives for the newest bar, from the sums, windows and averages it has carried
\* along, is the value its definition gives over every bar so far (for sma, rsi
\* and the Donchian channel, that of the registry's Calculate), and it is missing
\* for exactly as long as that definition lacks bars.
StreamingIsBatch ==
  stage = "decide" =>
    \A s \in DOMAIN currentBars, k \in DOMAIN IndicatorsOf(strategy) :
      Last(values[s])[k] = Reference(IndicatorsOf(strategy)[k], series[s])
=============================================================================
