------------------------- MODULE BacktestIndicators -------------------------
(***************************************************************************)
(* packages/backtest rolling.go: the indicators as the engine computes     *)
(* them, one bar at a time. A runtime keeps the little it needs of the     *)
(* past; AddBar gives its next state and the value of the new bar, or      *)
(* NoValue as long as the indicator warms up.                              *)
(*                                                                         *)
(* Indicators that need a square root (the outer Bollinger bands, zscore   *)
(* and correlation) have no exact value and are left out.                  *)
(***************************************************************************)
EXTENDS Rationals, BacktestBars, SequencesExt

Price(bar, field) ==
  IF field = "adjusted_close" /\ bar.adjusted_close = 0 THEN Num(bar.close) ELSE Num(bar[field])

----------------------------------------------------------------------------
(* Moving windows *)

SumOf(xs) == FoldLeft(LAMBDA total, x : total ++ x, Zero, xs)

Mean(xs) == SumOf(xs) // Num(Len(xs))

\* The newest n of the values seen.
Slide(xs, x, n) == IF Len(xs) < n THEN Append(xs, x) ELSE Append(Tail(xs), x)

\* A value that exists only once its window is full.
Once(full, value) == IF full THEN value ELSE NoValue

Answer(state, value) == [state |-> state, value |-> value]

Window0 == [xs |-> <<>>]

MeanState0 == [xs |-> <<>>, sum |-> Zero]

\* A mean whose sum is kept up to date: what enters is added, what leaves is taken off.
MeanAdd(s, x, n) ==
  LET xs  == Slide(s.xs, x, n)
      sum == (s.sum ++ x) -- (IF Len(s.xs) = n THEN Head(s.xs) ELSE Zero)
  IN  Answer([xs |-> xs, sum |-> sum], Once(Len(xs) = n, sum // Num(n)))

EmaState0 == [count |-> 0, sum |-> Zero, ema |-> Zero]

\* Slip: the average starts as the last of the first n values.
EmaAddFromLast(s, x, n) ==
  LET count == s.count + 1
      ema   == IF s.count >= n THEN s.ema ++ ((x -- s.ema) ** Frac(2, n + 1)) ELSE x
  IN  Answer([count |-> count, sum |-> s.sum, ema |-> ema], Once(count >= n, ema))

\* The first value is the mean of the first n, each further one moves towards the new price.
EmaAdd(s, x, n) ==
  LET count == s.count + 1
      sum   == s.sum ++ x
      ema   == IF s.count >= n THEN s.ema ++ ((x -- s.ema) ** Frac(2, n + 1)) ELSE sum // Num(n)
  IN  Answer([count |-> count, sum |-> IF s.count >= n THEN s.sum ELSE sum, ema |-> ema],
             Once(count >= n, ema))

Weighted(xs) ==
  SumOf([i \in DOMAIN xs |-> xs[i] ** Num(i)]) // SumOf([i \in DOMAIN xs |-> Num(i)])

WmaAdd(s, x, n) ==
  LET xs == Slide(s.xs, x, n) IN Answer([xs |-> xs], Once(Len(xs) = n, Weighted(xs)))

Isqrt(n) == CHOOSE k \in 0..n : k * k <= n /\ n < (k + 1) * (k + 1)

\* A parameter that is not set has a default.
OrElse(n, fallback) == IF n = 0 THEN fallback ELSE n

AtLeastOne(n) == IF n < 1 THEN 1 ELSE n

HmaState0 == [fast |-> Window0, slow |-> Window0, smoothing |-> Window0]

\* The smoothing window is fed only once both averages are there.
HmaAdd(s, x, n) ==
  LET fast  == WmaAdd(s.fast, x, AtLeastOne(n \div 2))
      slow  == WmaAdd(s.slow, x, n)
      input == (Num(2) ** fast.value) -- slow.value
      out   == WmaAdd(s.smoothing, input, AtLeastOne(Isqrt(n)))
      ready == fast.value # NoValue /\ slow.value # NoValue
  IN  Answer([fast |-> fast.state, slow |-> slow.state,
              smoothing |-> IF ready THEN out.state ELSE s.smoothing],
             Once(ready, out.value))

KamaState0 == [xs |-> <<>>, kama |-> NoValue]

\* The average follows the price faster the straighter the price moved.
KamaAdd(s, x, spec) ==
  LET n       == spec.window
      xs      == Slide(s.xs, x, n + 1)
      change  == Magnitude(Last(xs) -- xs[1])
      path    == SumOf([i \in 1..n |-> Magnitude(xs[i + 1] -- xs[i])])
      ratio   == IF path = Zero THEN Zero ELSE change // path
      fast    == Frac(2, OrElse(spec.fast_window, 2) + 1)
      slow    == Frac(2, OrElse(spec.slow_window, 30) + 1)
      pull    == (ratio ** (fast -- slow)) ++ slow
      kama    == IF s.kama = NoValue THEN Once(Len(xs) >= n, Mean(xs))
                 ELSE s.kama ++ ((pull ** pull) ** (x -- s.kama))
  IN  Answer([xs |-> xs, kama |-> kama], kama)

----------------------------------------------------------------------------
(* Momentum *)

MacdState0 == [fast |-> EmaState0, slow |-> EmaState0, signal |-> EmaState0]

MacdAdd(s, x, spec) ==
  LET fast   == EmaAdd(s.fast, x, spec.fast_window)
      slow   == EmaAdd(s.slow, x, spec.slow_window)
      ready  == fast.value # NoValue /\ slow.value # NoValue
      line   == fast.value -- slow.value
      signal == EmaAdd(s.signal, line, spec.signal_window)
      next   == [fast |-> fast.state, slow |-> slow.state,
                 signal |-> IF ready THEN signal.state ELSE s.signal]
  IN  Answer(next,
        Once(ready,
             CASE spec.output \in {"", "line"} -> line
               [] spec.output = "signal"       -> signal.value
               [] spec.output = "histogram"    -> Once(signal.value # NoValue, line -- signal.value)))

RsiState0 == [seen |-> 0, prev |-> Zero, gain |-> Zero, loss |-> Zero]

RsiValue(gain, loss) ==
  IF loss = Zero THEN (IF gain = Zero THEN Num(50) ELSE Num(100))
  ELSE Num(100) -- (Num(100) // (Num(1) ++ (gain // loss)))

\* gain and loss are sums until window changes are in, smoothed averages afterwards.
RsiAdd(s, x, n) ==
  LET seen   == s.seen + 1
      gain   == Greatest(x -- s.prev, Zero)
      loss   == Greatest(s.prev -- x, Zero)
      Smoothed(avg, new) ==
        IF seen <= n THEN avg ++ new
        ELSE IF seen = n + 1 THEN (avg ++ new) // Num(n)
        ELSE ((avg ** Num(n - 1)) ++ new) // Num(n)
      next   == IF s.seen = 0 THEN [s EXCEPT !.seen = 1, !.prev = x]
                ELSE [seen |-> seen, prev |-> x,
                      gain |-> Smoothed(s.gain, gain), loss |-> Smoothed(s.loss, loss)]
  IN  Answer(next, Once(seen > n, RsiValue(next.gain, next.loss)))

RocAdd(s, x, n) ==
  LET xs == Slide(s.xs, x, n + 1)
  IN  Answer([xs |-> xs],
             Once(Len(xs) = n + 1 /\ xs[1] # Zero, ((x // xs[1]) -- Num(1)) ** Num(100)))

Highest(xs) == FoldLeft(Greatest, Head(xs), xs)
Lowest(xs)  == FoldLeft(Least, Head(xs), xs)

ExtremeAdd(s, x, spec) ==
  LET xs == Slide(s.xs, x, spec.window)
  IN  Answer([xs |-> xs],
             Once(Len(xs) = spec.window, IF spec.id = "donchian_high" THEN Highest(xs) ELSE Lowest(xs)))

BollingerMiddleAdd(s, x, n) ==
  LET xs == Slide(s.xs, x, n) IN Answer([xs |-> xs], Once(Len(xs) = n, Mean(xs)))

StochasticState0 == [bars |-> <<>>, ks |-> <<>>]

StochasticAdd(s, bar, spec) ==
  LET kWindow == OrElse(spec.k_window, spec.window)
      dWindow == OrElse(spec.d_window, 3)
      bars    == Slide(s.bars, bar, kWindow)
      lowest  == Lowest([i \in DOMAIN bars |-> Num(bars[i].low)])
      highest == Highest([i \in DOMAIN bars |-> Num(bars[i].high)])
      k       == IF highest = lowest THEN Num(50)
                 ELSE ((Num(bar.close) -- lowest) // (highest -- lowest)) ** Num(100)
      full    == Len(bars) = kWindow
      ks      == IF full THEN Slide(s.ks, k, dWindow) ELSE s.ks
  IN  Answer([bars |-> bars, ks |-> ks],
             Once(full, IF spec.output \in {"", "k"} THEN k ELSE Once(Len(ks) = dWindow, Mean(ks))))

----------------------------------------------------------------------------
(* Range and direction *)

TrueRange(bar, prevClose) ==
  LET span == Num(bar.high - bar.low)
      up   == Magnitude(Num(bar.high) -- prevClose)
      down == Magnitude(Num(bar.low) -- prevClose)
  IN  IF prevClose = NoValue THEN span ELSE Greatest(span, Greatest(up, down))

AtrState0 == [mean |-> MeanState0, prevClose |-> NoValue]

AtrAdd(s, bar, n) ==
  LET mean == MeanAdd(s.mean, TrueRange(bar, s.prevClose), n)
  IN  Answer([mean |-> mean.state, prevClose |-> Num(bar.close)], mean.value)

NatrAdd(s, bar, n) ==
  LET atr == AtrAdd(s, bar, n)
  IN  Answer(atr.state,
             Once(atr.value # NoValue /\ bar.close > 0, (atr.value // Num(bar.close)) ** Num(100)))

KeltnerState0 == [ema |-> EmaState0, atr |-> AtrState0]

KeltnerAdd(s, bar, spec) ==
  LET ema    == EmaAdd(s.ema, Price(bar, spec.source), spec.window)
      atr    == AtrAdd(s.atr, bar, OrElse(spec.atr_window, spec.window))
      reach  == atr.value ** Num(OrElse(spec.multiplier, 2))
  IN  Answer([ema |-> ema.state, atr |-> atr.state],
        Once(ema.value # NoValue /\ atr.value # NoValue,
             CASE spec.id = "keltner_middle" -> ema.value
               [] spec.id = "keltner_upper"  -> ema.value ++ reach
               [] spec.id = "keltner_lower"  -> ema.value -- reach))

DirectionState0 ==
  [prev |-> <<>>, count |-> 0, tr |-> Zero, plus |-> Zero, minus |-> Zero, dxs |-> <<>>, adx |-> NoValue]

\* What a bar adds to the true range and to the moves up and down.
Movement(prev, bar) ==
  LET up   == bar.high - prev.high
      down == prev.low - bar.low
  IN  [tr    |-> TrueRange(bar, Num(prev.close)),
       plus  |-> IF up > down /\ up > 0 THEN Num(up) ELSE Zero,
       minus |-> IF down > up /\ down > 0 THEN Num(down) ELSE Zero]

DirectionIndex(part, tr) == IF tr = Zero THEN Zero ELSE (Num(100) ** part) // tr

Divergence(plus, minus) ==
  IF plus ++ minus = Zero THEN Zero
  ELSE (Num(100) ** Magnitude(plus -- minus)) // (plus ++ minus)

\* The average of the first window divergences, then smoothed with each new one.
AdxOf(s, dx, n) ==
  IF s.adx # NoValue THEN ((s.adx ** Num(n - 1)) ++ dx) // Num(n)
  ELSE Once(Len(s.dxs) + 1 = n, Mean(Append(s.dxs, dx)))

DirectionAdd(s, bar, spec) ==
  LET n       == spec.window
      move    == Movement(s.prev[1], bar)
      warm    == s.count >= n
      Smooth(sum, x) == (IF warm THEN sum -- (sum // Num(n)) ELSE sum) ++ x
      moved   == [s EXCEPT !.prev = <<bar>>, !.count = @ + 1, !.tr = Smooth(@, move.tr),
                           !.plus = Smooth(@, move.plus), !.minus = Smooth(@, move.minus)]
      plusDI  == DirectionIndex(moved.plus, moved.tr)
      minusDI == DirectionIndex(moved.minus, moved.tr)
      dx      == Divergence(plusDI, minusDI)
      adx     == AdxOf(s, dx, n)
      output  == IF spec.output = "" THEN spec.id ELSE spec.output
  IN  IF s.prev = <<>> THEN Answer([s EXCEPT !.prev = <<bar>>], NoValue)
      ELSE IF moved.count < n THEN Answer(moved, NoValue)
      ELSE CASE output = "di_plus"  -> Answer(moved, plusDI)
             [] output = "di_minus" -> Answer(moved, minusDI)
             [] output = "adx"      ->
                  Answer([moved EXCEPT !.adx = adx,
                                       !.dxs = IF s.adx = NoValue THEN Append(@, dx) ELSE @], adx)

----------------------------------------------------------------------------
(* Returns of two prices side by side *)

BetaState0 == [prev |-> <<>>, returns |-> <<>>]

Covariance(xs, ys) ==
  Mean([i \in DOMAIN xs |-> (xs[i] -- Mean(xs)) ** (ys[i] -- Mean(ys))])

BetaOf(pairs) ==
  LET xs == [i \in DOMAIN pairs |-> pairs[i][1]]
      ys == [i \in DOMAIN pairs |-> pairs[i][2]]
  IN  IF Covariance(ys, ys) = Zero THEN Zero ELSE Covariance(xs, ys) // Covariance(ys, ys)

\* A bar after a price of zero gives no return: the window keeps what it had.
BetaAdd(s, bar, spec) ==
  LET now     == <<Price(bar, spec.source), Price(bar, spec.compare)>>
      usable  == s.prev # <<>> /\ Zero \prec s.prev[1] /\ Zero \prec s.prev[2]
      pair    == [k \in 1..2 |-> (now[k] // s.prev[k]) -- Num(1)]
      returns == IF usable THEN Slide(s.returns, pair, spec.window) ELSE s.returns
  IN  Answer([prev |-> now, returns |-> returns],
             Once(usable /\ Len(returns) = spec.window, BetaOf(returns)))

----------------------------------------------------------------------------
(* The registry: what an indicator may ask for, and its runtime *)

Averages == {"sma", "ema", "wma", "hma", "roc", "donchian_high", "donchian_low", "bollinger_middle"}
Keltner  == {"keltner_middle", "keltner_upper", "keltner_lower"}
Ranges   == {"atr", "natr"}
Directed == {"adx", "di_plus", "di_minus"}

\* A source and a compare value are prices here; that validateIndicator lets them have a
\* timeframe, which nothing reads afterwards, is left out.
ValidIndicator(spec) ==
  LET priced == spec.source \in PriceFields
      open   == spec.source \in PriceFields \union {""}
      fast   == IF spec.id = "kama" THEN OrElse(spec.fast_window, 2) ELSE spec.fast_window
      slow   == IF spec.id = "kama" THEN OrElse(spec.slow_window, 30) ELSE spec.slow_window
  IN  \/ spec.id \in Averages \union {"rsi"} /\ priced /\ spec.window > 0
      \/ spec.id \in Keltner /\ priced /\ spec.window > 0 /\ spec.atr_window >= 0
      \/ spec.id \in Ranges /\ spec.window > 0
      \/ /\ spec.id \in Directed
         /\ open /\ spec.window > 0
         /\ spec.output \in Directed \union {""}
      \/ /\ spec.id = "stochastic"
         /\ open /\ OrElse(spec.k_window, spec.window) > 0 /\ OrElse(spec.d_window, 3) > 0
         /\ spec.output \in {"", "k", "d", "signal"}
      \/ spec.id = "kama" /\ priced /\ spec.window > 0 /\ 0 < fast /\ fast < slow
      \/ /\ spec.id = "macd"
         /\ priced /\ 0 < fast /\ fast < slow /\ spec.signal_window > 0
         /\ spec.output \in {"", "line", "signal", "histogram"}
      \/ /\ spec.id = "beta"
         /\ priced /\ spec.compare \in PriceFields /\ spec.window > 0 /\ spec.output = ""

NewRuntime(spec) ==
  CASE spec.id = "sma"         -> MeanState0
    [] spec.id = "ema"         -> EmaState0
    [] spec.id = "hma"         -> HmaState0
    [] spec.id = "kama"        -> KamaState0
    [] spec.id = "macd"        -> MacdState0
    [] spec.id = "rsi"         -> RsiState0
    [] spec.id = "stochastic"  -> StochasticState0
    [] spec.id \in Ranges      -> AtrState0
    [] spec.id \in Keltner     -> KeltnerState0
    [] spec.id \in Directed    -> DirectionState0
    [] spec.id = "beta"        -> BetaState0
    [] OTHER                   -> Window0

AddBar(spec, s, bar) ==
  LET x == Price(bar, spec.source)
      n == spec.window
  IN  CASE spec.id = "sma"              -> MeanAdd(s, x, n)
        [] spec.id = "ema"              -> EmaAdd(s, x, n)
        [] spec.id = "wma"              -> WmaAdd(s, x, n)
        [] spec.id = "hma"              -> HmaAdd(s, x, n)
        [] spec.id = "kama"             -> KamaAdd(s, x, spec)
        [] spec.id = "macd"             -> MacdAdd(s, x, spec)
        [] spec.id = "rsi"              -> RsiAdd(s, x, n)
        [] spec.id = "roc"              -> RocAdd(s, x, n)
        [] spec.id = "bollinger_middle" -> BollingerMiddleAdd(s, x, n)
        [] spec.id = "stochastic"       -> StochasticAdd(s, bar, spec)
        [] spec.id = "atr"              -> AtrAdd(s, bar, n)
        [] spec.id = "natr"             -> NatrAdd(s, bar, n)
        [] spec.id \in Keltner          -> KeltnerAdd(s, bar, spec)
        [] spec.id \in Directed         -> DirectionAdd(s, bar, spec)
        [] spec.id = "beta"             -> BetaAdd(s, bar, spec)
        [] OTHER                        -> ExtremeAdd(s, x, spec)

----------------------------------------------------------------------------
(* registry.go: three indicators are also computed over all bars at once *)

PricesOf(spec, bars) == [i \in DOMAIN bars |-> Price(bars[i], spec.source)]

Newest(xs, n) == SubSeq(xs, Len(xs) - n + 1, Len(xs))

BatchSma(spec, bars) ==
  Once(Len(bars) >= spec.window, Mean(Newest(PricesOf(spec, bars), spec.window)))

BatchExtreme(spec, bars) ==
  LET xs == Newest(PricesOf(spec, bars), spec.window)
  IN  Once(Len(bars) >= spec.window, IF spec.id = "donchian_high" THEN Highest(xs) ELSE Lowest(xs))

BatchRsi(spec, bars) ==
  LET xs == PricesOf(spec, bars)
      n  == spec.window
      gain(i) == Greatest(xs[i] -- xs[i - 1], Zero)
      loss(i) == Greatest(xs[i - 1] -- xs[i], Zero)
      Smoothed(part(_)) ==
        LET avg[i \in (n + 1)..Len(xs)] ==
              IF i = n + 1 THEN Mean([k \in 1..n |-> part(k + 1)])
              ELSE ((avg[i - 1] ** Num(n - 1)) ++ part(i)) // Num(n)
        IN  avg[Len(xs)]
  IN  Once(Len(xs) > n, RsiValue(Smoothed(gain), Smoothed(loss)))
=============================================================================
