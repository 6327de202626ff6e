---------------------------- MODULE BacktestFeed ----------------------------
(***************************************************************************)
(* From stored daily bars to the series of the engine: the cursor of       *)
(* service/backtest/feed.go that groups rows into frames, the resampling   *)
(* stream of packages/backtest, and the engine's series.                   *)
(*                                                                         *)
(* The bars of an instrument may come from several providers: the rows are *)
(* read by date, and those of a date and symbol by provider.               *)
(*                                                                         *)
(* What the engine does with a frame is BacktestRules, which extends this  *)
(* module; here it takes its turn, and may end the run.                    *)
(***************************************************************************)
EXTENDS BacktestBars, Lists

CONSTANTS
  Cases,     \* bound: the runs asked for, and the rows stored for each
  WeekOf,    \* the ISO week of each trading date
  MonthOf    \* and its month

Dates == DOMAIN WeekOf

ASSUME FeedAssumption ==
  /\ Dates \subseteq Nat /\ DOMAIN MonthOf = Dates
  /\ \A d, e \in Dates :
       /\ WeekOf[d] \in Nat \ {0} /\ MonthOf[d] \in Nat \ {0}
       /\ d <= e => WeekOf[d] <= WeekOf[e] /\ MonthOf[d] <= MonthOf[e]
  /\ \A c \in Cases :
       /\ IsList(c.rows)
       /\ \A i, j \in DOMAIN c.rows :
            /\ c.rows[i].date \in Dates
            /\ \A field \in PriceFields : c.rows[i][field] \in Int
            /\ i <= j => c.rows[i].date <= c.rows[j].date

VARIABLES
  run,          \* what the run asks for: symbols, benchmark, timeframe and cash
  history,      \* every row of the store, by date and symbol
  stage,        \* "compile", "read", "append", "decide", "settle", "done", "failed" or "rejected"
  rows,         \* rows the cursor has not taken
  seen,         \* symbols the cursor has met
  cursor,       \* the daily frame being put together: a bar for each symbol
  key,          \* currentKey: the week or month being built, 0 for none
  builders,     \* its aggregate for each symbol
  currentBars,  \* the last frame the engine was given
  series        \* the bars of each symbol

readVars == <<rows, seen, cursor, key, builders>>
feedVars == <<run, history, stage, readVars, currentBars, series>>

None == [s \in {} |-> 0]

Wanted == run.symbols \union run.benchmark

Resampled == run.timeframe \in {"1w", "1mo"}

Bucket(timeframe, t) == IF timeframe = "1w" THEN WeekOf[t] ELSE MonthOf[t]

FeedInit(c) ==
  /\ run = c.run /\ history = c.rows
  /\ stage = "compile"
  /\ rows = history /\ seen = {} /\ cursor = None /\ key = 0 /\ builders = None
  /\ currentBars = None
  /\ series = [s \in Wanted |-> <<>>]

\* Once the strategy is accepted the feed is opened, which knows no shorter bars than those of days.
OpenFeed(accepted) ==
  /\ stage = "compile"
  /\ stage' = IF ~accepted THEN "rejected"
              ELSE IF run.timeframe \in {"1d", "1w", "1mo"} THEN "read" ELSE "failed"
  /\ UNCHANGED <<run, history, readVars, currentBars, series>>

----------------------------------------------------------------------------
(* The cursor of the store, row by row *)

Foreign(row) == row.symbol \notin Wanted

SkipRow ==
  /\ stage = "read"
  /\ rows # <<>> /\ Foreign(Head(rows))
  /\ rows' = Tail(rows)
  /\ UNCHANGED <<run, history, stage, seen, cursor, key, builders, currentBars, series>>

Joins(row) == ~Foreign(row) /\ \A s \in DOMAIN cursor : cursor[s].time = row.date

\* A second row of a symbol takes the place of the first.
JoinRow ==
  /\ stage = "read"
  /\ rows # <<>> /\ Joins(Head(rows)) /\ Head(rows).readable
  /\ LET row == Head(rows)
     IN  /\ cursor' = [s \in DOMAIN cursor \union {row.symbol} |->
                         IF s = row.symbol THEN Daily(row) ELSE cursor[s]]
         /\ seen' = seen \union {row.symbol}
  /\ rows' = Tail(rows)
  /\ UNCHANGED <<run, history, stage, key, builders, currentBars, series>>

\* The cursor reads one row past a frame, and at the end it misses symbols it never met.
CursorFails ==
  /\ stage = "read"
  /\ \/ rows # <<>> /\ ~Foreign(Head(rows)) /\ ~Head(rows).readable
     \/ rows = <<>> /\ ~(Wanted \subseteq seen)
  /\ stage' = "failed"
  /\ UNCHANGED <<run, history, readVars, currentBars, series>>

AtEnd == rows = <<>> /\ Wanted \subseteq seen

FrameClosed ==
  /\ cursor # None
  /\ \/ AtEnd
     \/ /\ rows # <<>>
        /\ ~Foreign(Head(rows)) /\ Head(rows).readable /\ ~Joins(Head(rows))

FrameTime == cursor[CHOOSE s \in DOMAIN cursor : TRUE].time

DeliverDaily ==
  /\ stage = "read" /\ ~Resampled /\ FrameClosed
  /\ stage' = "append"
  /\ currentBars' = cursor
  /\ cursor' = None
  /\ UNCHANGED <<run, history, rows, seen, key, builders, series>>

(* The resampling stream: a frame of the same week or month joins the      *)
(* aggregates; one of another waits while they are handed out.             *)
Absorb ==
  LET now == Bucket(run.timeframe, FrameTime)
  IN  /\ stage = "read" /\ Resampled /\ FrameClosed
      /\ key \in {0, now}
      /\ key' = now
      /\ builders' = [s \in DOMAIN cursor \union DOMAIN builders |->
           IF s \notin DOMAIN cursor THEN builders[s]
           ELSE IF s \notin DOMAIN builders THEN cursor[s]
           ELSE Merged(builders[s], cursor[s])]
      /\ cursor' = None
      /\ UNCHANGED <<run, history, stage, rows, seen, currentBars, series>>

Flush ==
  /\ stage = "read" /\ Resampled /\ builders # None
  /\ \/ FrameClosed /\ key # Bucket(run.timeframe, FrameTime)
     \/ AtEnd /\ cursor = None
  /\ stage' = "append"
  /\ currentBars' = [s \in DOMAIN builders |-> [builders[s] EXCEPT !.timeframe = run.timeframe]]
  /\ builders' = None /\ key' = 0
  /\ UNCHANGED <<run, history, rows, seen, cursor, series>>

Finish ==
  /\ stage = "read" /\ AtEnd /\ cursor = None /\ builders = None
  /\ stage' = "done"
  /\ UNCHANGED <<run, history, readVars, currentBars, series>>

ReadStep ==
  \/ SkipRow
  \/ JoinRow
  \/ CursorFails
  \/ DeliverDaily
  \/ Absorb
  \/ Flush
  \/ Finish

----------------------------------------------------------------------------
(* The engine *)

\* All bars of the frame, or the run ends.
AppendBars ==
  /\ stage = "append"
  /\ IF \E s \in DOMAIN currentBars : ~ValidBar(currentBars[s])
     THEN stage' = "failed" /\ UNCHANGED series
     ELSE /\ stage' = "decide"
          /\ series' = [s \in Wanted |->
               IF s \in DOMAIN currentBars THEN Append(series[s], currentBars[s]) ELSE series[s]]
  /\ UNCHANGED <<run, history, readVars, currentBars>>

\* The engine's own steps move nothing of the feed.
Turn(from, to) ==
  /\ stage = from /\ stage' = to
  /\ UNCHANGED <<run, history, readVars, currentBars, series>>

FeedNext ==
  \/ \E accepted \in BOOLEAN : OpenFeed(accepted)
  \/ ReadStep
  \/ AppendBars
  \/ Turn("decide", "settle")
  \/ Turn("decide", "failed")
  \/ Turn("settle", "read")

FeedSpec == (\E c \in Cases : FeedInit(c)) /\ [][FeedNext]_feedVars

----------------------------------------------------------------------------
(* Properties *)

PeriodOf(t) == IF Resampled THEN Bucket(run.timeframe, t) ELSE t

\* The row of its symbol and day that is read last, which is the one that counts.
LastOfDay(i) ==
  \A j \in DOMAIN history :
    history[j].symbol = history[i].symbol /\ history[j].date = history[i].date => j <= i

\* The rows that a symbol's bar of a period is made of.
DaysOf(s, period) ==
  {i \in DOMAIN history :
     history[i].symbol = s /\ PeriodOf(history[i].date) = period /\ LastOfDay(i)}

\* bar is these days in one.
IsBarOf(bar, days) ==
  LET of(field) == {history[i][field] : i \in days}
  IN  /\ \E first, last \in days :
           /\ \A i \in days : first <= i /\ i <= last
           /\ bar.open = history[first].open
           /\ bar.close = history[last].close
           /\ bar.time = history[last].date
      /\ bar.high \in of("high") /\ \A x \in of("high") : x <= bar.high
      /\ bar.low \in of("low") /\ \A x \in of("low") : bar.low <= x
      /\ bar.volume = Total([i \in DOMAIN history |-> IF i \in days THEN history[i].volume ELSE 0])
      /\ bar.status = IF \A i \in days : NoTrade(history[i]) THEN "no_trade" ELSE "ok"

WholeBars(s) ==
  \A k \in DOMAIN series[s] :
    /\ IsBarOf(series[s][k], DaysOf(s, PeriodOf(series[s][k].time)))
    /\ series[s][k].timeframe = run.timeframe

InOrder(s) ==
  \A j, k \in DOMAIN series[s] : j < k => PeriodOf(series[s][j].time) < PeriodOf(series[s][k].time)

\* No day is left out before a bar of the series, and none at all at the end.
NothingMissing(s) ==
  \A i \in DOMAIN history :
    /\ history[i].symbol = s
    /\ stage = "done" \/ \E k \in DOMAIN series[s] : history[i].date < series[s][k].time
    => \E k \in DOMAIN series[s] : PeriodOf(series[s][k].time) = PeriodOf(history[i].date)

OnePeriod == \A s, t \in DOMAIN currentBars : PeriodOf(currentBars[s].time) = PeriodOf(currentBars[t].time)

\* Every stored bar of a symbol reaches the engine in exactly one bar of the
\* asked timeframe: the bars of a series are, in order, those of the whole days,
\* weeks or months (high, low, close and volume of all their days), none of a
\* period that is still open, and none is missing before the newest, or at the
\* end; of several providers' rows of one day the last one read counts, and only
\* it; the bars of one frame belong to one period. The cursor reads a row past
\* every frame and the resampling stream holds that frame back while it hands out
\* the period.
FramesAreWhole ==
  /\ \A s \in Wanted : WholeBars(s) /\ InOrder(s) /\ NothingMissing(s)
  /\ OnePeriod

\* Valid days give valid bars: the engine, which ends a run at an invalid bar,
\* is never given one as long as every stored bar is valid.
ResampledBarsAreValid ==
  (\A k \in DOMAIN history : ValidBar(Daily(history[k]))) =>
    \A s \in DOMAIN currentBars : ValidBar(currentBars[s])
=============================================================================
