---------------------------- MODULE BacktestBars ----------------------------
(***************************************************************************)
(* The bars of packages/backtest: what a stored row becomes, which bars    *)
(* the engine takes, and how the days of a week or month are put together. *)
(***************************************************************************)
EXTENDS Integers

(* What a price expression reads of a bar. The fields traded_amount,       *)
(* market_cap and nav are read and carried like volume.                    *)
PriceFields == {"open", "high", "low", "close", "adjusted_close", "volume"}

\* isNoTradeBar; a volume of 0 stands for a traded amount of 0 too.
NoTrade(bar) ==
  bar.open = 0 /\ bar.high = 0 /\ bar.low = 0 /\ bar.close > 0 /\ bar.volume = 0

ValidBar(bar) ==
  /\ bar.close > 0
  /\ \A field \in PriceFields : bar[field] >= 0
  /\ NoTrade(bar) \/ (bar.open > 0 /\ bar.low > 0 /\ bar.high >= bar.low)

Daily(row) ==
  [time |-> row.date, timeframe |-> "1d", status |-> IF NoTrade(row) THEN "no_trade" ELSE "ok",
   open |-> row.open, high |-> row.high, low |-> row.low, close |-> row.close,
   adjusted_close |-> row.adjusted_close, volume |-> row.volume]

\* Slip: the volume is that of the last day.
MergedLastVolume(sum, bar) ==
  [sum EXCEPT !.high   = IF bar.high > @ THEN bar.high ELSE @,
              !.low    = IF bar.low < @ THEN bar.low ELSE @,
              !.close  = bar.close,
              !.volume = bar.volume,
              !.time   = bar.time,
              !.status = IF bar.status = "no_trade" THEN @ ELSE "ok"]

\* The open, and the adjusted close, stay those of the first bar.
Merged(sum, bar) ==
  [sum EXCEPT !.high   = IF bar.high > @ THEN bar.high ELSE @,
              !.low    = IF bar.low < @ THEN bar.low ELSE @,
              !.close  = bar.close,
              !.volume = @ + bar.volume,
              !.time   = bar.time,
              !.status = IF bar.status = "no_trade" THEN @ ELSE "ok"]
=============================================================================
