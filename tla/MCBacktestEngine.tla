--------------------------- MODULE MCBacktestEngine ---------------------------
EXTENDS BacktestEngine

Absent      == [kind |-> "none", price |-> 0, cap |-> 0]
Idle        == [kind |-> "idle", price |-> 2, cap |-> 0]
Unreached   == [kind |-> "unreached", price |-> 2, cap |-> 0]
Live(p, c)  == [kind |-> "live", price |-> p, cap |-> c]

Plan == [symbols |-> 1, fill |-> "next_open", orderType |-> "market", tif |-> "day", partial |-> "carry",
         expire |-> 0, size |-> 100, maxPositions |-> 0, maxWeight |-> 0, fee |-> 0,
         atr |-> FALSE, liquidate |-> TRUE]

\* One symbol, every kind of bar and every rule for unfilled and partly filled orders.
LifecycleBars  == {Absent, Idle, Unreached, Live(2, 0), Live(2, 1), Live(4, 1), Live(2, 9)}
LifecyclePlans ==
  {[Plan EXCEPT !.tif = t, !.fill = f, !.partial = c, !.expire = 2, !.atr = a, !.fee = 2] :
     t \in {"day", "gtc", "ioc"}, f \in {"next_open", "same_close"},
     c \in {"carry", "cancel", "expire_after_n_bars"}, a \in BOOLEAN}

\* A fee that one unit at the price 2 or 4 does not bring: a sale makes a debt.
CostlyPlans == {[Plan EXCEPT !.tif = "gtc", !.fill = f, !.fee = 5] : f \in {"next_open", "same_close"}}

\* Two symbols that compete for the cash, with rebalancing.
PortfolioBars  == {Absent, Live(2, 1), Live(4, 9)}
PortfolioPlans ==
  {[Plan EXCEPT !.tif = t, !.orderType = o, !.symbols = 2, !.size = 50, !.maxPositions = 2, !.maxWeight = 80] :
     t \in {"gtc", "cancel_on_rebalance"}, o \in {"market", "rebalance"}}

EnginePlans == LifecyclePlans \cup CostlyPlans \cup PortfolioPlans
EngineBars(p) == IF p \in PortfolioPlans THEN PortfolioBars ELSE LifecycleBars

\* One frame less where there are two symbols.
Bounds == plan \in PortfolioPlans => frame <= 4

=============================================================================
