--------------------------- MODULE MCBacktestTwin ---------------------------
EXTENDS BacktestTwin

Bar == [kind |-> "live", price |-> 2, cap |-> 9]

TwinPlans ==
  {[symbols |-> 2, fill |-> "next_open", orderType |-> "market", tif |-> "day", partial |-> "carry",
    expire |-> 0, size |-> 50, maxPositions |-> 0, maxWeight |-> 0, fee |-> 0,
    atr |-> FALSE, liquidate |-> TRUE]}

TwinBars(p) == {Bar, [kind |-> "none", price |-> 0, cap |-> 0]}
=============================================================================
