SPECIFICATION Spec
CONSTANTS
  NumSymbols = 2
  MaxFrames = 4
  InitialCash = 8
  Plans <- TwinPlans
  Bars <- TwinBars
INVARIANT SameTrades
CHECK_DEADLOCK FALSE
