SPECIFICATION Spec
CONSTANTS
  NumSymbols = 2
  MaxFrames = 5
  InitialCash = 8
  Plans <- EnginePlans
  Bars <- EngineBars
CONSTRAINT Bounds
INVARIANTS
  TypeOK
  NoOrderVanishes
  OneOrderPerSide
PROPERTIES OnlySalesOwe NoLookahead
