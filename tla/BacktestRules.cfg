SPECIFICATION Spec
CONSTANTS
  Cases <- MCCases
  WeekOf <- MCWeekOf
  MonthOf <- MCMonthOf
INVARIANTS
  FramesAreWhole
  HistoryIsAsItWas
  StreamingIsBatch
