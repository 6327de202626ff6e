SPECIFICATION Spec
CONSTANTS
  Cases <- MCCases
  WeekOf <- MCWeekOf
  MonthOf <- MCMonthOf
INVARIANT ResampledBarsAreValid
