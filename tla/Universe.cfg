SPECIFICATION Spec
CONSTANTS
  Listings <- MCListings
  LastDay = 4
  Prices = {1, 2}
  Scale = 2
  WeekOf <- MCWeekOf
  MonthOf <- MCMonthOf
  Histories <- MCHistories
  Plans <- MCPlans
INVARIANTS
  SelectsFromThePast
  SameSelection
  CombinesAsSets
  ScoreIsPercentile
  UniverseIsFresh
