CONSTANTS
  Requests <- AllRequests
  MaxWorkers = 3
  Values = {0, 1, 2}
  Tags <- TwoTags
SPECIFICATION FairSpec
INVARIANTS TestsAreUnseen EveryMetricRead RootCause ChosenByTraining ReportFitsCases
PROPERTY EveryoneStops
CONSTRAINT Bounds
