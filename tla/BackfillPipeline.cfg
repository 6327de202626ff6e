SPECIFICATION FairSpec
CONSTANTS
  MaxRows = 4
  MaxWorkers = 2
  MaxCalls = 2
INVARIANTS
  CompleteOnSuccess
  RootCause
  SummaryIsDurable
  NoSendAfterClose
  QuietAfterReturn
PROPERTIES
  KeepsPromise
  EveryoneStops
