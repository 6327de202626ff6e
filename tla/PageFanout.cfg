SPECIFICATION FairSpec
CONSTANTS
  MaxRows = 4
  MaxWorkers = 2
  MaxAttempts = 2
INVARIANTS
  EveryRowOnce
  RootCause
PROPERTIES
  EveryoneStops
