CONSTANTS
  Clients = {c1, c2}
  Dates = {1, 2}
  Latest = 2
SPECIFICATION StoreSpec
INVARIANTS RecordedIsDone EnsureLeavesNoHole
