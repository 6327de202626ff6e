CONSTANTS
  Backends = {"sql", "mongo"}
  Clients = {c1, c2}
  Specs = {"query", "pipeline"}
  JqSpecs = {"query"}
  MaxVersions = 3
  MaxRuns = 1
  MaxRows = 2
SPECIFICATION Spec
INVARIANTS NoVersionLost NumberedInOrder EngineOfActive ReturnedRunsAreWhole
PROPERTY KeepsPromise
SYMMETRY Symmetry
