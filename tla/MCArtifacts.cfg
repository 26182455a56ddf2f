SPECIFICATION MCSpec
CONSTANTS
  Processes = {1, 2}
  Scenarios <- SomeScenarios
  Paths <- SomePaths
  Before <- FilesBeforehand
  MaxFaults = 2
  Calls <- SomeCalls
  MaxCalls = 4
  Options <- SomeOptions
  MaximumWarmups = 1
  MaximumMeasured = 2
  GraphFiles <- SomeGraphFiles
  MaxI64 = 8
  MaxU64 = 64
  MaxEdits = 3
CHECK_DEADLOCK FALSE
INVARIANTS
  SuccessIsComplete
  ManifestIsOfOneRun
  SamplesLineUp
  LoadedGraphIsCanonical
