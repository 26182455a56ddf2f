SPECIFICATION Spec
CONSTANTS
  Documents <- AllDocuments
  Alignment = 2
  Calls <- SomeCalls
  MaxCalls = 2
  MaxU64 = 99
CHECK_DEADLOCK FALSE
INVARIANTS
  NeededValuesIntact
  TraceAccountsForValues
  AcceptedGraphsArePlanned
PROPERTIES
  ServesTheGraph
  OnlyKernelsFailCompleteCalls
  CallsReturn
