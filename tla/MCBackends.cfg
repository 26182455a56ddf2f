SPECIFICATION MCSpec
CONSTANTS
  CpuRequests <- AllCpuRequests
  Tile = 2
  MaxU64 = 63
  MinFloat = 2
  MaxFloat = 3
  NotAnInteger = NotAnInteger
  BlockSize = 4
  CudaRequests <- AllCudaRequests
  MaxCalls = 2
  MaxFailures = 1
  MaxGrid = 3
  MaxRowWidth = 5
  MaxElements = 63
  BackendNames = {"cpu", "cuda", "rocm"}
  CudaCompiled = TRUE
  Graphs <- SomeGraphs
CHECK_DEADLOCK FALSE
INVARIANTS ComputesTheOperation VerifiedIsNotMalformed LoweringKeepsDependencies SuccessReturnsTheResult NoSuccessAfterFailure
PROPERTY CudaCallsReturn
