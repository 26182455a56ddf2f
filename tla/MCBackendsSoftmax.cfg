SPECIFICATION MCSpec
CONSTANTS
  CpuRequests = {}
  Tile = 2
  MaxU64 = 63
  MinFloat = 2
  MaxFloat = 3
  NotAnInteger = NotAnInteger
  BlockSize = 4
  CudaRequests <- SoftmaxRequests
  MaxCalls = 1
  MaxFailures = 0
  MaxGrid = 3
  MaxRowWidth = 5
  MaxElements = 63
  BackendNames = {"cuda"}
  CudaCompiled = TRUE
  Graphs = {}
CHECK_DEADLOCK FALSE
INVARIANT SoftmaxSubtractsRowMaximum
