SPECIFICATION Spec
CHECK_DEADLOCK FALSE
CONSTANTS
  Documents <- TanhDocuments
  Graphs <- NoGraphs
  Levels = {"O0", "O1", "O2"}
  MaxRuns = 2
  MaxI64 = 7
INVARIANT OnlyExactGeluFolds
