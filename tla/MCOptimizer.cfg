SPECIFICATION Spec
CHECK_DEADLOCK FALSE
CONSTANTS
  Documents <- AllDocuments
  Graphs <- CallersGraphs
  Levels = {"O0", "O1", "O2"}
  MaxRuns = 2
  MaxI64 = 7
INVARIANTS
  MeaningKept
  SideEffectsKept
  StoredTopologically
  AcceptedGraphsReload
  OnlySideEffectsUnread
  SecondPassChangesNothing
  OnlyWideBiasBreaksGraphs
