SPECIFICATION Spec
CONSTANTS
  Documents <- FewDocuments
  Alignment = 2
  Calls <- SomeCalls
  MaxCalls = 1
  MaxU64 = 99
CHECK_DEADLOCK FALSE
INVARIANT
  SideEffectsInDocumentOrder
