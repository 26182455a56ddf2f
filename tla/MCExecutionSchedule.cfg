SPECIFICATION Spec
CONSTANTS
  Graphs <- Schedulable
CHECK_DEADLOCK FALSE
INVARIANTS
  TypeOK
  CountsAreExact
  DependenciesFirst
  RejectsOnlyCycles
  LeastTopologicalOrder
