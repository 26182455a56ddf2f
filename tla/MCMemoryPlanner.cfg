SPECIFICATION Spec
CONSTANTS
  Requests <- PlannerRequests
  MaxU64 = 63
CHECK_DEADLOCK FALSE
INVARIANTS
  TypeOK
  ArenaPartitioned
  NoLiveOverlap
  PlacedInArena
  SelfChecksPass
PROPERTY
  GrowsOnlyWithoutGap
