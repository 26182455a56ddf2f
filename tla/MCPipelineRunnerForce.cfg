SPECIFICATION Spec
CONSTANTS
  Runners = {p1, p2}
  Outputs <- ThreeStages
  Rejecting = {2}
  MaxStarts = 2
  MaxEdits = 1
SYMMETRY Symmetry
CHECK_DEADLOCK FALSE
PROPERTY OnlyForceDeletes
