CONSTANTS
  MarkerParts = 3
  Keep = 3
  Data = 2
  Lines = 2
SPECIFICATION Spec
CHECK_DEADLOCK FALSE
INVARIANTS
  EndedEarlyIsNoSuccess
