CONSTANTS
  MaxPods = 3
  Replicas = 1
  MaxFaults = 1
  MaxDisturbances = 2
SPECIFICATION Spec
CHECK_DEADLOCK FALSE
PROPERTIES
  NotWhileOldServes
