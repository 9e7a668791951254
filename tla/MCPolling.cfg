CONSTANTS
  MaxLog = 3
  MaxOthers = 1
  MaxResets = 1
  MaxFaults = 1
  MaxApps = 2
  MaxPods = 3
  Replicas = 1
  MaxDisturbances = 1
  WatchedPods = {podA, podB}
  AbsentFramesToDelete = 2
  MaxStale = 3
SPECIFICATION Spec
CHECK_DEADLOCK FALSE
INVARIANTS
  TypeOK
  FollowsOurOwn
  EndsWithTheBuild
  DeletedIsGone
  FailsForAReason
  RolledOutWasOver
PROPERTIES
  OverIsReported
  LiveRowsSettle
  CommandEnds
