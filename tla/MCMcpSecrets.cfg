CONSTANTS
  Calls = {1}
  Requests <- MCRequests
  Tools <- MCTools
  Commands <- MCTree
  Timeout = 2
  Delay = 1
SPECIFICATION Spec
CHECK_DEADLOCK FALSE
INVARIANTS
  SecretsNeedAllow
