CONSTANTS
  a = a
  b = b
  v1 = v1
  i1 = i1
  i2 = i2
  Absent = Absent
  Blank = Blank
  Clients = {p1, p2}
  Names = {a, b}
  Values = {v1}
  Images = {i1, i2}
  Commands <- MCEnvCommands
  Filtered = {}
  VerifyAttempts = 5
  MaxConsoleEdits = 0
SPECIFICATION Spec
CHECK_DEADLOCK FALSE
INVARIANTS
  IgnoredMeansNotStored
