CONSTANTS
  a = a
  b = b
  v1 = v1
  i1 = i1
  i2 = i2
  Absent = Absent
  Blank = Blank
  Clients = {p1}
  Names = {a, b}
  Values = {v1}
  Images = {i1, i2}
  Commands <- MCCommands
  Filtered = {"envs"}
  VerifyAttempts = 5
  MaxConsoleEdits = 2
SPECIFICATION Spec
CHECK_DEADLOCK FALSE
INVARIANTS
  UpdatedWasStored
PROPERTIES
  NoShadowWithoutRace
  EveryCommandEnds
