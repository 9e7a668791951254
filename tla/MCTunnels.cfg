CONSTANTS
  p1 = p1
  p2 = p2
  n1 = n1
  n2 = n2
  v0 = v0
  v1 = v1
  v2 = v2
  None = None
  Procs = {p1, p2}
  Names = {n1, n2}
  Values = {v0, v1, v2}
  Minted <- MCMinted
  Env <- MCEnv
  Commands <- MCCommands
SPECIFICATION Spec
CHECK_DEADLOCK FALSE
INVARIANTS
  TypeOK
  CredentialIsRight
  CredentialIsKept
PROPERTIES
  SerialSaveKeepsOthers
