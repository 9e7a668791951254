CONSTANTS
  Procs = {1, 2}
  Jobs <- MCJobs
  Registries = {"own"}
  Prefix <- MCPrefix
  Repos <- MCRepos
  Tags = {"t", "u"}
  Apps = {"x"}
  RunsFrom <- MCRunsFrom
  MaxPushes = 3
  MaxTags = 2
  MaxRules = 2
  Org = "acme"
  Spaces <- MCSpaces
  ProjectCommands <- MCProjectCommands
  Context = 1
  PageLimit = 2
  MaxApps = 4
  MaxMoves = 3
  Asked <- MCAsked
  Members <- MCMembers
  Permissions = {"view", "change"}
  MaxKeys = 3
  MaxConsole = 1
  Attempts = 2
  Asks <- MCAsks
  Files = {"f", "g"}
  Types = {"darkube"}
  Priorities = {"1"}
  MaxStars = 5
  MaxEdits = 2
  MaxSupport = 1
  Calls = {1}
  Requests <- MCRequests
  Tools <- MCTools
  Tree <- MCTree
  Timeout = 2
  Delay = 1
  Givens <- MCGivens
  RefreshAttempts = 4
  MaxRedirects = 3
SPECIFICATION Spec
CHECK_DEADLOCK FALSE
INVARIANTS
  TypeOK
  FiledWhole
  GateHolds
  AnsweredInTime
PROPERTIES
  PruneIsSafe
  RuleIsAsReported
  DeletesOnlyEmpty
  OthersKeepTheirs
  AnswerIsTrue
  OnlyTheKeyMeant
