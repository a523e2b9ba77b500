SPECIFICATION WorkersSpec
CONSTANTS
  Updater = {u1, u2}
  None = None
  Null = Null
  Often = 1
  Interval = 2
  MaxTimers = 2
  Fetcher = {f1, f2, f3}
  User = User
  NoFetcher = NoFetcher
  Branch = {b1}
  Trunk = Trunk
  Pruner = {p1, p2}
  UserWaits = TRUE
CHECK_DEADLOCK FALSE
INVARIANTS
PROPERTIES
  StoppedIsSilent
  KeepsRefreshing
  OnlyCurrentFetches
  KeepsLooking
  DeletesOnlySpentBranches
  SpentBranchesGo
