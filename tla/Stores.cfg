SPECIFICATION StoresSpec
CONSTANTS
  Callback = {c1, c2}
  MaxVersion = 2
  MaxFetches = 2
  RevRange = {r1, r2}
  Call = {q1, q2, q3}
  NoRange = NoRange
  MaxConcurrent = 1
  PR = {p1, p2}
  Reader = {}
  NoRow = NoRow
  NoList = NoList
  GitHubFails = FALSE
  TiesSplit = FALSE
  MaxClock = 3
  MaxRevs = 3
CHECK_DEADLOCK FALSE
INVARIANTS
  
  BoundedGit
PROPERTIES
  
  NeverOlder
  SubscribersHear
  PromiseKept
