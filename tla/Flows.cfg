SPECIFICATION FlowsSpec
CONSTANTS
  PR = {p1, p2}
  Reader = {q1}
  NoRow = NoRow
  NoList = NoList
  GitHubFails = TRUE
  TiesSplit = TRUE
  MaxClock = 2
  MaxRevs = 3
  Load = {l1}
  Run = {r1}
  NoRun = NoRun
  MaxMerges = 1
  Script = {s1}
  Loadout = {{s1}}
  Gone = Gone
  MaxActions = 2
  Base = {b}
  Extra = {e}
  UserCommand = {u}
CHECK_DEADLOCK FALSE
INVARIANTS
  LoadingIsAtWork
  NoDateNoRows
  OneCopy
  
  EverythingNoted
PROPERTIES
  ConflictsAreShown
  DialogsGo
  
  UserKept
