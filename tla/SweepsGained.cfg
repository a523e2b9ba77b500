SPECIFICATION SweepsSpec
CONSTANTS
  Repo = {r1, r2}
  Nothing = Nothing
  MaxSweeps = 2
  MaxWork = 1
  MaxStarts = 2
CHECK_DEADLOCK FALSE
PROPERTIES
  SwitchMeansGained
