SPECIFICATION ConflictsSpec
CONSTANTS
  Load = {l1}
  Run = {r1}
  NoRun = NoRun
  MaxMerges = 1
CHECK_DEADLOCK FALSE
PROPERTIES
  EditsStand
