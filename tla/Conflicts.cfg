SPECIFICATION ConflictsSpec
CONSTANTS
  Load = {l1}
  Run = {r1, r2}
  NoRun = NoRun
  MaxMerges = 2
SYMMETRY Symmetry
CHECK_DEADLOCK FALSE
INVARIANTS
  ResultIsOfThisMerge

  
