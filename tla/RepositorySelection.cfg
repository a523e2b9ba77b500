SPECIFICATION Spec
CONSTANTS
  Repo = {r1, r2}
  Tree = {t1, t2}
  BadPaths = {r1}
  Call = {c1, c2}
  Nothing = Nothing
  Adopted = Adopted
  MaxAlias = 1
  MaxMoves = 1
SYMMETRY Symmetry
CHECK_DEADLOCK FALSE
INVARIANTS
  WorkersFollowSelection
  PathsAreUnique
