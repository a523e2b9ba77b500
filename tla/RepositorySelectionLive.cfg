SPECIFICATION FairSpec
CONSTANTS
  Repo = {r1, r2}
  Tree = {t1}
  BadPaths = {r1}
  Call = {c1, c2}
  Nothing = Nothing
  Adopted = Adopted
  MaxAlias = 0
  MaxMoves = 1
CHECK_DEADLOCK FALSE
PROPERTIES
  CascadeEnds
  SelectionSettles
  OwnSelectionIsServed
