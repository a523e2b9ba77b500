SPECIFICATION LiveSpec
CONSTANTS
  Repo = {r1}
  Op = {o1, o2}
  Branch = {b1}
  NoOp = NoOp
  User = User
  Detached = Detached
  MaxVersion = 1
  Subs = 1
CHECK_DEADLOCK FALSE
PROPERTIES
  EveryCallEnds
