SPECIFICATION Spec
CONSTANTS
  Repo = {r1, r2}
  Op = {o1, o2}
  Branch = {b1}
  NoOp = NoOp
  User = User
  Detached = Detached
  MaxVersion = 0
  Subs = 1
CHECK_DEADLOCK FALSE
INVARIANTS
  PromptIsOnScreen
