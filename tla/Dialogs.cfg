SPECIFICATION DialogsSpec
CONSTANTS
  Repo = {r1}
  Op = {o1, o2}
  Branch = {b1}
  NoOp = NoOp
  User = User
  Detached = Detached
  MaxVersion = 1
  Subs = 1
  DotCom = DotCom
  Endpoint = {DotCom, enterprise}
  Nowhere = Nowhere
  MaxSessions = 2
  MaxTasks = 2
  MaxTokens = 2
  Target = {t1, t2}
  Unmarked = Unmarked
  MaxEntries = 2
  MaxOps = 1
  AliveEndpoint = {DotCom, enterprise}
  UserId = {u1, u2}
  MaxAliveSessions = 2
  MaxRuns = 1
  MaxWaiting = 2
SYMMETRY Symmetry
CHECK_DEADLOCK FALSE
INVARIANTS
  OneNetworkOpPerKey
  FlagMeansRunning
  ProgressOnlyLeftByThrow
  OneWaiter
  NobodyHangs
  SubscribedAsListed
PROPERTIES
  ImplementsGate
  StashesAreKept
