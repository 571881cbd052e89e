SPECIFICATION LiveSpec
CONSTANTS
  Kids = {k1}
  Malformed = {}
  NoKid = nokid
  Requests = {r1}
  Starter = starter
  Retrier = retrier
  NoTask = notask
  MinInterval = 1
  DefaultTtl = 1
  MaxTtl = 2
  MaxAges = {3}
  FetchMax = 0
  Horizon = 3
INVARIANTS RetryLive LockDiscipline
PROPERTIES EveryGetReturns StartupRecovers
