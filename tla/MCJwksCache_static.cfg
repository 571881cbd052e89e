SPECIFICATION Spec
CONSTANTS
  Kids = {k1}
  Malformed = {}
  NoKid = nokid
  Requests = {r1}
  Starter = starter
  Retrier = retrier
  NoTask = notask
  MinInterval = 1
  DefaultTtl = 1
  MaxTtl = 2
  MaxAges = {2}
  FetchMax = 1
  Horizon = 4
PROPERTY FailsStatic
