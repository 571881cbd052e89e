SPECIFICATION Spec
CONSTANTS
  Kids = {k1, k2}
  Malformed = {}
  NoKid = nokid
  Requests = {r1, r2}
  Starter = starter
  Retrier = retrier
  NoTask = notask
  MinInterval = 1
  DefaultTtl = 2
  MaxTtl = 2
  MaxAges = {0}
  FetchMax = 1
  Horizon = 4
SYMMETRY Symmetry
INVARIANTS IInv RemovedKeyBound
PROPERTIES RotationRule HeldKeyNotRefused KeyRingSpec
CONSTRAINT NoStartup
