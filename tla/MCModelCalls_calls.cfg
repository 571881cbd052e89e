SPECIFICATION ModelLiveSpec
CONSTANTS
  Calls = {c1}
  Attempts = 3
  Kinds <- MCKinds
  MaxBatch = 2
INVARIANTS ModelInv UnsafeAtMostOnce OnlyAfterBudget FallbackCovers AnswerIsTrue ResultsAreTrue TransientButForFaults
PROPERTIES EveryCallEnds RemoteCallSpec
CHECK_DEADLOCK FALSE
