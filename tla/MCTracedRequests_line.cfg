SPECIFICATION Spec
CONSTANTS
  Requests = {r1}
  Jobs = {j1}
  Workers = {}
  None = none
  Asks <- MCAsks
  MaxDepth = 2
INVARIANT CompletionNamesTrace
CHECK_DEADLOCK FALSE
