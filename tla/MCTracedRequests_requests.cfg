SPECIFICATION Spec
CONSTANTS
  Requests = {r1, r2}
  Jobs = {j1}
  Workers = {w1}
  None = none
  Asks <- MCAsks
  MaxDepth = 2
SYMMETRY Symmetry
INVARIANTS AnsweredUnderItsTrace OneTrace LinesOfTheScope PrincipalIsPresented
PROPERTY ExchangeSpec
CHECK_DEADLOCK FALSE
