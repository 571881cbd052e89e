SPECIFICATION OssSpec
CONSTANTS
  Calls = {1, 2}
  Attempts = 2
  Kinds <- MCKinds
  Pieces = 1
  Contents = {"a", "b"}
  Nothing = Nothing
  MaxRewrites = 0
INVARIANT LastCallDetermines
CONSTRAINTS FewContents DeleteThenPut
CHECK_DEADLOCK FALSE
