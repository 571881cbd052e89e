SPECIFICATION OssSpec
CONSTANTS
  Calls = {1, 2}
  Attempts = 2
  Kinds <- MCKinds
  Pieces = 2
  Contents = {"a", "b"}
  Nothing = Nothing
  MaxRewrites = 1
INVARIANTS OssIInv UntouchedNotRefused RepeatsHarmless
CONSTRAINTS FewContents FewAttempts FewAnswers
CHECK_DEADLOCK FALSE
