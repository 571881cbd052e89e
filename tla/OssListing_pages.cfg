SPECIFICATION LiveSpec
CONSTANTS
  LastKey = 5
  PageSize = 2
INVARIANTS IInv OnceInOrder CompleteListing
PROPERTY IterationEnds
