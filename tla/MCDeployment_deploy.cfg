SPECIFICATION LiveSpec
CONSTANTS
  Tokens = {t1, t2}
  Empty = empty
  Checks = {c1, c2}
  Name <- MCName
  Services = {identity, ai}
  Receiver = identity
  Caller = ai
  Releases = 2
  Tables = {users, summaries}
  users = users
  summaries = summaries
  Declares <- MCDeclares
  VersionTable <- MCVersionTable
INVARIANTS RotationSafe ReadyMeansReady
PROPERTIES TablesKept EveryReadyAnswers
