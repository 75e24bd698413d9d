SPECIFICATION StoreSpec
CONSTANTS
  Client = {c1, c2}
  NoClient = none
  StartTxn = 0
  MaxTxn = 3
  MaxVersions = 3
  MaxVisited = 4
  Failures = TRUE
INVARIANT
  NoUncommittedRead
