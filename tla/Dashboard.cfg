SPECIFICATION FairSpec
CONSTANTS
  Conns = 2
  HistoryLength = 3
  Modulus = 5
  MaxOps = 1
  MaxRestarts = 1
INVARIANTS
  TypeOK
  OneStream
  HistoriesAligned
  CountedOnce
PROPERTIES
  NeverGoesBack
  Reconnects
