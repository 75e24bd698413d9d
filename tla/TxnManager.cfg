SPECIFICATION FairSpec
CONSTANTS
  Client = {c1, c2, c3}
  NoClient = none
  StartTxn = 0
  MaxTxn = 3
INVARIANTS
  CommittedStaysCommitted
  NoEarlyCommit
  WriterIsNewest
  ReaderTableExact
PROPERTY
  WriterEnds
