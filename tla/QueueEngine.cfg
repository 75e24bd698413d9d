SPECIFICATION PollingSpec
CONSTANTS
  Message = {m1, m2}
  High = {m1}
  Tagged = {}
  Consumer = {c1, c2, c3}
  DlqConsumer = {c3}
  NoMessage = none
  MaxRetries = 2
  DedupWindow = 1
  Lease = 1
  Delays = {0, 1}
  TTLs = {}
  Extensions = {}
  Closing = FALSE
INVARIANTS
  TypeOK
  ExactlyOnePlace
  AttemptsBounded
PROPERTIES
  PriorityRespected
  MessagesLeave
