SPECIFICATION Spec
CONSTANTS
  Message = {m1, m2}
  High = {m1}
  Tagged = {m1, m2}
  Consumer = {c1, c3}
  DlqConsumer = {c3}
  NoMessage = none
  MaxRetries = 2
  DedupWindow = 1
  Lease = 1
  Delays = {0}
  TTLs = {1}
  Extensions = {1}
  Closing = TRUE
INVARIANTS
  TreeFollowsQueue
  OnePerWindow
  
