SPECIFICATION Spec
CONSTANTS
  Views = {"dashboard", "collections", "buckets", "timeseries", "queues"}
  NumNames = 2
  MaxFetch = 1
  MaxRequests = 3
  MaxWrites = 1
  MaxScans = 2
  MaxPuts = 1
  MaxOthers = 1
  MaxQueueCalls = 2
  MaxEvents = 2
  MaxHistories = 2
  MaxTimers = 2
INVARIANTS
  SpinnersExact
  RowsBelong
  WritesGoHome
  
PROPERTIES
  TypedIsKept
  ShowsLatest
