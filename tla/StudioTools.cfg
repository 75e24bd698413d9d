SPECIFICATION FairPolls
CONSTANTS
  Views = {"dashboard", "query", "vector", "search", "maintenance", "pubsub"}
  NumNames = 2
  MaxFetch = 2
  MaxRequests = 2
  MaxWrites = 1
  MaxScans = 2
  MaxPuts = 1
  MaxOthers = 1
  MaxQueueCalls = 2
  MaxEvents = 1
  MaxHistories = 2
  MaxTimers = 2
INVARIANTS
  TypeOK
  SpinnersExact
  SearchUsesDisplayed
PROPERTIES
  PublishedIsShown
  CatalogFollows
