SPECIFICATION Spec
CONSTANTS
  MaxPage = 2
  MaxTxn = 2
  Maintenance = {"scheduler"}
  Rollbacks = FALSE
  TornPages = FALSE
INVARIANT
  Durable
