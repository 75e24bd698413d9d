SPECIFICATION Spec
CONSTANTS
  MaxPage = 2
  MaxTxn = 2
  Maintenance = {"backup"}
  Rollbacks = FALSE
  TornPages = FALSE
INVARIANTS
  Durable
  NoPageReuse
