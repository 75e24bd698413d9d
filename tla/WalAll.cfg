SPECIFICATION Spec
CONSTANTS
  MaxPage = 1
  MaxTxn = 3
  Maintenance = {"scheduler", "backup"}
  Rollbacks = TRUE
  TornPages = TRUE
INVARIANTS
  TypeOK
  
  
