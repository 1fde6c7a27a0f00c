CONSTANTS
  NTHREAD = 2
  MaxTid = 3
  Statuses = {1}
  MaxKills = 1
  Forks = TRUE
SPECIFICATION Spec
INVARIANTS TypeOK 
CHECK_DEADLOCK FALSE
