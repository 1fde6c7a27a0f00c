CONSTANTS
  NTHREAD = 2
  MaxTid = 3
  Statuses = {1}
  MaxKills = 1
  Forks = FALSE
SPECIFICATION FairSpec
PROPERTY ExitCompletes
CHECK_DEADLOCK FALSE
