CONSTANTS
  NTHREAD = 2
  MaxTid = 2
  Statuses = {1}
  MaxKills = 1
  Forks = FALSE
SPECIFICATION FairSpec
PROPERTY KilledProcessDies
CHECK_DEADLOCK FALSE
