CONSTANTS
  NPROC = 2
  NTHREAD = 2
  NSEM = 2
  Kills = FALSE
SPECIFICATION Spec
INVARIANTS
  WaitersAreBlocked
PROPERTIES
  AbstractSemaphore
