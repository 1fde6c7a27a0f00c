CONSTANTS
  NPROC = 1
  NTHREAD = 2
  NSEM = 1
  Kills = TRUE
SPECIFICATION Spec
INVARIANT ZombieHasNoLiveThread
