CONSTANTS
  NPROC = 2
  NTHREAD = 2
  NCPU = 2
  MaxKills = 1
SPECIFICATION SpecWithKills
INVARIANT OnOneCPU
CHECK_DEADLOCK FALSE
