CONSTANTS
  NPROC = 2
  NTHREAD = 2
  NCPU = 2
  MaxKills = 0
SPECIFICATION Spec
INVARIANTS OnOneCPU NoLostWakeup NoPanic
