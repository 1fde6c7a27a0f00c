CONSTANTS
  NPROC = 2
  NTHREAD = 2
  NSEM = 1
  Kills = TRUE
SPECIFICATION Spec
INVARIANTS
  TypeOK
  
