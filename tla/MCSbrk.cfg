CONSTANTS
  NTHREAD = 2
  Deltas <- MCDeltas
  InitSz = 1
  MaxSz = 3
SPECIFICATION Spec
INVARIANT SbrkReturnsOldBreak
