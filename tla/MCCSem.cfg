CONSTANTS
  Workers <- MCWorkers
  Signalers <- MCSignalers
  PoolSize = 3
  InitValues = {0, 1}
  MaxUps = 2
SPECIFICATION FairSpec
PROPERTIES AbstractCounting DownProgress
