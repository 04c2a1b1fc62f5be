CONSTANTS
  MaxOps = 2
  MaxRounds = 1
SPECIFICATION FairSpec
PROPERTIES SpawnedIsSettled RunAsyncReturns
