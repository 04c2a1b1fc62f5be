CONSTANTS
  MaxTimers = 1
  MaxDelay = 1
SPECIFICATION FairSpec
PROPERTY RunAsyncReturns
