CONSTANTS
  MaxTimers = 3
  MaxDelay = 1
SPECIFICATION FairSpec
INVARIANT OneTicker
PROPERTIES DueFires ReturnsWhenTimersEnd
