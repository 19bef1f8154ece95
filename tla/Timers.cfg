SPECIFICATION FairSpec
CONSTANTS
  MaxTimers = 3
  MaxPending = 2
  MaxTicks = 2
PROPERTIES
  NoTickWhenOver
  TimersServed
CHECK_DEADLOCK FALSE
