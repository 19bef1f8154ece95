SPECIFICATION FairSpec
CONSTANTS
  MaxTimers = 2
  MaxPending = 2
  MaxTicks = 2
PROPERTIES
  EveryTimerTicks
CHECK_DEADLOCK FALSE
