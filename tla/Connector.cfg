SPECIFICATION FairSpec
CONSTANTS
  worker_num = 2
  MaxPushes = 4
  MaxBreaks = 2
INVARIANTS
  AtMostOnce
  FirstConnection
PROPERTIES
  AcceptedAnswered
CHECK_DEADLOCK FALSE
