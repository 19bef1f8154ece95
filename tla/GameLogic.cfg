SPECIFICATION FairSpec
CONSTANTS
  Socks = {s1, s2}
  Ids = {p1}
  None = none
  worker_num = 2
  PersistentTime = 2
  MaxLv = 2
  MaxRequests = 4
INVARIANTS
  TypeOK
  CleanIsSaved
PROPERTIES
  LeavesSaved
  ChangeReachesDb
CHECK_DEADLOCK FALSE
