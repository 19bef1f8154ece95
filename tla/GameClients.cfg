SPECIFICATION Spec
CONSTANTS
  Socks = {s1, s2}
  Ids = {p1, p2}
  None = none
  worker_num = 1
  PersistentTime = 1
  MaxLv = 1
  MaxRequests = 4
INVARIANTS
  OneClientPerPlayer
  PlayerHasClient
  MembersHear
  OnlyMembersHear
CHECK_DEADLOCK FALSE
