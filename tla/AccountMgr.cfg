SPECIFICATION FairSpec
CONSTANTS
  MinSqlId = 255
  MaxSqlId = 259
  MaxPending = 4
  Socks = {s1, s2}
  Uids = {u1, u2}
  NoSock = nosock
  MaxQueries = 5
  MaxFailures = 1
INVARIANTS
  OwnCallback
  AnsweredOnce
  OneIdPerAccount
PROPERTIES
  EveryLoginAnswered
CHECK_DEADLOCK FALSE
