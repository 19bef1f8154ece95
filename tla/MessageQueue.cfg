SPECIFICATION FairSpec
CONSTANTS
  Workers = {w1, w2}
  Socket = socket
  NoThread = noThread
  Uniqids = {1}
  CallbackTypes = {"PACK", "CLOSE"}
  HandlerTypes = {"PACK", "TIMER"}
  MaxToWorker = 2
  MaxToSocket = 2
  MaxSpurious = 1
INVARIANTS
  TypeOK
  MutualExclusion
  PopNeverEmpty
  NoSleepWhileWork
  NoMissedEventfd
  TimerIdsDistinct
  TimerIdReturned
PROPERTIES
  ToWorkerFifo
  ToSocketFifo
  EveryMessageHandled
  EveryReplyTaken
CHECK_DEADLOCK FALSE
