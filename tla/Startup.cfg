SPECIFICATION FairSpec
CONSTANTS
  Main = main
  Socket = socket
  Threads = {socket, 1}
  None = none
  MaxDay = 2
  MaxMessages = 2
  MaxDowns = 1
INVARIANTS
  LineInItsFile
  ChangeOfFileRepairs
  SharedAreThere
PROPERTIES
  QueryAnswered
CHECK_DEADLOCK FALSE
