SPECIFICATION Spec
CONSTANTS
  Fds = {1}
  Clients = {c1, c2}
  NoClient = noClient
  MaxPkgs = 1
  MaxReplies = 1
  MaxAddressees = 1
INVARIANTS
  DeliveredToAddressee
CHECK_DEADLOCK FALSE
