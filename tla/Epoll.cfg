SPECIFICATION FairSpec
CONSTANTS
  Fds = {1, 2}
  Clients = {c1, c2}
  NoClient = noClient
  MaxPkgs = 2
  MaxReplies = 2
  MaxAddressees = 2
INVARIANTS
  InboundIntegrity
  OutboundWhole
PROPERTIES
  SessionProtocol
  CloseReported
  AddresseesServed
CHECK_DEADLOCK FALSE
