SPECIFICATION FairSpec
CONSTANTS
  c1 = c1
  c2 = c2
  NoClient = NoClient
  Client = {c1, c2}
  Deaf = {c2}
  Capacity = 1
  MaxPackets = 2
INVARIANTS
  ServerTypeOK
  OneHeartbeat
PROPERTIES
  HeartbeatsEnd
  StopReturns
CHECK_DEADLOCK FALSE
