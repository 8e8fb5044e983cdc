SPECIFICATION FairSpec
CONSTANTS
  a1 = a1
  a2 = a2
  k = k
  v1 = v1
  v2 = v2
  Version = Version
  Alpha = Alpha
  Empty = Empty
  Nothing = Nothing
  Addr = {a1, a2}
  Key = {k, Version}
  Value = {v1, v2}
  Oversized <- TooLong
  Capacity = 2
  MaxHandlers = 2
  MaxDatagrams = 3
INVARIANTS
  DatabaseTypeOK
  ListedHandlersOpen
PROPERTIES
  DatagramsTaken
  RequestsFinished
  ImplementsKeyValue
CHECK_DEADLOCK FALSE
