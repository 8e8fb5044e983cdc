SPECIFICATION Spec
CONSTANTS
  c1 = c1
  c2 = c2
  c3 = c3
  Client = {c1, c2, c3}
  NoClient = NoClient
  Deaf = {c3}
  Choice <- Chosen
  Prose <- Unfit
  MaxLines = 4
INVARIANTS
  SessionKnown
  RoomAgrees
  PlainNameOnce
PROPERTIES
  ClosedLeave
CHECK_DEADLOCK FALSE
