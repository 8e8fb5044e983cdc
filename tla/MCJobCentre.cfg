SPECIFICATION CentreSpec
CONSTANTS
  c1 = c1
  c2 = c2
  q0 = q0
  NoClient = NoClient
  Client = {c1, c2}
  Queue = {q0}
  Unnamed = q0
  Deaf = {c2}
  Priority = {0}
  Capacity = 1
  MaxLines = 2
  MaxJobs = 2
  MaxWaiters = 2
  MaxCopies = 2
PROPERTIES
  JobsReleased
  StopReturns
CHECK_DEADLOCK FALSE
