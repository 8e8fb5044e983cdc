SPECIFICATION ClientSpec
CONSTANTS
  c1 = c1
  c2 = c2
  c3 = c3
  q1 = q1
  NoClient = NoClient
  Client = {c1, c2, c3}
  Queue = {q1}
  Priority = {1}
  MaxJobs = 2
  MaxWaiters = 2
  MaxCopies = 2
SYMMETRY Symmetry
PROPERTIES
  OnlyAssignedPutBack
CHECK_DEADLOCK FALSE
