SPECIFICATION MCSpec
CONSTANTS
  c1 = c1
  c2 = c2
  c3 = c3
  q0 = q0
  NoClient = NoClient
  Client = {c1, c2, c3}
  Queue = {q0}
  Unnamed = q0
  Deaf = {}
  Priority = {0, 1}
  Capacity = 3
  MaxLines = 4
  MaxJobs = 4
  MaxWaiters = 4
  MaxCopies = 4
SYMMETRY Symmetry
INVARIANTS
  WaitersConnected
  NoJobStranded
  SenderKnown
PROPERTIES
  HeldJobStays
  OwnerTold
  
  ImplementsWorkQueue
  GarbageTouchesNoJob
CHECK_DEADLOCK FALSE
