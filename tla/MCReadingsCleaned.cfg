SPECIFICATION MCSpec
CONSTANTS
  c1 = c1
  c2 = c2
  c3 = c3
  r1 = r1
  r2 = r2
  p1 = p1
  p2 = p2
  Client = {c1, c2, c3}
  Road = {r1, r2}
  CameraRoad = r1
  Plate = {p1, p2}
  Announcement <- Cameras
  Timestamp <- MCTimes
  DaySeconds = 86400
  MaxReports = 3
SYMMETRY Symmetry
INVARIANTS
  ReadingsCleaned
CHECK_DEADLOCK FALSE
