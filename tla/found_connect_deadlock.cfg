SPECIFICATION FairSpec
CONSTANTS
  p1 = p1
  p2 = p2
  p3 = p3
  s1 = s1
  s2 = s2
  s3 = s3
  s4 = s4
  c1 = c1
  None = None
  Peers = {p1, p2}
  Streams = {s1, s2}
  Owner <- Openers
  Calls = {}
  Kinds = {}
  Overlap = FALSE
  OneAtATime = FALSE
  MaxFaults = 0
  MaxRestarts = 0
PROPERTY GoneCleanedUp
CHECK_DEADLOCK FALSE
