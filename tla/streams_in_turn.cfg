SPECIFICATION FairSpec
CONSTANTS
  p1 = p1
  p2 = p2
  p3 = p3
  s1 = s1
  s2 = s2
  s3 = s3
  s4 = s4
  c1 = c1
  None = None
  Peers = {p1, p2}
  Streams = {s1, s2, s4}
  Owner <- Openers
  Calls = {c1}
  Kinds = {"punch", "reauth", "delete"}
  Overlap = FALSE
  OneAtATime = TRUE
  MaxFaults = 1
  MaxRestarts = 1

    
PROPERTIES
    GoneCleanedUp
    StreamServed
    CallsReturn
CHECK_DEADLOCK FALSE
