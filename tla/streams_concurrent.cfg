SPECIFICATION Spec
CONSTANTS
  p1 = p1
  p2 = p2
  p3 = p3
  s1 = s1
  s2 = s2
  s3 = s3
  s4 = s4
  c1 = c1
  None = None
  Peers = {p1, p2, p3}
  Streams = {s1, s2, s3, s4}
  Owner <- Openers
  Calls = {c1}
  Kinds = {"punch"}
  Overlap = FALSE
  OneAtATime = FALSE
  MaxFaults = 0
  MaxRestarts = 0
INVARIANTS
    TypeOK
    EntryLive
    NoMissedPeer
    NoGhostPeer
    FlagsMatch
    
CHECK_DEADLOCK FALSE
