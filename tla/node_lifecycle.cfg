SPECIFICATION FairSpec
CONSTANTS
    Peers = {p}
    MaxUps = 2
    MaxCommands = 3
    MaxConnects = 1
    MaxNat = 2
    MaxLogouts = 1
    MaxFaults = 1
INVARIANTS
    
    PeersServed
PROPERTIES
    
    StoppedDrains
    EndpointLearned
CHECK_DEADLOCK FALSE
