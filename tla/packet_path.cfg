SPECIFICATION FairSpec
CONSTANTS
    InBuffers = {i1, i2, i3}
    OutBuffers = {o1, o2}
    NoBuffer = none
    Packets = {"p"}
    ChannelSize = 1
    HandshakeChannelSize = 1
    MaxDatagrams = 3
    MaxPackets = 1
    MaxEvents = 1
INVARIANTS
    SingleOwner
    NothingLost
    BuffersClean

    
CHECK_DEADLOCK FALSE
