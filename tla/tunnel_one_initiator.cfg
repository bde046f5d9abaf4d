CONSTANTS
    a = a
    b = b
    Nodes <- BothNodes
    Talkers <- FirstNode
    CountHandshakeRetries = 2
    OutboundChannelSize = 2
    ExpiringTimers = {"receivedPacket", "keepalive"}
    MaxPackets = 2
    MaxExpiries = 3
    MaxDuplicates = 0
SPECIFICATION FairSpec

    
PROPERTIES
    PacketsDelivered
CHECK_DEADLOCK FALSE
