CONSTANTS
    a = a
    b = b
    Nodes <- BothNodes
    Talkers <- FirstNode
    CountHandshakeRetries = 1
    OutboundChannelSize = 2
    ExpiringTimers = {"handshakeSent", "receivedPacket", "keepalive"}
    MaxPackets = 2
    MaxExpiries = 1
    MaxDuplicates = 1
SPECIFICATION Spec
CHECK_DEADLOCK FALSE
INVARIANTS
    NonceUnique
    SendOrder
PROPERTIES
    
    ChannelSpec
