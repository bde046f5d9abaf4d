CONSTANTS
    a = a
    b = b
    Nodes <- BothNodes
    Talkers <- BothNodes
    CountHandshakeRetries = 1
    OutboundChannelSize = 1
    ExpiringTimers = {"handshakeSent", "receivedPacket", "keepalive"}
    MaxPackets = 1
    MaxExpiries = 1
    MaxDuplicates = 0
SPECIFICATION TimerSpec
INVARIANTS
    TypeOK
    SessionPairing
    
    

    
CHECK_DEADLOCK FALSE
