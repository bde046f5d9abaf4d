SPECIFICATION FairSpec
CONSTANTS
    Stoppers = {}
    CountHandshakeRetries = 1
    ChannelSize = 1
    HandshakeChannelSize = 1
    ExpiringTimers = {"handshakeSent", "receivedPacket", "keepalive"}
    MaxKeys = 2
    MaxPackets = 0
    MaxDatagrams = 1
    MaxExpiries = 0
PROPERTIES
    KeyUpdateRestarts
CHECK_DEADLOCK FALSE
