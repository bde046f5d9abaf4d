SPECIFICATION FairSpec
CONSTANTS
    Stoppers = {"down"}
    CountHandshakeRetries = 1
    ChannelSize = 1
    HandshakeChannelSize = 1
    ExpiringTimers = {"handshakeSent", "receivedPacket", "keepalive"}
    MaxKeys = 2
    MaxPackets = 1
    MaxDatagrams = 1
    MaxExpiries = 1
INVARIANTS
    RoutinesSound
    RunningServed
    StoppedOnlyByReset
PROPERTIES
    QuietRestart
CHECK_DEADLOCK FALSE
