SPECIFICATION FairSpec
CONSTANTS
    l1 = l1
    l2 = l2
    l3 = l3
    l4 = l4
    d1 = d1
    d2 = d2
    targetCount = 2
    Local = {l1, l2, l3, l4}
    Address = {a, d1, d2}
    inbound <- MCinbound
    outbound <- MCoutbound
    destination <- MCdestination
    Fd = {0, 1, 2, 3}
    Invalid = Invalid
    Closed = Closed
    NoTarget = NoTarget
    NoPacket = NoPacket
    MaxEvents = 4
    MaxQueue = 1
CONSTRAINT LowestDescriptors
INVARIANTS
    TypeOK
    SocketsAgree
PROPERTIES
    OnlyDestinationsReachSources
    ImplementsPortRelay
    NoSocketStarves
