SPECIFICATION HFairSpec
CONSTANTS
    ClientId = {c1, c2}
    Address = {a1}
    destinationAddress = server
    Stranger = stranger
    Fd = {f1, f2}
    Port = {p1, p2}
    inboundSocket = inbound
    NoId = NoId
    NoSession = NoSession
    Closed = Closed
    NoPacket = NoPacket
    Timeout = 1
    TimeModulus = 8
    ClockModulus = 4
    MaxElapsed = 2
    CounterModulus = 1
    MaxEvents = 2
    MaxQueue = 1
    ClockMayStep = FALSE
    AgeCap = 2
PROPERTIES
    InactiveIsDeleted
