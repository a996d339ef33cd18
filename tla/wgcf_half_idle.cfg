SPECIFICATION HSpec
CONSTANTS
    ClientId = {c1}
    Address = {a1}
    destinationAddress = server
    Stranger = stranger
    Fd = {f1}
    Port = {p1}
    inboundSocket = inbound
    NoId = NoId
    NoSession = NoSession
    Closed = Closed
    NoPacket = NoPacket
    Timeout = 1
    TimeModulus = 16
    ClockModulus = 8
    MaxElapsed = 2
    CounterModulus = 1
    MaxEvents = 2
    MaxQueue = 1
    ClockMayStep = FALSE
    AgeCap = 2
PROPERTIES
    DeletedOnlyWhenInactive
