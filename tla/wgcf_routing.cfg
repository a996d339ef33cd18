SPECIFICATION Spec
CONSTANTS
    ClientId = {c1, c2}
    Address = {a1, a2}
    destinationAddress = server
    Stranger = stranger
    Fd = {f1, f2}
    Port = {p1, p2}
    inboundSocket = inbound
    NoId = NoId
    NoSession = NoSession
    Closed = Closed
    NoPacket = NoPacket
    Timeout = 0
    TimeModulus = 4
    ClockModulus = 2
    MaxElapsed = 1
    CounterModulus = 1
    MaxEvents = 2
    MaxQueue = 2
    ClockMayStep = TRUE
SYMMETRY Symmetry
INVARIANTS
    TypeOK
    SessionsAndSocketsAgree
    EventsAreLive
PROPERTIES
    OnlyTheServerReachesClients
    ImplementsPortRelay
