SPECIFICATION Spec
CONSTANTS
    a = a
    badEndpoint = badEndpoint
    noPort = noPort
    listen = listen
    forward = forward
    Argv <- MCArgv
    Path = path
    endpointOf <- MCendpointOf
    Address = {a}
    Invalid = Invalid
    Empty = Empty
    Junk = Junk
    Blank = Blank
    Malformed = Malformed
    NoFile = NoFile
    Line <- MCLine
    MaxLines = 3
    LineLength = 4
    max = 9
    BufferSize = 3
    MaxPort = 15
    MaxInt16 = 7
    MaxInt = 31
    MaxUInt = 63
    MaxLong = 127
    MaxULong = 255
    NoNumber = NoNumber
    Base = 10
PROPERTIES
    UsageIsAccepted
