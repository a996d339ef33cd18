SPECIFICATION FSpec
CONSTANTS
    Frame = {f1, f2, f3}
    Buffer = {b1, b2, b3}
    Null = Null
    kMaxBufferSize = 2
    MaxSize = 3
    Octet = {0, 1}
    Unset = Unset
SYMMETRY Symmetry
INVARIANTS
    TypeOK
    OwnedByFrames
    FramesKeepTheirText
