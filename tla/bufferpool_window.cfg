SPECIFICATION Spec
CONSTANTS
    Thread = {t1, t2}
    Buffer = {b1, b2, b3}
    Null = Null
    kMaxPoolSize = 2
SYMMETRY Symmetry
INVARIANTS
    WindowIsExact
CHECK_DEADLOCK FALSE
