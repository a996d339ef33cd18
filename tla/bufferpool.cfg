SPECIFICATION WSpec
CONSTANTS
    Thread = {t1, t2, t3}
    Buffer = {b1, b2, b3, b4}
    Null = Null
    kMaxPoolSize = 4
SYMMETRY Symmetry
INVARIANTS
    TypeOK
    CheckHolds
    NoDataRace
    OneOwner
    CountsAgree
    WindowIsExactUntilFooled
    SpinsEndUntilFooled
PROPERTIES
    ReservesWhatIsThere
    ImplementsOwnership
CHECK_DEADLOCK FALSE
