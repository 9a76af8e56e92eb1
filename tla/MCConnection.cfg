SPECIFICATION FairConnectionSpec
CONSTANTS
    MaxEarly = 1
    MaxSends = 2
    MaxStrays = 2
INVARIANTS
    NothingIsHeldBack
PROPERTIES
    ImplementsChannel
    HandshakeSettles
    GoneIsNoticed
CHECK_DEADLOCK FALSE
