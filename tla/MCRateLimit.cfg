SPECIFICATION FairRateLimitSpec
CONSTANTS
    Clients = {c1, c2, c3}
    c1 = c1
    c2 = c2
    c3 = c3
    shared = shared
    own = own
    Keys = {shared, own}
    KeyOf <- SharedKey
    Burst = 2
    Window = 4
    BaseBackoff = 1
    MaxBackoff = 3
    MaxOverflow = 2
INVARIANTS
    BurstHolds
PROPERTIES
    BackoffGrows
    RefusalEnds
