SPECIFICATION FairRateSpec
CONSTANTS
    Addresses = {a1, a2}
    a1 = a1
    a2 = a2
    CreatesPerWindow = 1
    JoinsPerWindow = 2
    RateWindow = 3
INVARIANTS
    NoWindowExceeds
PROPERTIES
    ThrottleLifts
    BucketsForgotten
