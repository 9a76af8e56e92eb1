SPECIFICATION FairSessionSpec
CONSTANTS
    ann = ann
    bob = bob
    cat = cat
    dan = dan
    Users <- MCUsers
    Leavers <- MCLeavers
    MaxDials = 5
    MaxHandshakes = 1
    MaxOdd = 1
    Starts <- MCStarts
INVARIANTS
    HostsAreReal
    ClaimsAreHeard
PROPERTIES
    EpochNeverBack
    EventuallyTogether
    NobodyLingers
\* Everybody may have left.
CHECK_DEADLOCK FALSE
