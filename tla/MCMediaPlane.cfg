SPECIFICATION FairMediaSpec
CONSTANTS
    host = host
    ann = ann
    bob = bob
    a = a
    b = b
    i1 = i1
    i2 = i2
    Host = host
    Peers = {host, ann, bob}
    Streams = {a, b}
    OwnerOf <- TwoStreams
    Pcs = {i1, i2}
    NoPc = NoPc
    MaxLevel = 1
    RecoveryWindows = 2
INVARIANTS
    NothingIsOrphaned
    PcsAccountedFor
    DemandFollowed
    ReportersPresent
PROPERTIES
    QualityRecovers
CHECK_DEADLOCK FALSE
