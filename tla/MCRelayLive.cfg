SPECIFICATION FairSpec
CONSTANTS
    NoSocket = NoSocket
    Sockets = {s1, s2, s3}
    s1 = s1
    s2 = s2
    s3 = s3
    RoomIds = {r1, r2}
    r1 = r1
    r2 = r2
    MaxRooms = 2
    MaxPeersPerRoom = 1
    HandoffGrace = 2
    MaxConnId = 2
    MaxTime = 3
PROPERTIES
    HandoffResolves
    PeersNotStranded
    ImplementsOwnership
