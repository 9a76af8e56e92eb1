SPECIFICATION Spec
CONSTANTS
    NoSocket = NoSocket
    Sockets = {s1, s2, s3, s4, s5}
    s1 = s1
    s2 = s2
    s3 = s3
    s4 = s4
    s5 = s5
    RoomIds = {r1, r2}
    r1 = r1
    r2 = r2
    MaxRooms = 1
    MaxPeersPerRoom = 2
    HandoffGrace = 1
    MaxConnId = 3
    MaxTime = 1
SYMMETRY SocketSymmetry
INVARIANTS
    SlotsAttached
    NoHeadlessRoom
    HostViewAgrees
    OpenPeersKeepSlots
    AttributedRightOnce
