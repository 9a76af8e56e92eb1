SPECIFICATION SignalingSpec
CONSTANTS
    Host = Host
    a = a
    b = b
    c = c
    Peers = {a, b, c}
    NicknameOf <- Guests
    MaxParticipants = 3
    MaxHandshakes = 2
    VerifyInbound = FALSE
    MaxRequests = 0
SYMMETRY Same
INVARIANTS
    RosterWellFormed
    MirrorsConverge
    RosterIsConnected
    SlotsCounted
CHECK_DEADLOCK FALSE
