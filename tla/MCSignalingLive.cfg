SPECIFICATION FairSignalingSpec
CONSTANTS
    Host = Host
    a = a
    b = b
    c = c
    Peers = {a, b}
    NicknameOf <- Namesakes
    MaxParticipants = 3
    MaxHandshakes = 1
    VerifyInbound = TRUE
    MaxRequests = 1
PROPERTIES
    SlotsFree
    DepartedLeaveOrMissed
CHECK_DEADLOCK FALSE
