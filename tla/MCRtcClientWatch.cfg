SPECIFICATION FairRtcSpec
CONSTANTS
    Me = Me
    o = o
    Owners = {o}
    MaxStreams = 2
    MaxPcs = 4
    MaxClicks = 0
    MaxTurns = 2
    MaxHandoffs = 1
    Starts <- Watching
PROPERTIES
    WatchesOn
CHECK_DEADLOCK FALSE
