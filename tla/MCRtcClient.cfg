SPECIFICATION FairRtcSpec
CONSTANTS
    Me = Me
    o = o
    Owners = {o}
    MaxStreams = 4
    MaxPcs = 4
    MaxClicks = 2
    MaxTurns = 1
    MaxHandoffs = 1
    Starts <- MCStarts
PROPERTIES
    NoGhostStreams
    OnAir
    AskedOnceAgrees
\* Once everything is settled nothing needs to happen.
CHECK_DEADLOCK FALSE
