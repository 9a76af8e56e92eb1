SPECIFICATION HeartbeatSpec
CONSTANTS
    Interval = 3
    MaxMissed = 3
    MaxDelay = 1
    Nonces = 5
INVARIANTS
    NoFalseDeath
    DetectedInTime
