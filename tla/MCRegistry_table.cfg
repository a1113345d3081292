CONSTANTS
    Ids = {s1, s2, s3}
    MaxSessions = 2
    MaxOpens = 6
SPECIFICATION FairSpec
CHECK_DEADLOCK FALSE
INVARIANTS
    TableIsRunning
    CapHeld
PROPERTIES
    ExitsOnlyIdle
    SelfExitsOnceSeen
