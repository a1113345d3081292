CONSTANTS
    Ids = {s1, s2}
    MaxSessions = 2
    MaxOpens = 3
    ChanCap = 1
    MaxLists = 1
SPECIFICATION ListFairSpec
CHECK_DEADLOCK FALSE
PROPERTIES
    ListComplete
    ListAnswered
