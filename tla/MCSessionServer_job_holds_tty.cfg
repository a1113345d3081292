CONSTANTS
    Conns = {c1}
    NoConn = NoConn
    Creator = c1
    MaxOut = 0
    Units = {}
    InCap = 0
    Traps = {FALSE}
    JobControl = FALSE
    TtyCloser = FALSE
    Jobs = TRUE
    CmdCap = 2
    OutQ = 3
    FrameMax = 2
    InputSizes = {}
    IoErrors = FALSE
    Stuck = {}
    Graces = {1}
    MaxSends = 1
SPECIFICATION FairSpec
CHECK_DEADLOCK FALSE
PROPERTIES
    CloseEnds
