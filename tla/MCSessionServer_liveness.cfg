CONSTANTS
    Conns = {c1, c2}
    NoConn = NoConn
    Creator = c1
    MaxOut = 1
    Units = {"133C"}
    InCap = 0
    Traps = {TRUE}
    JobControl = FALSE
    TtyCloser = FALSE
    Jobs = FALSE
    CmdCap = 1
    OutQ = 3
    FrameMax = 1
    InputSizes = {}
    IoErrors = FALSE
    Stuck = {c2}
    Graces = {1}
    MaxSends = 2
SPECIFICATION FairSpec
CHECK_DEADLOCK FALSE
PROPERTIES
    AttachSettles
    DetachedCloses
    CloseEnds
    DeadSessionDropped
