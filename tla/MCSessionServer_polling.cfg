CONSTANTS
    Conns = {c1, c2}
    NoConn = NoConn
    Creator = c1
    MaxOut = 1
    Units = {"text", "9;4", "133C"}
    InCap = 0
    Traps = {FALSE}
    JobControl = TRUE
    TtyCloser = FALSE
    Jobs = FALSE
    CmdCap = 2
    OutQ = 3
    FrameMax = 2
    InputSizes = {}
    IoErrors = FALSE
    Stuck = {}
    Graces = {}
    MaxSends = 0
SPECIFICATION Spec
CHECK_DEADLOCK FALSE
INVARIANTS
    StatusInSync
