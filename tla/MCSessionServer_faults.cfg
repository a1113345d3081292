CONSTANTS
    Conns = {c1, c2}
    NoConn = NoConn
    Creator = c1
    MaxOut = 2
    Units = {"text"}
    InCap = 1
    Traps = {FALSE}
    JobControl = FALSE
    TtyCloser = TRUE
    Jobs = TRUE
    CmdCap = 2
    OutQ = 4
    FrameMax = 1
    InputSizes = {2}
    IoErrors = TRUE
    Stuck = {}
    Graces = {0, 1}
    MaxSends = 1
SPECIFICATION Spec
CHECK_DEADLOCK FALSE
INVARIANTS
    StreamIntact
