CONSTANTS
    Conns = {c1, c2}
    NoConn = NoConn
    Creator = c1
    MaxOut = 2
    Units = {"133C"}
    InCap = 0
    Traps = {FALSE}
    JobControl = FALSE
    TtyCloser = FALSE
    Jobs = FALSE
    CmdCap = 2
    OutQ = 3
    FrameMax = 2
    InputSizes = {}
    IoErrors = FALSE
    Stuck = {}
    Graces = {0, 1}
    MaxSends = 1
SPECIFICATION Spec
CHECK_DEADLOCK FALSE
INVARIANTS
    TypeOK
    StreamIntact
    StatusInSync
    ExitFinal
    ExitIsReal
    KeptUntilReaped
    DeadIsLeaving
PROPERTIES
    ImplementsContract
