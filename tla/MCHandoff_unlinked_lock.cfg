CONSTANTS
    Procs = {p1, p2, p3}
    NoProc = NoProc
    CleanExits = TRUE
    Kills = FALSE
SPECIFICATION Spec
SYMMETRY ProcSymmetry
CHECK_DEADLOCK FALSE
INVARIANTS
    OneDaemon
