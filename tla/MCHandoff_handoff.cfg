CONSTANTS
    Procs = {p1, p2, p3}
    NoProc = NoProc
    CleanExits = TRUE
    Kills = TRUE
SPECIFICATION FairSpec
CHECK_DEADLOCK FALSE
INVARIANTS
    TypeOK
    OneUnlessStray
    ServingReachable
    NoLaunchFails
PROPERTIES
    LaunchReachesDaemon
