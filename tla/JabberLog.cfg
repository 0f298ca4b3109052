SPECIFICATION FairSpec
CONSTANTS
    Procs = {p1, p2}
    None = None
    LockTries = 2
    Timeout = 2
    KeepAlive = 2
INVARIANTS
    OneSession
    LockFollowsProcess
    RosterFirst
    KeptAlive
PROPERTIES
    LoginEnds
    DisconnectNoticed
