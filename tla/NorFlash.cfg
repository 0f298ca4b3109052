SPECIFICATION FairSpec
CONSTANTS
    Procs = {p1, p2}
    None = None
    Size <- MCSize
    Sectors <- MCSectors
    Align = 4
    Word = 2
    MaxDma = 4
    Width = 32
    Requests <- MCRequests
    Faults = {"read", "write", "erase"}
    Torn = {0, 1}
INVARIANTS
    OneCommand
    CompleteOrError
PROPERTIES
    StaysInside
    CallReturns
