SPECIFICATION Spec
CONSTANTS
    Procs = {p1}
    None = None
    Size <- MCSize
    Sectors <- MCSectors
    Align = 4
    Word = 2
    MaxDma = 4
    Width = 32
    Requests <- Misaligned
    Faults = {}
    Torn = {}
INVARIANTS
    DmaAligned
