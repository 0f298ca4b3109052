SPECIFICATION Spec
CONSTANTS
    Half = 64
    LeaseTime = 127
    Addrs = {1, 2}
    Servers = {11, 12}
    Msgs <- ConsistentMsgs
    Modes = {"dhcpReboot"}
    Kills = {"HUP"}
    Faults = {}
    ClockSteps = {}
    TimeOut = 3
    MaxAge = 9
    MaxSkew = 0
INVARIANTS
    ShutsDownAfterRelease
