SPECIFICATION Spec
CONSTANTS
    Half = 64
    LeaseTime = 127
    Addrs = {1, 2}
    Servers = {11, 12}
    Msgs <- ConsistentMsgs
    Modes = {"dhcpReboot"}
    Kills = {"HUP", "ALRM", "TERM"}
    Faults = {"net", "start"}
    ClockSteps <- BothWays
    TimeOut = 3
    MaxAge = 9
    MaxSkew = 1
INVARIANTS
    LeaseHonoured
    OptionsPresent
PROPERTIES
    NoEarlyExpiry
    ContractSpec
