SPECIFICATION FairSpec
CONSTANTS
    Half = 64
    LeaseTime = 127
    Addrs = {1, 2}
    Servers = {11, 12}
    Msgs <- TwoServers
    Modes = {"dhcpReboot", "dhcpInform"}
    Kills = {"ALRM", "TERM"}
    Faults = {"net", "config", "files", "fork", "start"}
    ClockSteps = {}
    TimeOut = 2
    MaxAge = 5
    MaxSkew = 0
INVARIANTS
    ConfiguredIsLeased
PROPERTIES
    LeaseExpires
