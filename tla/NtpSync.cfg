SPECIFICATION Spec
CONSTANTS
    Minute = 2
    Hour = 4
    Start = 4
    End = 12
    Horizon = 7
    DaySaving = TRUE
    Versions = {1, 2}
    Late = 0
    Gross = 11
    CheckTime = 3
    Wait = 1
    Retry = 1
    Events = {"ntp", "restart"}
    Errors <- WrongClocks
PROPERTIES
    NtpSetsTime
