SPECIFICATION Spec
CONSTANTS
    Minute = 2
    Hour = 8
    Start = 8
    End = 32
    Horizon = 48
    DaySaving = TRUE
    Versions = {1, 2}
    Late = 1
    Gross = 20
    CheckTime = 192
    Wait = 1
    Retry = 1
    Events = {"edit"}
    Errors = {0}
INVARIANTS
    TypeOK
    MinuteHandled
    ClockLegal
    NeverRerun
