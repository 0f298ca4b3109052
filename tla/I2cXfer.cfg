SPECIFICATION FairSpec
CONSTANTS
    Transfers <- MCTransfers
    Retries = 3
INVARIANTS
    AnswerIsOwnUnlessLate
    WaiterHasTimer
    BusReleased
    CountIsTrue
PROPERTIES
    TransferEnds
