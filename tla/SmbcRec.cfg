SPECIFICATION FairSpec
CONSTANTS
    BufSize = 6
    HeaderSizes = {3, 4}
    FirstHdr = 3
    OtherHdr = 2
    Payloads = {0, 2, 6}
    HttpRest = {0, 2}
    FileSize = 14
INVARIANTS
    ReadFits
    InStep
    ErrorHasCause
    NamedIsSeekable
PROPERTIES
    StopsOnHup
