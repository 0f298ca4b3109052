SPECIFICATION FairSpec
CONSTANTS
    MaxSlots = 5
    SlotChoices = {4, 5}
    MaxWrite = 1
    MaxLate = 0
INVARIANTS
    RingOrder
    IssuesCounted
    OspaceIsFree
    InStepUnlessUpset
PROPERTIES
    WriterProceeds
    DrainReturns
\* SYNC and close wait for ever while playback is paused.
CHECK_DEADLOCK FALSE
