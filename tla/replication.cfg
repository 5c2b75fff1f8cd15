\* One origin, one consumer, one restart or request; values equal within 1.
SPECIFICATION PromptSpec
CONSTANTS
    t1 = t1
    Thread <- OneThread
    Epoch = {1, 2}
    Revision = {0, 1, 2}
    Value = {0, 1, 2}
    DefaultValue = 0
    Tolerance = 1
    RevisionModulus = 16
    CommitLimit = 2
    ResetLimit = 1
    IncidentLimit = 1
INVARIANTS
    TypeOK
    NothingDroppedUnacknowledged
    MirrorAgrees
    SettledMeansNewestAcknowledged
    AckOfPendingCounts
    AnnouncedIsCurrent
    SettledInSync
PROPERTIES
    PendingIsResolved
    CatchesUp
