\* Two threads publish the same state from its source.
SPECIFICATION SourceSpec
CONSTANTS
    t1 = t1
    t2 = t2
    Thread <- Threads
    Value = {0, 1}
    Tolerance = 0
    RevisionModulus = 16
    CommitLimit = 3
    ResetLimit = 1
INVARIANT CommittedIsCurrent
