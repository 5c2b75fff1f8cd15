\* Two threads publish while sources come and go; two-bit revisions.
SPECIFICATION Spec
CONSTANTS
    t1 = t1
    t2 = t2
    Thread <- Threads
    Value = {0, 1, 2}
    Tolerance = 1
    RevisionModulus = 4
    CommitLimit = 2
    ResetLimit = 2
SYMMETRY Symmetry
INVARIANTS
    TypeOK
    OneValuePerRevision
    NoRedundantRevision
    NothingAfterRetirement
    SnapshotIsSuperseded
    NeverRevisionZero
