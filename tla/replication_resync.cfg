\* A request to resynchronise is answered between a change and its Publish().
SPECIFICATION EagerSpec
CONSTANTS
    t1 = t1
    Thread <- OneThread
    Epoch = {1}
    Revision = {0, 1, 2}
    Value = {0, 1}
    DefaultValue = 0
    Tolerance = 0
    RevisionModulus = 16
    CommitLimit = 2
    ResetLimit = 1
    IncidentLimit = 0
INVARIANT SettledInSync
