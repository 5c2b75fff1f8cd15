\* Two threads race on one state; a second device finds no record left.
SPECIFICATION HSpec
CONSTANTS
    zero = zero
    d1 = d1
    d2 = d2
    s1 = s1
    s2 = s2
    v0 = v0
    v1 = v1
    t1 = t1
    t2 = t2
    Device <- Devices
    ZeroDevice = zero
    Definition <- OneDefinition
    Value <- Values
    DefaultValue = v0
    Epoch = {1, 2}
    Revision = {0, 1, 2}
    Reported <- OneReport
    MaximumDevices = 1
    Thread <- Threads
    OfferLimit = 3
INVARIANTS
    TypeOK
    StoredIsNewest
    StoredIsAnnounced
    RegisteredOnce
SYMMETRY Symmetry
PROPERTY KeepsLatest
