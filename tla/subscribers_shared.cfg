\* Two threads, three devices, two records.
SPECIFICATION Spec
CONSTANTS
    zero = zero
    d1 = d1
    d2 = d2
    d3 = d3
    x1 = x1
    x2 = x2
    t1 = t1
    t2 = t2
    Device <- Devices
    ZeroDevice = zero
    Definition <- Definitions
    MaximumSubscribers = 2
    Thread <- Threads
SYMMETRY Symmetry
INVARIANTS
    QueriesAgree
    VisitedOnce
    SubscribedAsAsked
PROPERTY RefusedOnlyWhenFull
