\* Two threads, six possible subscriptions, two records.
SPECIFICATION Spec
CONSTANTS
    zero = zero
    d1 = d1
    x1 = x1
    x2 = x2
    t1 = t1
    t2 = t2
    Device <- Devices
    ZeroDevice = zero
    Definition <- Definitions
    Capacity = 2
    Thread <- Threads
INVARIANTS
    TypeOK
    CountIsExact
PROPERTY ImplementsSet
