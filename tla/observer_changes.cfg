\* Two threads update one state, and one reports availability, while the application
\* prepares, visits, shuts down and prepares again.
SPECIFICATION LifecycleSpec
CONSTANTS
    zero = zero
    d1 = d1
    s1 = s1
    v0 = v0
    v1 = v1
    t1 = t1
    t2 = t2
    Device <- OneDevice
    ZeroDevice = zero
    Definition <- OneDefinition
    Value <- Values
    DefaultValue = v0
    Epoch = {1}
    Revision = {1, 2}
    Reported = {"Connected"}
    MaximumDevices = 1
    Thread <- Threads
    Reporter <- OneReporter
    WriteLimit = 3
INVARIANTS
    ShownOrOnItsWay
    AvailabilityKnown
PROPERTIES
    DeliveredAdvances
    ChangesAreShown
