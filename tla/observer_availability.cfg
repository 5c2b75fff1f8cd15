\* One thread reports availability while the worker delivers.
SPECIFICATION Spec
CONSTANTS
    zero = zero
    d1 = d1
    d2 = d2
    s1 = s1
    s2 = s2
    v0 = v0
    t1 = t1
    t2 = t2
    Device <- Devices
    ZeroDevice = zero
    Definition <- Definitions
    Value <- OneValue
    DefaultValue = v0
    Epoch = {1}
    Revision = {1}
    Reported <- AllReports
    MaximumDevices = 1
    Thread <- OneThread
INVARIANTS
    TypeOK
    MarksFit
    AvailabilitySettles
    TransitionsChain
