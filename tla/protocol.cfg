\* Every kind of message, buffers around every size, frames that are cut, extended or damaged.
SPECIFICATION Spec
CONSTANTS
    ByteModulus = 10
    Device <- Devices
    TypeId <- TypeIds
    Epoch <- Epochs
    Revision <- Revisions
    Value <- Values
    ValueSize <- Sizes
    Capacity = {27, 28, 39, 40, 41, 42, 43, 44, 140, 141, 142}
INVARIANTS
    RoundTrip
    OnlyWholeFrames
    KindsStayApart
    OnlyNeighboursAreConfused
    FitsTheBuffer
