\* The publisher starts a new epoch; updates in order.
SPECIFICATION OrderedSpec
CONSTANTS
    Epoch = {1, 2}
    Revision = {1, 2}
INVARIANT AckOfPendingCounts
