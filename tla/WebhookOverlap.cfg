SPECIFICATION FairSpec
CONSTANTS
    Subscriptions = {s1}
    Publishers = {p1}
    Unsaved = {}
    Workers = {w1, w2}
    RetryCounts = {1, 2}
    MaxCopies = 2
    MaxAbandons = 1
    batch_closed = batch_closed
    EventTypes <- MCEventTypes
    EventOf <- MCEventOf
INVARIANTS TypeOK SuccessWasAccepted
PROPERTY EveryDeliverySettles
