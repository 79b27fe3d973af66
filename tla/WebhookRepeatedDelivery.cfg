SPECIFICATION Spec
CONSTANTS
    Subscriptions = {s1}
    Publishers = {p1}
    Unsaved = {}
    Workers = {w1, w2}
    RetryCounts = {2}
    MaxCopies = 2
    MaxAbandons = 0
    batch_closed = batch_closed
    EventTypes <- MCEventTypes
    EventOf <- MCEventOf
PROPERTY DeliveredIsNotRetried
