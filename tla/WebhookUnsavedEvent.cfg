SPECIFICATION Spec
CONSTANTS
    Subscriptions = {s1}
    Publishers = {p1}
    Unsaved = {p1}
    Workers = {w1}
    RetryCounts = {1}
    MaxCopies = 1
    MaxAbandons = 0
    batch_closed = batch_closed
    EventTypes <- MCEventTypes
    EventOf <- MCEventOf
INVARIANT PublishedIsRecorded
