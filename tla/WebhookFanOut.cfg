SPECIFICATION Spec
CONSTANTS
    Subscriptions = {s1, s2}
    Publishers = {p1, p2}
    Unsaved = {p2}
    Workers = {w1}
    RetryCounts = {1}
    MaxCopies = 1
    MaxAbandons = 0
    batch_closed = batch_closed
    EventTypes <- MCEventTypes
    EventOf <- MCEventOf
SYMMETRY SafetySymmetry
INVARIANTS OnlyCommittedArePosted NoOrphanDelivery
PROPERTY ImplementsContract
