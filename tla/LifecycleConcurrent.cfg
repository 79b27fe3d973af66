SPECIFICATION FairClosingSpec
CONSTANTS
    b1 = b1
    p1 = p1
    Batches = {b1}
    Products = {p1}
    BatchOf <- MCBatchOf
    Requests = {r1, r2}
    Tasks = {t1, t2}
    MaxTime = 1
    MaxFailures = 1
CHECK_DEADLOCK FALSE
INVARIANTS ClosingTypeOK ClosedAtMatches
PROPERTIES EveryClosingIsAnnounced NoStaleOverwrite ManualClosingReportsLatest ExpiredIsClosed
