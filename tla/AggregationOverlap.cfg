SPECIFICATION FairSpec
CONSTANTS
    c1 = c1
    c2 = c2
    c3 = c3
    a1 = a1
    s1 = s1
    s2 = s2
    r1 = r1
    t1 = t1
    Codes <- MCCodes
    Additions = {a1}
    Scans = {s1, s2}
    Requests = {r1}
    Tasks = {t1}
    CodesOf <- MCCodesOf
    Limit = 2
    ChunkSize = 2
    MaxFailures = 1
CHECK_DEADLOCK FALSE
INVARIANTS TypeOK SomeJobCanGoOn AnnouncedOnce DoneMeansAggregated ReportAddsUp OnlyAdditionsExceedLimit
PROPERTIES EveryJobEnds ImplementsProduction
