SPECIFICATION FairSpec
CONSTANTS
    k1 = k1
    k2 = k2
    k3 = k3
    c1 = c1
    c2 = c2
    q1 = q1
    q2 = q2
    m1 = m1
    m2 = m2
    NoOne = NoOne
    Requests = {q1, q2}
    Imports = {m1, m2}
    Keys <- MCKeys
    Centers <- MCCenters
    Items <- MCItems
    MaxFailures = 1
CHECK_DEADLOCK FALSE
INVARIANTS TypeOK SomeJobCanGoOn AllOrNothing ReportIsTrue
PROPERTIES EveryJobEnds ImplementsContract
