SPECIFICATION MCSpec
CONSTANTS
    b1 = b1
    b2 = b2
    b3 = b3
    p1 = p1
    p2 = p2
    day = day
    night = night
    c1 = c1
    c2 = c2
    NoProduct = NoProduct
    Batches = {b1, b2, b3}
    Products = {p1, p2}
    BatchOf <- MCBatchOf
    Times <- MCTimes
    MaxCommits = 2
    Shifts = {day, night}
    ShiftOf <- MCShiftOf
    Centers = {c1, c2}
    CenterOf <- MCCenterOf
    DatedToday = {b1, b3}
    Limit = 3
    PageSize = 1
    MaxVersions = 3
INVARIANTS DashboardTypeOK LaterStatementsSeeMore QuietDashboardAgrees ListingTypeOK PageHoldsWhatTotalPromises WalkMissesNothing
