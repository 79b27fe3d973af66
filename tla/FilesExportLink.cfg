SPECIFICATION Spec
CONSTANTS
    x1 = x1
    x2 = x2
    r1 = r1
    r2 = r2
    r3 = r3
    export = export
    report = report
    other_report = other_report
    Exports = {x1, x2}
    Reports = {}
    Files <- MCFiles
    FileOf <- MCFileOf
    LinkDays = 2
    KeepDays = 3
    MaxDay = 4
    MaxCrashes = 0
CHECK_DEADLOCK FALSE
INVARIANT LinkServesItsFile
