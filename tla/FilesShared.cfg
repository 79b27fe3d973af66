SPECIFICATION StorageSpec
CONSTANTS
    x1 = x1
    x2 = x2
    r1 = r1
    r2 = r2
    r3 = r3
    export = export
    report = report
    other_report = other_report
    Exports = {x1, x2}
    Reports = {r1}
    Files <- MCFiles
    FileOf <- MCFileOf
    LinkDays = 2
    Imports = {i1}
    ImportLinkDays = 1
    KeepDays = 3
    MaxDay = 4
    MaxCrashes = 1
CHECK_DEADLOCK FALSE
SYMMETRY ExportSymmetry
INVARIANTS StorageTypeOK LinkServesItsFileAlone NoTempFileLeft ImportFindsItsFile LeftoversAreFailedDownloads
