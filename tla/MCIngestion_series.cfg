\* Two processes share the series of one vendor, which corrects it up to three times.
SPECIFICATION Spec
CONSTANTS
    short = short
    long = long
    Workers = {short, long}
    Schedules = {{short}, {short, long}}
    Window <- Windows
    vendorA = vendorA
    Sources = {vendorA}
    NoSource = NoSource
    Lookback = 1
    MinCache = 2
    Extra = 2
    Archived = 2
    MaxBar = 3
    MaxGap = 1
    MaxChanges = 3
    MaxRequests = 3
    MaxRevision = 5
\* The system stops when the bounded requests are done.
CHECK_DEADLOCK FALSE
INVARIANTS
    TypeOK
    SnapshotsRebuild
    RevisionsAreCorrections
    ConflictsAreExcused
