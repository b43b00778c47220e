\* One process extends an archive; what a vendor answers may have a hole.
SPECIFICATION Spec
CONSTANTS
    short = short
    long = long
    Workers = {long}
    Schedules = {{long}}
    Window <- Windows
    vendorA = vendorA
    Sources = {vendorA}
    NoSource = NoSource
    Lookback = 1
    MinCache = 2
    Extra = 2
    Archived = 2
    MaxBar = 4
    MaxGap = 1
    MaxChanges = 2
    MaxRequests = 2
    MaxRevision = 5
CHECK_DEADLOCK FALSE
PROPERTIES
    GapsAreBackfilled
