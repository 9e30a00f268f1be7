SPECIFICATION StoreSpec
CONSTANTS
    Incident = {i1, i2}
    Finding = {f1}
    Critical = {f1}
    Status = {new, closed}
    New = new
    MaxRecords = 1
    NoRecord = NoRecord
    NotLoaded = NotLoaded
    Unset = Unset
    MaxFaults = 2
    ReadFaults = FALSE
INVARIANTS
    AcknowledgedIsDurable
    AheadOnlyAfterFailure
