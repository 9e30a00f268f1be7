SPECIFICATION Spec
CONSTANTS
    Incident = {i1}
    Finding = {f1, f2}
    Critical = {f1}
    Status = {new, closed}
    New = new
    MaxRecords = 1
    NoRecord = NoRecord
    NotLoaded = NotLoaded
    Unset = Unset
    MaxFaults = 1
    ReadFaults = FALSE
    Slot = {a, b}
SYMMETRY Slots
INVARIANTS
    TypeOK
    ScreenMatchesReload
