SPECIFICATION Spec
CONSTANTS
    MaxMinted = 4
    MaxTime = 4
    MaxSessions = 2
    MaxEvents = 1
    Ttl = 1
    Sizes = {0, 2}
INVARIANTS
    TypeOK
    AtMostMaxSessions
PROPERTIES
    IdleStaysGone
    KeepsItsPromise
