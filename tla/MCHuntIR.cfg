SPECIFICATION Spec
CONSTANTS
    p = p
    q = q
    u1 = u1
    u2 = u2
    Pred = {p, q}
    Bad = Bad
    RawSteps <- MCRawSteps
    RawRelations <- MCRawRelations
    Datasets <- MCData
    Previous <- MCPrevious
    NoTime = NoTime
    NoKey = NoKey
    AfterAll = 1000000000
    MaxSteps = 3
    MaxRelations = 2
    MaxWindow = 2
    MaxMatches = 2
    MaxResults = 1
INVARIANTS
    TypeOK
    RefersToItsSteps
    AnswersAreWitnessed
    NothingIsMissed
    EarliestAreKept
