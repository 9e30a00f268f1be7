SPECIFICATION Spec
CONSTANTS
    MaxMinted = 2
    MaxTime = 1
    MaxSessions = 1
    MaxEvents = 2
    SessionTtl = 0
    Sizes = {2}
    PerRequest = 1
    PerSession = 1
    BudgetTtl = 1
    Costs = {1, 2}
    HypothesisCost = 1
    Request = {r1, r2}
    Conv = {c1}
    NoConv = NoConv
    ConvCap = 1
    ConvKeep = 2
    MaxResults = 2
    Returned = 2
    Rows = 1
SYMMETRY Slots
PROPERTIES
    FollowUpIsScoped
