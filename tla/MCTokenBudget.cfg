SPECIFICATION Spec
CONSTANTS
    Session = {s1, s2}
    MaxTime = 4
    PerRequest = 2
    PerSession = 3
    Ttl = 1
    Costs = {1, 2, 3}
    Prices = {3}
INVARIANTS
    TypeOK
    WindowBudget
