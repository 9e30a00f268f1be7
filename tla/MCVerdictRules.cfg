SPECIFICATION Spec
CONSTANTS
    odd = odd
    bad = bad
    sync = sync
    inj = inj
    Cmd = {odd, bad, sync, inj}
    Kind <- MCKind
    PatternSev <- MCPatternSev
    RuleSevs = {1, 10}
    ModelSevs = {1, 6, 9}
    Examples <- MCExamples
    Backends = {"ollama", "openai", "fallback+cloud", "none"}
    Cap = 1
    Ttl = 0
    MaxTime = 1
    Request = {r1, r2}
SYMMETRY Slots
INVARIANTS
    RulesAlwaysEscalate
