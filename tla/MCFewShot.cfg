CONSTANTS
    m = m
    d = d
    o = o
    h1 = h1
    h2 = h2
    r1 = r1
    r2 = r2
    NoVector = NoVector
    NotBuilt = NotBuilt
    NotLoaded = NotLoaded
    TextSet <- MCTexts
    Source = {"ollama", "hash"}
    Similarity <- MCSimilarity
    Threshold <- MCThreshold
    Corpus <- MCCorpus
    Context = {h1, h2}
    Command = {o}
    Submission <- MCSubmission
    Legacy <- MCLegacy
    Request = {r1, r2}
    CacheCap = 2
    MaxRecords = 2
    K = 1
    MinSimilarity = 45
    ReadFaults = FALSE
    MaxFaults = 1
    MaxAdds = 3
SPECIFICATION Spec
SYMMETRY Symmetry
INVARIANTS
    TypeOK
    AcknowledgedIsKept
    ExamplesAreSafe
    CorrectionsAreFound
    KnownBadIsFlagged
