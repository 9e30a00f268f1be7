SPECIFICATION Spec
CONSTANTS
    Text <- MCText
    Object <- MCObject
    NonObject <- MCNonObject
    Loose <- MCLoose
    Records <- MCRecords
    Cap = 4
    Chunk = 3
    Playbook <- MCPlaybook
    InvalidUser = {"unknown"}
    EnumerationSize = 2
    Window = 1
    MaxNodes = 2
    MaxEdges = 2
    Files <- MCFiles
    Content <- MCContent
    MaxResponse = 2
    MaxEvents = 3
INVARIANTS
    TypeOK
    EveryEventOnce
    NothingInvented
    ColumnsStayAligned
    EveryThreatIsOnTheBoard
    TreesAreComponents
    IncidentIdsDistinct
    CompromiseIsCritical
    HiddenOnlyWhenFlagged
    WorstProcessesSurvive
PROPERTIES
    EveryTurnCounts
    EveryUploadIsAnswered
CHECK_DEADLOCK FALSE
