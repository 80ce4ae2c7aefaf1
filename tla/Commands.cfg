SPECIFICATION FairSpec
CONSTANTS
    p1 = p1
    r1 = r1
    r2 = r2
    Principals = {p1}
    Missing = Missing
    Thrown = Thrown
    Width32 = 16
    Width64 = 64
    E8s = 10
    Now = 1000
    Runs <- MCRuns
    Requests <- MCRequests
    Limit = 1
    ChunkCount = 2
    MaxAttempts = 2
INVARIANTS
    TypeOK
    AnswerStays
    ShownIsSent
    PostedFilesComplete
    CrashesExplained
PROPERTIES
    RequestsAnswered
    PlaceholderFollowed
CHECK_DEADLOCK FALSE
