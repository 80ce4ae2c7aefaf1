SPECIFICATION FairSpec
CONSTANTS
    p1 = p1
    Principals <- MCPrincipals
    Missing = Missing
    Thrown = Thrown
    Width32 = 16
    Width64 = 64
    E8s = 10
    Now = 1000
    Callers = {c1}
    Auth <- MCAuth
    GrantedByToken <- MCGranted
    Requests <- MCRequests
    OwnDetails <- MCOwnDetails
    Histories <- MCHistories
    Events <- MCEvents
    MaxRetries = 1
    MaxEvents = 2
    MaxChannels = 1
INVARIANTS
    TypeOK
    ArgumentsParse
    AnswersAsDeclared
    PagesReadBack
    ChannelReadsBack
    SentReadsBack
    AnswerTellsOutcome
    OnlyGrantedSent
    AttemptsBounded
PROPERTY
    CallsSettle
