SPECIFICATION FairSpec
CONSTANTS
    general = general
    random = random
    old = old
    new = new
    first = first
    second = second
    NoKey = NoKey
    Relay = Relay
    NoMessage = NoMessage
    NoLink = NoLink
    NoFile = NoFile
    Empty = Empty
    Garbled = Garbled
    Channels <- MCOneChannel
    Keys <- MCOneKey
    Handlers <- MCHandlers
    QueueSize = 2
    MaxPosts = 3
    MaxCommands = 2
    MaxFaults = 1
CHECK_DEADLOCK FALSE
PROPERTIES
    SendersProceed
    DeadRelayShows
    ImplementsPipe
    ImplementsFairPipe
