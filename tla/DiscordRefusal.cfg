SPECIFICATION Spec
CONSTANTS
    general = general
    random = random
    old = old
    new = new
    first = first
    second = second
    NoKey = NoKey
    Relay = Relay
    NoMessage = NoMessage
    NoLink = NoLink
    NoFile = NoFile
    Empty = Empty
    Garbled = Garbled
    Channels <- MCOneChannel
    Keys <- MCOneKey
    Handlers <- MCHandlers
    QueueSize = 1
    MaxPosts = 1
    MaxCommands = 1
    MaxFaults = 0
CHECK_DEADLOCK FALSE
INVARIANT MissedShows
