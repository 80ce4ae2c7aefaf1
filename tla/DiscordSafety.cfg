SPECIFICATION Spec
CONSTANTS
    general = general
    random = random
    old = old
    new = new
    first = first
    second = second
    NoKey = NoKey
    Relay = Relay
    NoMessage = NoMessage
    NoLink = NoLink
    NoFile = NoFile
    Empty = Empty
    Garbled = Garbled
    Channels <- MCChannels
    Keys <- MCKeys
    Handlers <- MCHandlers
    QueueSize = 1
    MaxPosts = 2
    MaxCommands = 3
    MaxFaults = 1
CHECK_DEADLOCK FALSE
INVARIANTS
    TypeOK
    OnlyGivenKeys
    CommandsHold
SYMMETRY MCSymmetry
