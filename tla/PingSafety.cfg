SPECIFICATION FairSpec
CONSTANTS
    oldKey = oldKey
    newKey = newKey
    communityKey = communityKey
    community = community
    general = general
    thread = thread
    UserIds = {}
    GroupIds = {}
    CommunityIds <- MCCommunities
    ChannelIds <- MCChannels
    Threads <- MCThreads
    NoThread = NoThread
    Keys <- MCKeys
    ScopeOf <- MCScopeOf
    GrantedTo <- MCGrantedTo
INVARIANTS
    TypeOK
    PingsReachSubscriber
    SubscriptionsHold
    ValidKeyIsKept
PROPERTIES
    SubscribedIsPinged
