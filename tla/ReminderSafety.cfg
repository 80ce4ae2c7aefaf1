SPECIFICATION Spec
CONSTANTS
    group = group
    club = club
    channel = channel
    community = community
    NoCommunity = NoCommunity
    NoTimer = NoTimer
    Chats <- MCGroups
    Communities <- MCNoCommunities
    CommunityOf <- MCCommunityOfGroup
    Permissions = {"text"}
    Schedules <- MCSchedules
    MinGap = 2
    MaxReminders = 2
    MaxRemindersPerChat = 2
    MaxTime = 3
    MaxAdds = 3
INVARIANTS
    TypeOK
    IndexesAgree
    WaitsOnce
    JobArmed
    SentOnceInTime
    WithinLimits
SYMMETRY MCSymmetry
