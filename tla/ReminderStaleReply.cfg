SPECIFICATION Spec
CONSTANTS
    group = group
    club = club
    channel = channel
    community = community
    NoCommunity = NoCommunity
    NoTimer = NoTimer
    Chats <- MCGroups
    Communities <- MCNoCommunities
    CommunityOf <- MCCommunityOfGroup
    Permissions = {"text"}
    Schedules <- MCSchedules
    MinGap = 2
    MaxReminders = 2
    MaxRemindersPerChat = 2
    MaxTime = 2
    MaxAdds = 3
PROPERTY ReplyDeletesOnlyItsOwn
