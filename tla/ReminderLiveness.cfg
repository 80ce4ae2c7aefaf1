SPECIFICATION FairSpec
CONSTANTS
    group = group
    club = club
    channel = channel
    community = community
    NoCommunity = NoCommunity
    NoTimer = NoTimer
    Chats <- MCChannels
    Communities <- MCCommunities
    CommunityOf <- MCCommunityOfChannel
    Permissions = {"text"}
    Schedules <- MCSchedules
    MinGap = 2
    MaxReminders = 2
    MaxRemindersPerChat = 2
    MaxTime = 3
    MaxAdds = 2
PROPERTIES
    OccurrenceLeavesWhenDue
    DueLeavesQueue
    DueIsSent
    ImplementsService
    ImplementsFairService
