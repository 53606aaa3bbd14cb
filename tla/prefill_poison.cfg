SPECIFICATION FairSpec
CONSTANTS
    Subs = {s1, s2}
    groups = groups
    users = users
    other = other
    g1 = g1
    u1 = u1
    RealmTopics <- MCRealmTopics
    Foreign = {other}
    Objects = {g1, u1}
    Contents <- MCContents
    TopicLists <- MCTopicLists
    MaxAttempts = 1
    SlowCalls = FALSE
    Live = Live
    MaxRegistrations = 2
    MaxLive = 1
    MaxFaults = 0
PROPERTY EveryPrefillEnds
CHECK_DEADLOCK FALSE
