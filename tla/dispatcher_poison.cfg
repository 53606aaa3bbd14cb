CONSTANTS
    s1 = s1
    Subs = {s1}
    Topics = {"users"}
    SubTopics = {"users"}
    ApiFaults = TRUE
    MaxEvents = 1
    MaxCalls = 1
    MaxCrashes = 0
    MaxExpiries = 0
    MaxRepeats = 1
SPECIFICATION FairSpec
PROPERTY EveryEventDispatched
CHECK_DEADLOCK FALSE
