CONSTANTS
    s1 = s1
    s2 = s2
    Subs = {s1, s2}
    Topics = {"users"}
    SubTopics = {"users"}
    ApiFaults = FALSE
    MaxEvents = 2
    MaxCalls = 2
    MaxCrashes = 1
    MaxExpiries = 1
    MaxRepeats = 1
SPECIFICATION FairSpec
PROPERTIES EveryEventDispatched MappingConverges
CHECK_DEADLOCK FALSE
