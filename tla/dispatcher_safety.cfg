CONSTANTS
    s1 = s1
    Subs = {s1}
    Topics = {"users"}
    SubTopics = {"users", "groups"}
    ApiFaults = TRUE
    MaxEvents = 2
    MaxCalls = 3
    MaxCrashes = 1
    MaxExpiries = 1
    MaxRepeats = 2
SPECIFICATION Spec
INVARIANTS TypeOK OrderRetained NoOwedEventLost OnceIfUndisturbed
PROPERTY ForwardsSequentially
CHECK_DEADLOCK FALSE
