SPECIFICATION FairSpec
CONSTANTS
    Objects = {"user", "group", "other"}
    Unsupported = {"other"}
    MaxChanges = 3
    MaxFaults = 2
INVARIANTS TypeOK EventTellsItsChange HandledIsPublished
PROPERTIES ForwardsSequentially EveryChangeHandled
CHECK_DEADLOCK FALSE
