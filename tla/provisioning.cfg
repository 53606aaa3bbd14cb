SPECIFICATION FairSpec
CONSTANTS
    Objects = {"user"}
    Requests = {"r1"}
    MaxRetries = 0
    MaxChanges = 2
    MaxFaults = 1
    MaxRepeats = 2
INVARIANTS TypeOK ToldInTurn ConsumerIsCurrent
PROPERTY ComesToRest
CHECK_DEADLOCK FALSE
