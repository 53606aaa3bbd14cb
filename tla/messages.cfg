CONSTANTS
    r1 = r1
    r2 = r2
    Requests = {r1, r2}
    MaxRetries = 1
    MaxMessages = 2
    MaxEpochs = 2
    MaxFaults = 1
SPECIFICATION FairSpec
INVARIANTS TypeOK HandledBeforeDeletedAtFirst OneAfterTheOther PoppedOnceUnlessAckLost NothingBeforeDoneAtFirst
PROPERTY EveryMessageAcknowledged
CHECK_DEADLOCK FALSE
