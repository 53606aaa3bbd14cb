SPECIFICATION FairSpec
CONSTANTS
    user = user
    group = group
    Objects = {user, group}
    Initially = {user}
    ObjectTypes <- MCObjectTypes
    TypeOf <- MCTypeOf
    Topics <- MCTopics
    Matching <- MCMatching
    MaxAttempts = 2
    MaxChanges = 2
    MaxFaults = 2
INVARIANTS TypeOK ReplicaIsCurrentUnlessExcused
PROPERTY ComesToRest
CHECK_DEADLOCK FALSE
