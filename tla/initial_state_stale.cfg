SPECIFICATION Spec
CONSTANTS
    user = user
    group = group
    Objects = {user}
    Initially = {user}
    ObjectTypes <- MCOneType
    TypeOf <- MCOneTypeOf
    Topics <- MCOneTopic
    Matching <- MCOneMatching
    MaxAttempts = 1
    MaxChanges = 1
    MaxFaults = 0
INVARIANT ReplicaIsCurrent
CHECK_DEADLOCK FALSE
