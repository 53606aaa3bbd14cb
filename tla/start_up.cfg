SPECIFICATION FairSpec
CONSTANTS
    Requests = {"r1"}
    MaxChanges = 1
    MaxRegistrations = 1
    MaxFaults = 1
INVARIANTS TypeOK NoRegistrationRefused OnlyFaultsLoseConnections
PROPERTIES SubjectsStay EverythingWorks
CHECK_DEADLOCK FALSE
