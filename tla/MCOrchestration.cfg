CONSTANTS
    SensorsOn <- Sensors
    MaxRetries = 2
    MaxNights = 1
    MaxByHand = 1
    MaxOutages = 6
SPECIFICATION FairSpec
INVARIANT RetriesBounded
PROPERTIES
    SuccessReachesAll
    MaintenanceIsOvercome
CHECK_DEADLOCK FALSE
