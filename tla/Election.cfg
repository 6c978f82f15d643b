SPECIFICATION FairSpec
CONSTANTS
    Replica = {r1, r2}
    Nobody = Nobody
    LeaseDuration = 3
    RenewDeadline = 1
    RetryPeriod = 1
    MaxChanges = 2
    MaxFaults = 2
INVARIANTS TypeOK OneActs
PROPERTIES EventuallyLed LaterChangesHandled
CHECK_DEADLOCK FALSE
