SPECIFICATION FairSpec
CONSTANTS
    Replica = {r1, r2}
    Nobody = Nobody
    LeaseDuration = 3
    RenewDeadline = 1
    RetryPeriod = 1
    MaxChanges = 1
    MaxFaults = 0

PROPERTIES MissedChangesHandled
CHECK_DEADLOCK FALSE
