SPECIFICATION FairSpec
CONSTANTS
    Key = {k1}
    Worker = {w1, w2}
    NoKey = NoKey
    IndexerFails = TRUE
    MaxVersion = 4
INVARIANTS TypeOK ExclusiveProcessing NoLostUpdate
PROPERTIES NoRegress EventuallyHandled
CHECK_DEADLOCK FALSE
