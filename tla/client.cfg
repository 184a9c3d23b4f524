SPECIFICATION FairSpec

CONSTANTS
    f1 = f1
    k1 = k1
    k2 = k2
    Nothing = Nothing
    Requests <- MCRequests
    Keys <- MCKeys
    KeyOf <- MCKeyOf
    TTL <- MCTTL
    Solo <- MCSolo
    Asks <- MCAsks
    Batches <- MCBatches
    Closers <- MCClosers
    PoolSize = 2
    MaxTime = 1

INVARIANTS TypeOK LateFetchRefused MultiAccountsForAll NoSiblingAbort
PROPERTIES ImplementsPromise CallsReturn

CHECK_DEADLOCK FALSE
