SPECIFICATION FairSpec
CONSTANTS
    Workers = {w1}
    w1 = w1
    FlushAfter = 2
    MaxFaults = 1
    Days = {0, 1}
    NoEnd = NoEnd
    BadDate = BadDate
    Buckets <- MCBuckets
INVARIANTS SuccessMeansStored OnlyKeysOfNewest NoPanicUnlessFailure
PROPERTIES AllGoroutinesEnd
