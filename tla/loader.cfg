SPECIFICATION FairSpec
CONSTANTS
    Workers = {w1, w2}
    w1 = w1
    w2 = w2
    FlushAfter = 2
    Rows = 4
    MaxFaults = 1
INVARIANTS SuccessMeansStored NoPanicUnlessFailure RepliesMatch NoFlushDeadlock
PROPERTIES AllGoroutinesEnd
