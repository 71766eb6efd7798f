SPECIFICATION FairSpec
CONSTANTS
    manchester = manchester
    bolton = bolton
    Delayed = Delayed
    OnTime = OnTime
    Malformed = Malformed
    r1 = r1
    r2 = r2
    Records = {r1, r2}
    Stations = {manchester, bolton}
    Boards <- MCBoards
    Beginnings <- MCBeginnings
    Day = 48
    Window = 4
    Offset = 2
    Minute = 2
    End = 51
    MaxEvents = 2
    MaxFaults = 1
INVARIANTS StoredTimesExact ListIsBoard SuccessMeansStored GoroutinesFinished
PROPERTIES NeverOlder HandlerReturns
CHECK_DEADLOCK FALSE
