SPECIFICATION LoopsSpec
CONSTANTS
    stop = stop
    area = area
    place = place
    text = text
    NoTime = NoTime
    JourneyRefs = {1, 2, 3}
    Services = {1, 2, 3, 4}
    NumberOf <- MCNumberOf
    Nil = Nil
    Stops = {stop}
    Areas = {area}
    Places = {place}
    Destinations = {text}
    MaxTime = 2
    Candidates <- MCCandidates
    MaxCached = 3
    MaxNew = 3
    k1 = k1
    k2 = k2
    k3 = k3
    Keys = {k1, k2, k3}
    MaxPayloads = 5
    MaxCells = 3
INVARIANTS LoopsComputeRefreshed NewestOnce UnmodifiedIfGrouped UnreadIntact OneDeliveryEach
SYMMETRY KeySymmetry
CHECK_DEADLOCK FALSE
