SPECIFICATION Spec
CONSTANTS
    s1 = s1
    s2 = s2
    s3 = s3
    area = area
    near = near
    far = far
    town = town
    loop = loop
    text = text
    i1 = i1
    r1 = r1
    r2 = r2
    NoTime = NoTime
    NoName = NoName
    NoArea = NoArea
    Malformed = Malformed
    JourneyRefs = {1, 2, 3, 4}
    Services = {1, 2}
    NumberOf <- MCNumberOf
    Nil = Nil
    MaxTime = 2
    Stops <- MCStops
    Areas <- MCAreas
    Places <- MCPlaces
    Destinations <- MCDestinations
    AreaOf <- MCAreaOf
    CircularDestination <- MCCircularDestination
    LocalityName <- MCLocalityName
    Instances <- OneInstance
    Records <- OneRecord
    InstanceOf <- AllOfOne
    Messages <- WideMessages
    MaxEvents = 2
    MaxFaults = 1
INVARIANTS TypeOK SuccessMeansCached
PROPERTIES AtomicIngestion
CHECK_DEADLOCK FALSE
