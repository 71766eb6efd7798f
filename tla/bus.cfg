SPECIFICATION FairSpec
CONSTANTS
    NoTime = NoTime
    Nil = Nil
    stop = stop
    place = place
    text = text
    IsExpired <- Expired
    JourneyRefs = {1, 2, 3, 4, 5}
    Services = {1}
    NumberOf <- MCNumberOf
    Stops = {stop}
    Areas = {}
    Places = {place}
    Destinations = {text}
    MaxTime = 3
    FirstTime = 1
    LastTime = 2
    Tops = {1, 2}
    Fields <- MCFields
    Responses <- MCResponses
    MaxPolls = 2
    i1 = i1
    i2 = i2
    Ingesters = {i1, i2}
INVARIANTS TypeOK NoExpiredPresented PresentsNext ListIsNewest PresentedWasKept
PROPERTIES HandlerReturns
