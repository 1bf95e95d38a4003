CONSTANTS
    ClIDs = {c1}
    ExIDs = {x1}
    NoID = NoID
    Sides = {"Buy"}
    Types = {"Limit"}
    MaxLots = 1
    MaxPrice = 1
    UnknownLimit = 1
    MaxCalls = 2
    MaxFaults = 1
    VenueRules <- MCVenues
SPECIFICATION Spec
CHECK_DEADLOCK FALSE
PROPERTIES
    EveryRequestAnswered
    PendingResolves
    PositionSettles
