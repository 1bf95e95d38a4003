CONSTANTS
    ClIDs = {c1, c2}
    ExIDs = {x1, x2}
    NoID = NoID
    Sides = {"Buy"}
    Types = {"Limit"}
    MaxLots = 2
    MaxPrice = 1
    UnknownLimit = 1
    MaxCalls = 2
    MaxFaults = 1
    VenueRules <- MCVenues
SPECIFICATION Spec
CHECK_DEADLOCK FALSE
INVARIANTS
    AccountSound
    NoFalseClose
    
