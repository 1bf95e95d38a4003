CONSTANTS
    ClIDs = {c1}
    ExIDs = {x1}
    NoID = NoID
    Sides = {"Buy"}
    Types = {"Limit"}
    MaxLots = 1
    MaxPrice = 1
    UnknownLimit = 1
    MaxCancels = 1
    MaxFaults = 1
SPECIFICATION Spec
PROPERTIES
    PositionSettles
    PendingResolves
    RequestsAnswered
