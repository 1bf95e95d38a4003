CONSTANTS
    ClIDs = {c1}
    ExIDs = {x1}
    NoID = NoID
    Sides = {"Buy"}
    Types = {"Limit"}
    MaxLots = 2
    MaxPrice = 1
    UnknownLimit = 1
    MaxCancels = 2
    MaxFaults = 2
SPECIFICATION Spec
INVARIANTS
    AccountSound
    NoFillLost
    NoFalseClose
    
