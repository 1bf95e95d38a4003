CONSTANTS
    ClIDs = {c1}
    ExIDs = {x1, x2}
    NoID = NoID
    Sides = {"Buy", "Sell"}
    Types = {"Limit", "Market"}
    MaxLots = 2
    MaxPrice = 2
    UnknownLimit = 1
    MaxCum = 2
SPECIFICATION Spec
INVARIANTS
    BookMirrorsOrders
    WorkingOrdersHaveLeaves
    ConfirmedReachable
    Inv
PROPERTIES
    FilledIsFinal
    NoRebooking
SYMMETRY ExchangeIDs
