CONSTANTS
    Venues <- MCUpdaters
    Slots = {s1, s2}
    Capacity <- MCCapacity
    MaxCounted <- MCMaxCounted
    MaxVersions = 3
    MaxFaults = 2
    MaxChains = 2
    Requesting = FALSE
SPECIFICATION Spec
PROPERTIES
    ListsGoForward
    
