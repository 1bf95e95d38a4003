CONSTANTS
    Venues <- MCVenues
    Slots = {s1, s2}
    Capacity <- MCCapacity
    MaxCounted <- MCMaxCounted
    MaxVersions = 1
    MaxFaults = 1
    MaxChains = 1
    Requesting = TRUE
SPECIFICATION Spec
SYMMETRY Interchangeable
INVARIANTS
    TypeOK
    
    AnswerIsTrue
    
