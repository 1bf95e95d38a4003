CONSTANTS
    Clients = {r1, r2}
    MaxUpdates = 3
    MaxFaults = 1
    MaxCloses = 2
    LossySync = FALSE
SPECIFICATION Spec
INVARIANTS
    TypeOK
    FollowersAreServed
    ListenerBookSound
PROPERTIES
    FeedSpec
    ClientsCatchUp
    ManagerIsReleased
CHECK_DEADLOCK FALSE
