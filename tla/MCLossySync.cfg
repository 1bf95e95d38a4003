CONSTANTS
    Clients = {r1, r2}
    MaxUpdates = 3
    MaxFaults = 1
    MaxCloses = 1
    LossySync = TRUE
SYMMETRY ClientSymmetry
SPECIFICATION Spec
INVARIANT ListenerBookSound
CHECK_DEADLOCK FALSE
