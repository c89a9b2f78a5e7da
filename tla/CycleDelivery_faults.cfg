SPECIFICATION Spec
CONSTANTS
    MaxCycles = 2
    DiskFaults = TRUE
    MaxMade = 4
    MaxRestarts = 2
    MaxFlying = 2
INVARIANTS FiledOnce HeardIsFresh UnmarkedOncePerLife
