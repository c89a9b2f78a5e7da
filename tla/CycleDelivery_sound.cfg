SPECIFICATION Spec
CONSTANTS
    MaxCycles = 3
    DiskFaults = FALSE
    MaxMade = 5
    MaxRestarts = 2
    MaxFlying = 3
INVARIANTS NothingLost
PROPERTIES LiveInOrder LedgerSpec
