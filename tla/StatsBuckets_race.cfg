SPECIFICATION Spec
CONSTANTS
    x = x
    a = a
    Keys <- MCKeys
    Awg <- MCAwg
    Times <- MCTimes
    Refusable <- MCAwg
    BatchSize = 1
    MaxCycles = 3
    MaxFaults = 1
INVARIANTS SentIsCurrent
