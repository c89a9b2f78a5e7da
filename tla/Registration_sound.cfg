SPECIFICATION Spec
CONSTANTS
    Boxes <- MCBox
    b1 = b1
    Nothing = Nothing
    PerIP = 1
    Global = 2
    LosesState = FALSE
    MaxRequests = 4
    MaxFaults = 2
    MaxEvents = 1
INVARIANTS HandedOnce ParkedIsLive OwnCyclesOnly
PROPERTIES Adopted
