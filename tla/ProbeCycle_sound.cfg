SPECIFICATION Spec
CONSTANTS
    x1 = x1
    x2 = x2
    a1 = a1
    server = server
    XrayTargets <- MCXray
    AwgTargets <- MCAwg
    Server <- MCServer
    Documents <- MCDocuments
    Intervals <- MCIntervals
    Budget = 3
    Connect = 1
    TLS = 2
    Headers = 2
    ClockSteps <- MCClockSteps
    MaxSteps = 2
    MaxRedirects = 1
    Lateness = 1
    MaxTime = 12
    MaxCycles = 4
SYMMETRY Symmetric
CONSTRAINT Focus
INVARIANTS CycleIsBounded ReasonFitsPhases
PROPERTIES GridKept CertIsOwn
