SPECIFICATION BoxSpec
CONSTANTS
    r1 = r1
    r2 = r2
    r3 = r3
    r4 = r4
    r5 = r5
    empty = empty
    t1 = t1
    t2 = t2
    t3 = t3
    bad = bad
    None = None
    Empty = empty
    Revisions <- MCRevisions
    Links <- MCLinks
    Confs <- MCConfs
    Bad <- MCBad
    Fate <- MCFate
    DiskFails = FALSE
    Restarts = TRUE
    MaxFaults = 4
    MaxEdits = 3
INVARIANTS HonestMeasures
PROPERTIES LeavesTheOld KeepsProbing
