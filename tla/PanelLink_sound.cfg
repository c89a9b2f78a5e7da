SPECIFICATION Spec
CONSTANTS
    PanelDownAfter = 2
    BatchSize = 2
    Overlap = FALSE
    MaxRows = 2
    MaxOdd = 1
    MaxOutages = 2
    MaxFaults = 3
INVARIANTS NothingLost AlertsCovered InOrder
PROPERTIES BackMeansDrained Delivered
