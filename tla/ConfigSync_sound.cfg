SPECIFICATION Spec
CONSTANTS
    x1 = x1
    a1 = a1
    Inbounds = {x1, a1}
    Awg = {a1}
    Hops = {"edge"}
    Broken <- MCBroken
    Vocabularies <- MCVocabularies
    Contents <- MCContents
    Start <- MCStart
    SteadyChain = TRUE
    Overlap = FALSE
    RebuildFaults = FALSE
    MaxEvents = 3
    Nothing = Nothing
PROPERTIES HistoryKept RowsConverge BoxConverges
