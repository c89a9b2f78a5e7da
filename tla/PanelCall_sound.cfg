SPECIFICATION Spec
CONSTANTS
    Elements = {1, 2, 3}
    Valid = {1, 3}
    BatchSize = 2
    MaxRetries = 2
    MaxChanges = 1
    MaxFaults = 3
INVARIANTS TrueVerdicts
PROPERTIES CallSpec
CHECK_DEADLOCK FALSE
