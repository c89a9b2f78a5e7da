SPECIFICATION Spec
CONSTANTS
    Diagnoses = {"http_error"}
    MoveReasons <- Reasons
    Settings <- Changing
    Gaps <- GapSet
    MaxTime = 11
INVARIANTS RowIsConsistent LoudFlipsBounded
PROPERTIES FlappingIsEarned HoldIsServed StreakDecides
