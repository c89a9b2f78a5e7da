SPECIFICATION LifeSpec
CONSTANTS
    Targets = {t1}
    Silence = 2
    Slow = 1
    MaxTokens = 2
    MaxSeq = 2
    MaxCrashes = 1
    MaxRequests = 2
INVARIANTS OfflineIsUnknown FeedAgrees
PROPERTIES OfflineIsEarned SilenceIsNoticed RevokedEndsOffline
