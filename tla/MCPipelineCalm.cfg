SPECIFICATION FairSpec
CONSTANTS
    Wallets = {w1, w2}
    Calm = TRUE
    MaxInFlight = 2
    MaxRequests = 4
    MaxBlockPosts = 2
    MaxFailures = 0
    MaxCrashes = 1
    PaysFee = TRUE
    MaxUnlockerCrashes = 1
CHECK_DEADLOCK FALSE
INVARIANTS
    CacheIsOpenRound
    NoEmptyRound
    PaidExactly
PROPERTIES
    RoundsInOrder
    EventuallyUnlocked
