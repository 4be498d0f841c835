SPECIFICATION Spec
CONSTANTS
    Wallets = {w1}
    Calm = FALSE
    MaxInFlight = 2
    MaxRequests = 4
    MaxBlockPosts = 2
    MaxFailures = 1
    MaxCrashes = 1
    PaysFee = TRUE
    MaxUnlockerCrashes = 1
CHECK_DEADLOCK FALSE
INVARIANTS
    CountsAddUp
    SkippedShareHasRival
    PaidAtMostOnce
    NeverUnderpaid
PROPERTIES
    
    UnlockedRewardsAreFinal
