SPECIFICATION PayoutsFairSpec
CONSTANTS
    Wallets = {w1}
    Depth = 2
    MaxRounds = 2
    MaxHeight = 6
    MaxPosts = 3
    MaxFaults = 2
    PaysFee = FALSE
    MaxUnlockerCrashes = 1
    MaxShares = 1
INVARIANT VerdictsAreTrue
PROPERTY EventuallySettled
CHECK_DEADLOCK FALSE
