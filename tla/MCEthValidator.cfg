SPECIFICATION FairSpec
CONSTANTS
    Candidates = {"high", "low", "late", "edge", "lost"}
    Recorded <- MCRecorded
    OnChain <- MCOnChain
    minDepth = 2
    Depth = 4
    MaxHeight = 9
    MaxErrors = 2
    MaxRestarts = 2
INVARIANTS ValidIsBuried OrphansOutOfWindow
PROPERTY EventuallyValid
CHECK_DEADLOCK FALSE
