SPECIFICATION FairSpec
CONSTANTS
    Coinbases = {c1, c2}
    MaxPayments = 3
    MaxMoves = 1
    MaxRounds = 3
    MaxFailures = 1
    MaxRestarts = 1
    MaxDeaths = 1
INVARIANTS
    RewardsCovered
    
PROPERTIES
    CatchesUp
