SPECIFICATION Spec
CONSTANTS
    Proofs = {"early", "late", "block", "far"}
    BlockProofs = {"block"}
    HeightOf <- MCHeightOf
    PowWindow = 2
    Backlog = 2
    Width = 4
    MaxTip = 4
    MaxSubmissions = 3
    MaxInFlight = 2
    MaxFailures = 1
    MaxDeaths = 1
INVARIANTS  BlockAfterItsShare NoBlockForgotten
CHECK_DEADLOCK FALSE
