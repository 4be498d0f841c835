SPECIFICATION Spec
CONSTANTS
    Proofs = {"early", "late", "block", "far"}
    BlockProofs = {"block"}
    HeightOf <- MCHeightOf
    PowWindow = 2
    Backlog = 2
    Width = 4
    MaxTip = 4
    MaxSubmissions = 3
    MaxInFlight = 1
    MaxFailures = 0
    MaxDeaths = 0
INVARIANT DuplicateNotCredited
CHECK_DEADLOCK FALSE
