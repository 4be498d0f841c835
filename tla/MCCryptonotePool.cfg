SPECIFICATION FairSpec
CONSTANTS
    JobHistory = 2
    TemplateHistory = 1
    Nonces = {n1}
    Difficulties = {1, 2}
    Qualities = {1, 3}
    NetDifficulty = 3
    MaxHeight = 2
    MaxMiners = 2
    MaxExtraNonce = 2
    MaxAccepted = 2
    MaxRefreshes = 1
    MaxRestarts = 1
INVARIANTS
    TypeOK
    
    EveryMinerUpToDate
    DistinctJobs
    OneSubmissionPerProof
PROPERTIES
    CatchUp
    LedgerSpec
