SPECIFICATION FairSpec
CONSTANTS
    Fetchers = {"timer", "finder"}
    Timer = "timer"
    Sessions = {"s1"}
    maxBacklog = 1
    MaxFails = 1
    StartHeight = 5
    MaxWorks = 2
    MaxErrors = 2
    MaxFinds = 1
    MaxLogins = 2
INVARIANT BacklogKept
PROPERTIES TemplateCatchesUp SessionsFollow
CHECK_DEADLOCK FALSE
