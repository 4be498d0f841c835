SPECIFICATION NotificationsFairSpec
CONSTANTS
    Workers = {a}
    Emails = {m}
    MaxApiRequests = 1
    Limit = 1
    MaxClock = 6
    MaxShares = 2
    MaxDeaths = 1
INVARIANTS
    NoticesPerOutage

    
