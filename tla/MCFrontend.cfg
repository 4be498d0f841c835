SPECIFICATION FairSpec
CONSTANTS
    Accounts = {"ann", "bob"}
    Visitors = {"ann"}
    FirstPages = {"/", "/account"}
    MaxEvents = 4
    MaxRequests = 1
    MaxFailures = 1
INVARIANTS
    PageSurvives
    SettingsAreOwn
PROPERTIES
    SessionLasts
    ViewSettles
CHECK_DEADLOCK FALSE
