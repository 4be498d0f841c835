SPECIFICATION UpstreamsSpec
CONSTANTS
    Upstreams = {1, 2, 3}
    Threshold = 5
    MaxChanges = 4
PROPERTIES RecoveryNeedsStreak SettlesOnPreferred
