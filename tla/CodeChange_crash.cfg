SPECIFICATION FairSpec
CHECK_DEADLOCK FALSE
CONSTANTS
    None = None
    Gone = Gone
    Workers = {w1, w2}
    Appliers = {}
    Missions = {1, 2}
    LeaseOutlivesWork = TRUE
    MaxAttempts = 2
    MaxApprovals = 3
    MaxCrashes = 1
PROPERTY ChangeSettles
INVARIANT SettledAgreement
INVARIANT AskedOnce
