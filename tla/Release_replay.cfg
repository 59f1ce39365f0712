SPECIFICATION CalmSpec
CHECK_DEADLOCK FALSE
CONSTANTS
    None = None
    Callers = {c1}
    Missions = {m1}
    MaxReleases = 2
    MaxCommits = 1
    MaxFaults = 0
INVARIANT CalmDeployedOnce
