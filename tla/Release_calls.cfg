SPECIFICATION CalmSpec
CHECK_DEADLOCK FALSE
CONSTANTS
    None = None
    Callers = {c1, c2}
    Missions = {m1, m2}
    MaxReleases = 3
    MaxCommits = 3
    MaxFaults = 1
SYMMETRY CallerSymmetry
INVARIANTS
    EffectsApproved
    PublicationIsTheBranch
    CalmRecorded
PROPERTY CalmRollback
