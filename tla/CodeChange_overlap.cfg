SPECIFICATION Spec
CHECK_DEADLOCK FALSE
CONSTANTS
    None = None
    Gone = Gone
    Workers = {w1, w2}
    Appliers = {h1}
    Missions = {1}
    LeaseOutlivesWork = FALSE
    MaxAttempts = 3
    MaxApprovals = 3
    MaxCrashes = 1
SYMMETRY WorkerSymmetry
INVARIANT ApprovalBindsCandidate
PROPERTY ProposalImmutable
