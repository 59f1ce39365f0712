SPECIFICATION Spec
CONSTANTS
    None = None
    s1 = s1
    s2 = s2
    s3 = s3
    ru = ru
    rv = rv
    Workers = {w1}
    Resumers = {r1, r2}
    Deciders = {d1}
    Missions = {1}
    Steps <- PairSteps
    StepMission <- PairMission
    StepPos <- PairPos
    StepFp <- PairFp
    StepScope <- PairFp
    Mutates <- PairSteps
    Registered <- PairSteps
    Permitted <- PairSteps
    Risk <- PairRisk
    Rules = {}
    RuleScope <- NoRules
    RuleRisk <- NoRules
    UnlimitedRules = {}
    RuleMax <- NoRules
    OperatorModes = {"normal"}
    MaxApprovals = 1
    MaxCrashes = 0
INVARIANT ExecutedAtMostOnce
