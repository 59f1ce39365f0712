SPECIFICATION Spec
CONSTANTS
    None = None
    s1 = s1
    s2 = s2
    s3 = s3
    ru = ru
    rv = rv
    Workers = {w1, w2}
    Resumers = {r1}
    Deciders = {d1}
    Missions = {1}
    Steps <- PairSteps
    StepMission <- PairMission
    StepPos <- PairPos
    StepFp <- PairFp
    StepScope <- PairFp
    Mutates <- PairSteps
    Registered <- PairSteps
    Permitted <- PairSteps
    Risk <- PairRisk
    Rules = {}
    RuleScope <- NoRules
    RuleRisk <- NoRules
    UnlimitedRules = {}
    RuleMax <- NoRules
    OperatorModes = {"normal"}
    MaxApprovals = 2
    MaxCrashes = 1
SYMMETRY WorkerSymmetry
INVARIANT StepOrder
INVARIANT ExecutedAtMostOnce
 
INVARIANT Authorised
 
 
