SPECIFICATION FairSpec
CONSTANTS
    None = None
    s1 = s1
    s2 = s2
    s3 = s3
    ru = ru
    rv = rv
    Workers = {w1}
    Resumers = {}
    Deciders = {d1}
    Missions = {1, 2}
    Steps <- MixedSteps
    StepMission <- MixedMission
    StepPos <- MixedPos
    StepFp <- MixedFp
    StepScope <- MixedFp
    Mutates = {s2, s3}
    Registered <- MixedSteps
    Permitted <- MixedSteps
    Risk <- BlueBehind
    Rules = {rv}
    RuleScope <- ReadRuleScope
    RuleRisk <- ReadRuleRisk
    UnlimitedRules = {rv}
    RuleMax <- ReadRuleMax
    OperatorModes = {"normal", "safe", "freeze", "unreadable"}
    MaxApprovals = 3
    MaxCrashes = 0
PROPERTY PlanSettles
