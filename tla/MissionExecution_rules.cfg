SPECIFICATION Spec
CONSTANTS
    None = None
    s1 = s1
    s2 = s2
    s3 = s3
    ru = ru
    rv = rv
    Workers = {w1}
    Resumers = {r1}
    Deciders = {d1}
    Missions = {1, 2}
    Steps <- BlueSteps
    StepMission <- BlueMission
    StepPos <- BluePos
    StepFp <- BlueScope
    StepScope <- BlueScope
    Mutates <- BlueSteps
    Registered <- BlueSteps
    Permitted <- BlueSteps
    Risk <- BlueRisk
    Rules = {ru}
    RuleScope <- OnceRuleScope
    RuleRisk <- OnceRuleRisk
    UnlimitedRules = {}
    RuleMax <- OnceRuleMax
    OperatorModes = {"normal"}
    MaxApprovals = 1
    MaxCrashes = 1
INVARIANT TypeOK
INVARIANT Authorised
INVARIANT RuleBudget
INVARIANT QuiescentAgreement
