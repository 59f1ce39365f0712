SPECIFICATION Spec
CONSTANTS
    w1 = w1
    w2 = w2
    None = None
    Workers <- MCOneWorker
    ComponentOrder <- MCApp
    Snapshots <- MCAppSnapshots
    SettingsSet <- MCSettings
    Outcomes = {"EXECUTED"}
    Threshold = 2
    Observation = 1
    Cooldown = 3
    Budget = 2
    Window = 4
    MaxIncidents <- MCMaxIncidents
    MaxMissions = 2
    MaxCrashes <- MCNoCrashes
CHECK_DEADLOCK FALSE
INVARIANT CooldownRespected
