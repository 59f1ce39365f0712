SPECIFICATION Spec
CONSTANTS
    w1 = w1
    w2 = w2
    None = None
    Workers <- MCWorkers
    ComponentOrder <- MCAppDatabase
    Snapshots <- MCAppDatabaseSnapshots
    SettingsSet <- MCSettings
    Outcomes = {"EXECUTED", "FAILED", "SIMULATED", "WAITING_APPROVAL"}
    Threshold = 2
    Observation = 1
    Cooldown = 1
    Budget = 1
    Window = 2
    MaxIncidents <- MCMaxIncidents
    MaxMissions = 2
    MaxCrashes <- MCMaxCrashes
SYMMETRY WorkerSymmetry
INVARIANTS
    TypeOK
    RecordedBudget
    SustainedFailure
    OneAttemptPerIncident
    EscalationNotified
    RestartAccounted
    NoStrandedIncident
PROPERTIES
    TerminalIsFinal
CHECK_DEADLOCK FALSE
