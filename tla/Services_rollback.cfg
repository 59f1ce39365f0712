SPECIFICATION MCSpec
CHECK_DEADLOCK FALSE
CONSTANTS
    k1 = k1
    k2 = k2
    None = None
    HostClients = {h1, h2}
    HostCalls <- MCReleaseCalls
    HostTargets <- MCHostTargets
    LogSizes = {1, 3}
    MAX_RESPONSE_BYTES = 2
    MaxHostCalls = 2
    MaxKills = 1
    LoopWorkers <- MCLoopWorkers
    Scopes <- MCScopes
    Requests = {r1, r2}
    MaxMissions = 2
    MaxFailedNotes = 1
    Tracked = {"app.py", "lib.py", "new.py"}
    Ignored = {".env", ".cache"}
    GitPaths = {".git/config"}
    Links = {"node_modules"}
    MainTrees <- MCMainTrees
    Local <- MCLocal
    Proposals <- MCProposals
    Droppings <- MCDroppings
    MAX_REVIEW_DIFF = 2
    TestCommands = 2
    MaxStrays = 2
    NoBranch = NoBranch
INVARIANT AdapterRequestAccepted
