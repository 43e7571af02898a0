SPECIFICATION Spec
CONSTANTS
    h1 = h1
    h2 = h2
    Handlers = {h1, h2}
    Boot = Boot
    MaxReadmissions = 1
    MaxRecoveries = 2
    MaxRuns = 2
    MaxCrashes = 1
    MaxFaults = 1
SYMMETRY Interchangeable
CHECK_DEADLOCK FALSE
INVARIANTS
    TypeOK
    LaunchedOnce
    DeployedAsChecked
    NothingLeftBehind
PROPERTY Implements
