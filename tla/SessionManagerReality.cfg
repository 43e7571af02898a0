SPECIFICATION Spec
CONSTANTS
    h1 = h1
    h2 = h2
    Handlers = {h1, h2}
    MaxUnits = 2
    MaxCalls = 3
    MaxCrashes = 2
    MaxFailures = 0
SYMMETRY Interchangeable
CHECK_DEADLOCK FALSE
INVARIANT HoweverTheDaemonDied
