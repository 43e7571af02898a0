SPECIFICATION Spec
CONSTANTS
    h1 = h1
    h2 = h2
    Handlers = {h1}
    Boot = Boot
    MaxReadmissions = 1
    MaxRecoveries = 2
    MaxRuns = 1
    MaxCrashes = 1
    MaxFaults = 0
CHECK_DEADLOCK FALSE
INVARIANT PublishedHeadAdopted
