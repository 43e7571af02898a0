SPECIFICATION Services
CONSTANTS
    MaxPauses = 3
    MaxDropped = 2
    Shells = {s1}
    Calls = {c1, c2, c3}
    NoCall = NoCall
    MaxCrashes = 1
    MaxLaunches = 2
    MaxLaunchFaults = 2
    Batch = 2
    Buffer = 2
    MaxEvents = 4
    MaxFeedFaults = 2
    ReviewMaxNudge = 1
    MaxVersions = 2
    MaxChanges = 2
    MaxReactionFaults = 2
    Cards = {k1, k2}
    MaxTrainChanges = 2
    MaxTrainFaults = 2
    Visitors = {v1, v2}
    Nobody = Nobody
    MaxRuns = 2
    MaxSetbacks = 2
    Requests = {r1, r2}
    MaxSockets = 2
    MaxCuts = 1
    Clients = {d1, d2}
    MaxGrid = 2
    MaxTaps = 2
    MaxFrames = 3
CHECK_DEADLOCK FALSE
INVARIANTS
    ServicesTypeOK
    OneOpenRow
    ListTellsThePause
    ShellsRooted
    ForgottenWereDead
    NeverDiscarded
    RowTellsTheEnd
    ToldOnce
    AcknowledgedWasHandled
    OnceOnly
    InTurn
    OneServer
    BothEnds
    GridArbitrated
    KeysInOrder
PROPERTIES
    InOrder
