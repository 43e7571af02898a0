SPECIFICATION Progress
CONSTANTS
    t1 = t1
    t2 = t2
    t3 = t3
    Bash = Bash
    Edit = Edit
    Tools <- MCTools
    Names <- MCNames
    NameOf <- MCNameOf
    NoTool = NoTool
    NoName = NoName
    NoLaunch = NoLaunch
    NoAgent = NoAgent
    MaxInflight = 2
    Window = 1
    LossyHooks = TRUE
    MaxRestarts = 1
    MaxLaunches = 2
    MaxLaunchFaults = 2
    Batch = 2
    Buffer = 2
    MaxEvents = 4
    MaxFeedFaults = 2
CHECK_DEADLOCK FALSE
INVARIANTS
    TypeOK
    NoSpuriousClear
PROPERTIES
    PostLiftsBlock
    BlockLifts
    EndIsNoticed
    CatchesUp
