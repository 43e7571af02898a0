SPECIFICATION Spec
CONSTANTS
    t1 = t1
    t2 = t2
    t3 = t3
    Bash = Bash
    Edit = Edit
    Tools <- MCTools
    Names <- MCNames
    NameOf <- MCNameOf
    NoTool = NoTool
    NoName = NoName
    NoLaunch = NoLaunch
    NoAgent = NoAgent
    MaxInflight = 3
    Window = 1
    LossyHooks = FALSE
    MaxRestarts = 1
INVARIANT NeverASpuriousClear
