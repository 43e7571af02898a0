SPECIFICATION Spec
CONSTANTS
    MaxPauses = 3
    MaxDropped = 2
INVARIANT ResolvingReopensDedupe
