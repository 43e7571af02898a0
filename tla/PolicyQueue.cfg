SPECIFICATION Spec
CONSTANTS
    t1 = t1
    t2 = t2
    Tasks = {t1, t2}
    Slots = {1}
    MaxCrashes = 1
    MaxFaults = 1
SYMMETRY Interchangeable
CHECK_DEADLOCK FALSE
INVARIANTS
    TypeOK
    SlotsExclusive
    PhaseOwnsAction
    LiveHoldsSlot
    AdmittedWasReviewed
    NothingWaits
PROPERTY Implements
