CONSTANTS
    Drivers = {d1, d2}
    Cancelers = {c1, c2}
    Nobody = Nobody
    MaxCrashes = 1
SPECIFICATION FairSpec
INVARIANTS
    OneOperation
    OnlyLiveRequestsCancel
PROPERTIES
    EveryCommandEnds
CHECK_DEADLOCK FALSE
