CONSTANTS
    Hazards = {}
    MaxEvents = 3
    MaxFaults = 2
    MaxOthers = 2
    MaxReaped = 0
SPECIFICATION FairSpec
INVARIANTS
    AtMostOneCopy
PROPERTIES
    EveryEventPublished
    ViewerCatchesUp
