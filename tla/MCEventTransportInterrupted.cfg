CONSTANTS
    Hazards = {"interrupt"}
    MaxEvents = 2
    MaxFaults = 1
    MaxOthers = 0
    MaxReaped = 0
SPECIFICATION Spec
INVARIANTS
    AtMostOneCopy
