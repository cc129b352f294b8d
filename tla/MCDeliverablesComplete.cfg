CONSTANTS
    Slots = {s1, s2}
    Nobody = Nobody
    Part = Part
    MaxCommands = 3
    MaxFaults = 0
    MaxClock = 0
    MaxNonce = 2
    MaxCandidates = 1
SPECIFICATION Spec
SYMMETRY SlotSymmetry
INVARIANTS
    OutputCodeIsComplete
CHECK_DEADLOCK FALSE
