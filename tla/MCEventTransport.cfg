CONSTANTS
    Hazards = {"interrupt", "crash", "late_commit", "oversized_answer"}
    MaxEvents = 3
    MaxFaults = 2
    MaxOthers = 1
    MaxReaped = 1
SPECIFICATION Spec
INVARIANTS
    TypeOK
    ReceiptsAreReal
    PublishedInOrder
    ReadBackReaches
    ViewerShowsDurableEvents
