CONSTANTS
    Slots = {s1, s2}
    Nobody = Nobody
    Part = Part
    MaxCommands = 3
    MaxFaults = 1
    MaxClock = 1
    MaxNonce = 2
    MaxCandidates = 2
SPECIFICATION Spec
SYMMETRY SlotSymmetry
INVARIANTS
    TypeOK
    RecordedRunsCanResume
    NoncesAreFresh
    ReportFilesInOrder
    OutputIsOneReport
    OnlyTheCandidateIsExported
PROPERTIES
    ReportsNeverGoBack
CHECK_DEADLOCK FALSE
