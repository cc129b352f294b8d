CONSTANTS
    MaxRevisionCycles = 0
    MaxModelInvocations = 5
    MaxSchemaRepairs = 0
    MaxCrashes = 1
SPECIFICATION Spec
INVARIANTS
    BlockedResultsStopTheRun
