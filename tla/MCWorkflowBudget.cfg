CONSTANTS
    MaxRevisionCycles = 0
    MaxModelInvocations = 5
    MaxSchemaRepairs = 1
    MaxCrashes = 0
SPECIFICATION Spec
INVARIANTS
    InvocationBudget
