CONSTANTS
    MaxRevisionCycles = 1
    MaxModelInvocations = 8
    MaxSchemaRepairs = 1
    MaxCrashes = 1
SPECIFICATION FairSpec
INVARIANTS
    RecordsAlwaysConsistent
    EventsCiteTheirResults
    CompletionIsEvidenced
    LaunchesBounded
PROPERTIES
    NoLaunchWhileUnresolved
    NoAnswerAskedTwice
    ImplementsLifecycle
    EveryRunEnds
