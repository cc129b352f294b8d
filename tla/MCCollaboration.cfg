CONSTANTS
    MaxRevisions = 1
    MaxRows = 16
    MaxFaults = 1
SPECIFICATION Spec
INVARIANTS
    TypeOK
    AcceptedConversationIsWhole
    NewRolesReadEverything
    NothingBeforeItsAcknowledgement
    PublishedOnce
CHECK_DEADLOCK FALSE
