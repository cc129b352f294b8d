CONSTANTS
    Streams = {out, err}
    Descendants = {d}
    OutputLimit = 1
    MaxWritten = 2
    Jobs = 2
    Required = {1}
SPECIFICATION FairSpec
INVARIANTS
    NothingOutlivesTheCall
    NothingIsDroppedSilently
    VerifiedJobsRan
PROPERTIES
    CallsEndUnlessHeld
