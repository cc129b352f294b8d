CONSTANTS
    Cleaners = {c1, c2}
    MaxRevisions = 1
    MaxCrashes = 2
SPECIFICATION Spec
INVARIANTS
    RemovedTreesAreGone
    LiveTreesStay
    ReviewersSeeTheCandidate
    ReviewedIsWhatIsThere
PROPERTIES
    NoWorkIsLost
