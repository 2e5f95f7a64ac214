\* Three commits, one of which may warrant a release; two runs started or re-run by hand, of either workflow.
SPECIFICATION FairSpec
CONSTANTS
    MaxCommits = 3
    MaxWorth = 1
    MaxByHand = 2
INVARIANTS
    TypeOK
    ReleasedOrFailed
    UnsignedShows
    SuccessIsSigned
PROPERTY EveryTagConcludes
CHECK_DEADLOCK FALSE
