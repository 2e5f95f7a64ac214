SPECIFICATION FairSpec
CONSTANTS
    Reviewers = {"alice", "bob"}
    MaxReviews = 3
    MaxPushes = 1
    MaxChanges = 1
INVARIANTS
    TestedIsReviewed
    OneTestAtATime
    OnlyRequestsCancel
PROPERTY
    SomeTestEnds
CHECK_DEADLOCK FALSE
