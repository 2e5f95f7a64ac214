SPECIFICATION Spec
CONSTANTS
    Reviewers = {"alice"}
    MaxReviews = 2
    MaxPushes = 0
    MaxChanges = 0
INVARIANT NewerSupersedes
CHECK_DEADLOCK FALSE
