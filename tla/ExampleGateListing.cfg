SPECIFICATION Spec
CONSTANTS
    Files = {f1, f2}
    Failing = {"enumerate"}
    MaxFaults = 2
INVARIANT NothingSlipsThrough
CHECK_DEADLOCK FALSE
