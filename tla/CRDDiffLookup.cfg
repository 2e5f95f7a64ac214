SPECIFICATION Spec
CONSTANTS
    CRDs = {c1, c2}
    NoCRD = NoCRD
    Failing = {"lookup"}
    MaxFaults = 2
SYMMETRY Symmetric
INVARIANT PassIsChecked
CHECK_DEADLOCK FALSE
