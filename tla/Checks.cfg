\* Two CRDs, two example files, two of the four build jobs, one re-run or further run.
SPECIFICATION CISpec
CONSTANTS
    CRDs = {c1, c2}
    NoCRD = NoCRD
    Files = {f1, f2}
    BuildJobs = {"lint", "unit-tests"}
    Failing = {"mktemp", "fetch", "tool", "prepare", "enumerate", "apply"}
    MaxFaults = 1
    MaxRuns = 3
INVARIANTS
    CIType
    GreenIsVerified
    ExamplesPassMeansWork
    PassIsChecked
    AcceptedIsPrinted
    VerdictIsDeserved
CHECK_DEADLOCK FALSE
