SPECIFICATION FairSpec
CONSTANTS
    MRKinds = {"Network"}
    MaxChanges = 1
    MaxFaults = 1
INVARIANTS
    AddedOnlyWhenServed
    AllOrNothing
    NoSilentLoss
    GateCanWatch
PROPERTY
    EveryControllerComesUp
CHECK_DEADLOCK FALSE
