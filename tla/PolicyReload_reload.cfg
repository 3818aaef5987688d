CONSTANTS
    Procs = {p1, p2}
    Bundles <- MCBundles
    Ceiling = 2
    Required = FALSE
    MaxPublish = 2
    MaxFaults = 1
SPECIFICATION FairSpec
INVARIANTS
    GatesFollowPolicy
PROPERTIES
    NoRollbackSerial
    CatchesUp
