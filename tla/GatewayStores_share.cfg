CONSTANTS
    k1 = k1
    k2 = k2
    k3 = k3
    s1 = s1
    s2 = s2
    p1 = p1
    p2 = p2
    Procs <- MCProcs
    CacheKeys <- MCCacheKeys
    Subjects = {s1, s2}
    SubjectOf <- MCSubjectOf
    NoProc = NoProc
    MaxPrincipals = 1
    MaxSessions = 1
    Burst = 1
    MaxSubjects = 1
    MaxCalls = 3
    MaxFetches = 2
    MaxTicks = 1
    MaxFaults = 1
SPECIFICATION Spec
SYMMETRY Symmetry
INVARIANTS
    PurgeSticks
    NoOverAllow
    NoLockLeft
PROPERTIES
    StoresAreShared
