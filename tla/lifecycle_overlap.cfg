\* Starts and stops in any order.
SPECIFICATION FairSpec
CONSTANTS
    None = None
    d1 = d1
    d2 = d2
    s1 = s1
    l1 = l1
    a1 = a1
    a2 = a2
    Daemons <- TwoDaemons
    Stoppers <- OneStopper
    Lockers <- Nobody
    Activators <- Nobody
    ConcurrentStarts = TRUE
    RestartWhileStopping = TRUE
INVARIANTS
    CleanupIsExclusive
    OnlyRobbedAreCutOff
PROPERTIES
    ShutdownCompletes
