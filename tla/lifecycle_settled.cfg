\* Daemons that start and stop after one another, beside a lock and
\* activations that may never end.
SPECIFICATION FairSpec
CONSTANTS
    None = None
    d1 = d1
    d2 = d2
    s1 = s1
    l1 = l1
    a1 = a1
    a2 = a2
    Daemons <- TwoDaemons
    Stoppers <- OneStopper
    Lockers <- OneLocker
    Activators <- TwoActivators
    ConcurrentStarts = FALSE
    RestartWhileStopping = FALSE
INVARIANTS
    StopMeansCleanedUp
PROPERTIES
    StaleSocketIsRecovered
    
