\* Who stores and deletes session credentials, up to the daemon's end.
SPECIFICATION Spec
CONSTANTS
    None = None
    c1 = c1
    c2 = c2
    g = g
    h = h
    Clients <- MCClients
    Clearer = Clearer
    Daemon = Daemon
    Keygrips <- MCKeygrips
    Stores <- MCStores
    Configs <- MCConfigs
    Faults = 1
INVARIANTS
    ValidatedIsWhatLoads
    TeardownLeavesNothing
PROPERTIES
    NothingLostWithoutSecret
    ClearedMeansEmpty
    TeardownEnds
CHECK_DEADLOCK FALSE
