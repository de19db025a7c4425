\* The daemon's hold under every interleaving of handlers, signals, ticks and
\* the scheduler: what may never happen, and what must.
SPECIFICATION FairSpec
CONSTANTS
    None = None
    k1 = k1
    k2 = k2
    Keygrips <- MCKeygrips
    Requests <- MCRequests
    Horizon = 1000
    MaxClock = 8
    MaxGeneration = 3
INVARIANTS
    TypeOK
    HoldIsSound
    NoLostWakeup
    SessionIsRenewable
PROPERTIES
    ImplementsContract
    ReplacementUntouched
    DueWorkIsDone
    ShutdownEndsScheduler
