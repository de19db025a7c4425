\* The schedule of a hold against the lifetime of the entry it keeps warm.
SPECIFICATION Spec
CONSTANTS
    None = None
    Keygrips <- MCKeygrips
    Horizon = 1000
    DefaultTTL = 16
    MaxTTL = 30
    Plans <- MCPlans
    ClientLag = 1
    DaemonLag = 1
    Jumps <- MCJumps
    MaxTime = 34
    MaxTries = 2
INVARIANTS
    EntryOutlivesHold
    CountdownHonest
