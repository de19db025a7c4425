\* Two commands at a time, and a daemon that comes and goes.
SPECIFICATION Spec
CONSTANTS
    None = None
    Bad = Bad
    Fails = Fails
    c1 = c1
    c2 = c2
    k1 = k1
    k2 = k2
    Keys <- MCKeys
    Cmds <- MCCmds
    Setups <- MCSetups
    Wishes <- MCWishes
    Lives = 2
    Endings = 1
INVARIANTS
    OffMeansOff
    RefusedIsNotHeld
    SettingsAreObeyed
PROPERTIES
    CommandEnds
CHECK_DEADLOCK FALSE
