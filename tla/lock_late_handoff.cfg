\* A handoff its client no longer waits for, against a later lock.
SPECIFICATION Spec
CONSTANTS
    None = None
    c1 = c1
    c2 = c2
    k1 = k1
    k2 = k2
    Clients <- TwoClients
    Keys <- OneKey
    Unreliable <- TwoClients
SYMMETRY ClientSymmetry
INVARIANTS
    LockSuccessLasts
