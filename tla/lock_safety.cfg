\* A successful lock against activations, renewals and credential clear.
SPECIFICATION Spec
CONSTANTS
    None = None
    c1 = c1
    c2 = c2
    k1 = k1
    k2 = k2
    Clients <- TwoClients
    Keys <- TwoKeys
    Unreliable = {}
SYMMETRY ClientSymmetry
INVARIANTS
    LockSuccessLasts
