\* Clients that die or lose their response: locks and activations end all the
\* same, and the credential behind a hold stays.
SPECIFICATION FairSpec
CONSTANTS
    None = None
    c1 = c1
    c2 = c2
    k1 = k1
    k2 = k2
    Clients <- TwoClients
    Keys <- OneKey
    Unreliable <- TwoClients
PROPERTIES
    GoodCredentialIsKept
    NobodyWaitsForEver
