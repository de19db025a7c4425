\* The operations on gpg, its agent and gpgconf, child by child.
SPECIFICATION GpgSpec
CONSTANTS
    None = None
    Rings <- MCRings
    Requests <- MCRequests
    Options <- MCOptions
    PipeSize = 1
    OutputSize = 2
INVARIANTS
    TargetIsSigner
    ReportsAreTrue
    ChildrenEndWell
PROPERTIES
    CallReturns
