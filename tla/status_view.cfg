\* What `status` prints of holds that come and go, and the clocks.
SPECIFICATION Spec
CONSTANTS
    None = None
    k = k
    Keygrips <- MCKeygrips
    Requests <- MCRequests
    Steps <- MCSteps
    Jumps <- MCJumps
    Ticks = 3
    Turns = 2
    Boot = 1000000
    NoDeadline = NoDeadline
    Horizon = 1000000000
INVARIANTS
    StatusIsTrue
PROPERTIES
    RemainingNeverGrows
