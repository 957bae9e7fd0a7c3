CONSTANTS
    Resident = {1, 2}
    None = None
    Working = {1}
    MaxMessages = 1
    MaxCalls = 2
    MaxBounds = 2
    MaxFaults = 1

SPECIFICATION FairSpec
CHECK_DEADLOCK FALSE
INVARIANTS
    PreemptionReaches
    FenceReleased
PROPERTIES
    StepsInsideLease
    BoundaryReturns
