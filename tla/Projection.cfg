CONSTANTS
    High = {"canonical", "operational"}
    Low = {"projection"}
    None = None
    Plain = {"content"}
    Required = {}
    Activations = {1, 2}
    MaxCommits = 2
    MaxClock = 2
    MaxOps = 1
    MaxFaults = 1

SPECIFICATION FairSpec
CHECK_DEADLOCK FALSE

INVARIANTS
    WatermarkSound
    CohortTogether
PROPERTIES
    Converges
