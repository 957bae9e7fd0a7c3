CONSTANTS
    RecentCandidates = 1
    OlderPageSize = 2
    OlderPages = 1
    MaxMessages = 5
    MaxFaults = 1

SPECIFICATION FairScanSpec
CHECK_DEADLOCK FALSE

INVARIANTS
    CleanProofSound
PROPERTIES
    MessageReached
