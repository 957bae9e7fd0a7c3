CONSTANTS
    r1 = r1
    r2 = r2
    e1 = e1
    e2 = e2
    None = None
    Resident = {r1, r2}
    Event = {e1, e2}
    ResidentOf <- OneResident
    MaxAttempts = 2
    MaxDisruptions = 2
    MaxMoves = 1

SPECIFICATION FairSpec
CHECK_DEADLOCK FALSE

INVARIANTS
    HistoryWellFormed
    ArchiveClosed
    ProviderBounded
PROPERTIES
    BoundaryHolds
    RecoveryComplete
    ObligationCloses
