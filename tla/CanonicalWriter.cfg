CONSTANTS
    r1 = r1
    r2 = r2
    r3 = r3
    ada = ada
    Global = Global
    None = None
    Request = {r1, r2}
    Resident = {ada}
    ScopeOf <- MCScopeOf
    Fence = {r2}
    Impatient = {r1}
    Capacity = 1
    MaxSeq = 2
    MaxInstant = 1
    MaxCrashes = 1
SPECIFICATION FairSpec
INVARIANTS
    LedgerOrdered
    FenceExclusive
PROPERTIES
    PausedLedgerStable
    RefinesLedger
    SubmitReturns
    ClosedWriterStops
CHECK_DEADLOCK FALSE
