SPECIFICATION FairSpec
CONSTANTS
    Optional = {"alignment", "persona", "derive", "autonomy"}
    MaxAttempts = 2
    MaxEvents = 2
    MaxMessages = 1
    MaxRequests = 1
    MaxCalls = 1
    MaxDue = 1
    MaxFaults = 1
INVARIANTS MandatoryFirst
PROPERTIES MemoryReached ScansComplete
