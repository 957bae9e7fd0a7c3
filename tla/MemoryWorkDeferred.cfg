SPECIFICATION Spec
CONSTANTS
    Optional = {"alignment"}
    MaxAttempts = 2
    MaxEvents = 1
    MaxMessages = 1
    MaxRequests = 0
    MaxCalls = 0
    MaxDue = 1
    MaxFaults = 2
INVARIANT NoOlderMandatory
