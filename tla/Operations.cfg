SPECIFICATION Spec
CONSTANTS
    Free = Free
    Proc = {p1, p2}
    Listener = {l1, l2}
    MaxHead = 2
    BufferSize = 2
    AudioBuffer = 1
    QueueCapacity = 1
    MaxConcurrency = 1
    Scenarios <- MCScenarios
SYMMETRY Symmetry
INVARIANTS
    PublicationSound
    SourceHeld
    AudioFollowsText
    FreshestKept
PROPERTY OpensProven
CHECK_DEADLOCK FALSE
