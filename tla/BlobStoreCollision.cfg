CONSTANTS
    r1 = r1
    r2 = r2
    d1 = d1
    d2 = d2
    Request = {r1, r2}
    Digest = {d1, d2}
    None = None
    Contents <- Shared
    MaxErasures = 0
    MaxFaults = 1

SPECIFICATION Spec
CHECK_DEADLOCK FALSE

PROPERTIES
    RecoveryResumes
