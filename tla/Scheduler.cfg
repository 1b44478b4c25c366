SPECIFICATION Spec
CONSTANTS
    i1 = i1
    i2 = i2
    Openers = {o1}
    Lessor = Lessor
    Hold = 1
    Stale = 1
    PresenceTTL = 1
    MaxFaults = 2
    Instances = {i1, i2}
    Windows <- MCWindows
    Phase <- MCPhase
    Day = 5
    Period = 1
    Lease = 3
    MaxEdits = 1
    MaxCrashes = 1
CHECK_DEADLOCK FALSE
INVARIANTS
    TypeOK
    Traced
    FailSecure
    HeldOpen
SYMMETRY Symmetry
