SPECIFICATION ManualSpec
CONSTANTS
    i1 = i1
    Openers = {o1}
    Lessor = Lessor
    Hold = 1
    Stale = 1
    PresenceTTL = 1
    MaxFaults = 0
    Instances = {i1}
    Windows <- MCWindows
    Phase <- MCPhase
    Day = 8
    Period = 2
    Lease = 5
    MaxEdits = 0
    MaxCrashes = 0
CHECK_DEADLOCK FALSE
INVARIANT
    HeldWhoeverOpens
