SPECIFICATION Spec
CONSTANTS
    FailOpenAfter = 3
    Hysteresis = 2
    Durations = {1, 2}
    Connections = 3
    MaxTime = 9
    Overtaking = FALSE
CHECK_DEADLOCK FALSE
INVARIANTS
    EventsInOrder
