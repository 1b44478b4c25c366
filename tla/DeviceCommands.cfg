SPECIFICATION Spec
CONSTANTS
    Requests = {q1, q2, q3}
    Stale = 1
    BufferTTL = 2
    Capacity = 2
    Skew = 2
    Restarts = TRUE
    MaxTime = 4
    MaxPlaces = 4
SYMMETRY Symmetry
CHECK_DEADLOCK FALSE
INVARIANTS
    TypeOK
    OnceUnlessForgotten
    AckedWasActuated
