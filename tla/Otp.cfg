SPECIFICATION Spec
CONSTANTS
    Codes = {c1, c2, c3}
    Handlers = {p1, p2}
    NoCode = NoCode
    OtpTTL = 1
    OtpRequestWindow = 2
    OtpBlockTTL = 2
    OtpMaxRequests = 2
    OtpMaxAttempts = 2
    MaxLag = 1
CHECK_DEADLOCK FALSE
INVARIANTS
    TypeOK
    CodeOnce
PROPERTIES
    InTime
    GuessedOut
    WindowEnds
