SPECIFICATION FairSpec
CONSTANTS
    Calls = {c1}
    Apartments = {a1}
    Users = {u1, u2}
    Requests = {r1, r2}
    Members <- MembersOne
    TTL = 2
    Faults = TRUE
    SlowHandlers = TRUE
    Polite = FALSE
    NoCall = NoCall
    NoApartment = NoApartment
    NoUser = NoUser
    u1 = u1
INVARIANTS
    TypeOK
    DoorOnlyAfterAccept
PROPERTIES
    BusyRunsOut
