SPECIFICATION Spec
CONSTANTS
    Calls = {c1, c2}
    Apartments = {a1, a2}
    Users = {u1, u2}
    Requests = {r1, r2, r3}
    Members <- MembersOne
    TTL = 2
    Faults = FALSE
    SlowHandlers = FALSE
    Polite = TRUE
    NoCall = NoCall
    NoApartment = NoApartment
    NoUser = NoUser
    u1 = u1
INVARIANTS
    OneLiveCallPerApartment
    BusyInSync
    DoorIsAudited
PROPERTIES
    ImplementsLine
