SPECIFICATION Spec
CONSTANTS
    Calls = {c1, c2}
    Apartments = {a1}
    Users = {u1, u2}
    Requests = {r1, r2}
    Members <- MembersOne
    TTL = 2
    Faults = FALSE
    SlowHandlers = FALSE
    Polite = FALSE
    NoCall = NoCall
    NoApartment = NoApartment
    NoUser = NoUser
    u1 = u1
INVARIANT
    RingingIsBusy
