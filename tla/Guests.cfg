SPECIFICATION GuestsSpec
CONSTANTS
    u1 = u1
    u2 = u2
    a1 = a1
    e1 = e1
    g1 = g1
    h1 = h1
    m1 = m1
    m2 = m2
    s1 = s1
    s2 = s2
    Phones = {u1, u2}
    Apts = {a1}
    Sites = {s1, s2}
    MCs = {m1, m2}
    Gates = {g1, h1}
    Entrances = {e1}
    Invites = {i1}
    Accepts = {r1}
    McOf <- MCMcOf
    SiteOf <- MCSiteOf
    Rank <- MCRank
    Seed <- MCSeed
    MaxCompositeGrants = 2
    MaxAttach = 2
    NoInvite = NoInvite
    NoApt = NoApt
    Links = {k1}
    Openings = {o1}
    DoorsOf <- MCDoorsOf
    NoPoint = NoPoint
CHECK_DEADLOCK FALSE
INVARIANTS
    TypesOK
    ConsentFirst
    ConsoleIsComplete
    OpenedWithinRights
    OpenedWithinCompany
PROPERTY
    RevokedStops
