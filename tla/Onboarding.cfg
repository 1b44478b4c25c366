SPECIFICATION Spec
CONSTANTS
    u1 = u1
    a1 = a1
    g1 = g1
    g2 = g2
    m1 = m1
    s1 = s1
    Phones = {u1, u2}
    Apts = {a1, a2}
    Sites = {s1}
    MCs = {m1}
    Gates = {g1, g2}
    Entrances = {}
    Invites = {i1, i2}
    Accepts = {r1, r2}
    McOf <- MCMcOf
    SiteOf <- MCSiteOf
    Rank <- MCRank
    Seed <- MCSeed
    MaxCompositeGrants = 2
    MaxAttach = 1
    NoInvite = NoInvite
    NoApt = NoApt
SYMMETRY Symmetry
CHECK_DEADLOCK FALSE
INVARIANTS
    TypeOK
    OneBearerSession
    NoWaitCycle
PROPERTY
    OwnerStays
