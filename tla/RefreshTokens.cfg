SPECIFICATION Spec
CONSTANTS
    Tabs = {t1, t2}
    Reqs = {r1, r2}
    Ids = {j1, j2, j3}
    NoId = NoId
    NoTab = NoTab
CHECK_DEADLOCK FALSE
INVARIANTS
    TypeOK
    OneSession
PROPERTIES
    SpentStaysSpent
    LoadingEnds
