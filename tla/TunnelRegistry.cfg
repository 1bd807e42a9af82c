CONSTANTS
    Ids = {i1}
    Tasks = {t1, t2}
    Remote = {t2}
    Conns = {c1, c2}
    MaxConns = 2
    None = None
SPECIFICATION MCFairSpec
CHECK_DEADLOCK FALSE
INVARIANTS
    ViewIsHonest
    RunningIsStoppable
PROPERTIES
    StoppedEnds
