SPECIFICATION TSpec
CONSTANTS
    Keys = {k1, k2, k3, k4}
    Values = {v1, v2}
    Threads = {t1, t2, t3}
    NoKey = NoKey
    Capacity = 3
SYMMETRY Symmetry
INVARIANTS
    TTypeOK
    QueueSound
    StampedeBound
PROPERTIES
    HitSurvives
    OrderIsAge
    NoNeedlessEviction
