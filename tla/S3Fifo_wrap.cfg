SPECIFICATION AnySpec
CONSTANTS
    Threads = {t1, t2}
    Keys = {k1, k2}
    Entries = {e1, e2, e3}
    None = None
    Capacity = 1
    RatioNum = 1
    RatioDen = 10
    MaxFreq = 1
    UsizeMod = 16
    CounterMod = 1
INVARIANTS
    LenIsPlausible
