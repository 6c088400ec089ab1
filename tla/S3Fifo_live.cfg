SPECIFICATION Spec
CONSTANTS
    Threads = {t1}
    Keys = {k1, k2, k3}
    Entries = {e1, e2, e3, e4}
    None = None
    Capacity = 2
    RatioNum = 1
    RatioDen = 10
    MaxFreq = 2
    UsizeMod = 16
    CounterMod = 1
PROPERTIES
    CallReturns
