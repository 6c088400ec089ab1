SPECIFICATION Spec
CONSTANTS
    Keys = {k1, k2, k3}
    Values = {v1}
    Nodes = {n1, n2, n3}
    None = None
    Capacity = 2
    UsizeMod = 16
    CounterMod = 1
PROPERTIES
    JustInsertedIsCached
