SPECIFICATION Spec
CONSTANTS
    Keys = {k1, k2, k3, k4}
    Values = {v1, v2}
    Nodes = {n1, n2, n3, n4}
    None = None
    Capacity = 3
    UsizeMod = 16
    CounterMod = 2
SYMMETRY Symmetry
INVARIANTS
    TypeOK
    IndexOwnsNodes
    ListIsWhole
    SizeBound
PROPERTIES
    ImplementsRecency
    CallsTakeEffect
