SPECIFICATION Spec
CONSTANTS
    Threads = {t1}
    Keys = {k1, k2, k3, k4}
    Entries = {e1, e2, e3, e4, e5}
    None = None
    Capacity = 3
    RatioNum = 1
    RatioDen = 10
    MaxFreq = 2
    UsizeMod = 16
    CounterMod = 1
SYMMETRY Symmetry
INVARIANTS
    TypeOK
    QueuesMatchIndex
    MembershipMatchesQueues
    EntryInOnePlace
    MainVictimJustified
    GhostConsistent
