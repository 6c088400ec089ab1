SPECIFICATION Spec
CONSTANTS
    Readers = {r1, r2}
    Observers = {o1}
    Resetters = {z1}
    MaxFreq = 2
    MaxAccesses = 3
    MaxInsertions = 1
SYMMETRY Symmetry
CHECK_DEADLOCK FALSE
INVARIANTS
    TypeOK
    RatioInRange
    AnswersAreCurrent
    ResetForgets
PROPERTIES
    ImplementsPromise
