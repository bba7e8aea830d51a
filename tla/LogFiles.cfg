\* The log of one of three days, while two threads write it.
CONSTANTS
    t1 = t1
    t2 = t2
    Threads = {t1, t2}
    MaxHistory = 1
    LastDay = 2
    MaxLines = 3
    MaxFiles = 4
    None = None
SPECIFICATION Spec
INVARIANTS LInv AnswersInOrder OnlyTheseAreMissing
SYMMETRY Symmetry
CHECK_DEADLOCK FALSE
