SPECIFICATION Spec
CONSTANTS
    Threads = {t1, t2}
    Contexts = {c1, c2}
    Null = Null
    MaxDepth = 7
SYMMETRY MCSymmetry
INVARIANTS TypeOK LentOnce StatesBalance ResultsStay ErrorsReach
