SPECIFICATION Spec
CONSTANTS
    Threads = {t1}
    Contexts = {c1}
    Null = Null
    MaxDepth = 6
INVARIANT ReportedAbortsReach
