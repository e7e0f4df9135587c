SPECIFICATION Spec
CONSTANTS
    Vecs = {v1}
    Values = {Zero, x}
    Zero = Zero
    Junk = Junk
    Absent = Absent
    Static = Static
    Blocks = {b1, b2}
    NoBlock = NoBlock
    StaticCap = 1
    MaxSize = 4
INVARIANT VisitShowsAll
