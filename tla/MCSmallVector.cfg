SPECIFICATION Spec
VIEW MCView
CONSTANTS
    Vecs = {v1, v2}
    Values = {Zero, x}
    Zero = Zero
    Junk = Junk
    Absent = Absent
    Static = Static
    Blocks = {b1, b2, b3}
    NoBlock = NoBlock
    StaticCap = 1
    MaxSize = 4
SYMMETRY MCSymmetry
INVARIANTS TypeOK BuffersAreOwned
PROPERTIES ElementsAreValues MovesOnlyToGrow StdModifiers
