SPECIFICATION Spec
VIEW MCView
CONSTANTS
    Vecs = {v1, v2}
    Objects = {o1, o2, o3}
    Null = Null
    Wild = Wild
    Absent = Absent
    MaxSize = 3
    MaxExt = 2
SYMMETRY MCSymmetry
INVARIANTS TypeOK Counted Separate
PROPERTY ExceptionsKeepElements
