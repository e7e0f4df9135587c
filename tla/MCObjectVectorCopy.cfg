SPECIFICATION Spec
CONSTANTS
    Vecs = {v1, v2}
    Objects = {o1, o2}
    Null = Null
    Wild = Wild
    Absent = Absent
    MaxSize = 2
    MaxExt = 1
INVARIANT CopiesOwnElements
