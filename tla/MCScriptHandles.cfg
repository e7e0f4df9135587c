SPECIFICATION Spec
CONSTANTS
    Slots = {s1, s2, s3}
    Objects = {o1, o2}
    Null = Null
    Absent = Absent
    MaxExt = 2
    MaxCount = 4
    Classes <- ClassNames
SYMMETRY MCSymmetry
INVARIANTS TypeOK Covered NoLeak
PROPERTY SharedOwnership
