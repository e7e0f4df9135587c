SPECIFICATION Spec
CONSTANTS
    Slots = {s1, s2}
    Objects = {o1, o2}
    Null = Null
    Absent = Absent
    MaxExt = 2
    MaxCount = 4
    Classes <- MCEngine
INVARIANT EngineIsManaged
