SPECIFICATION Spec
CONSTANTS
    Parts = {a}
    Names = {T}
    Masks = {m1, m2}
    None = None
    MaxNesting = 1
    MaxFrames = 2
    MaxGenerators = 1
    MaxEntities = 1
INVARIANT NewTypesAreTold
