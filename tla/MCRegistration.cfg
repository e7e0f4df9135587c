SPECIFICATION Spec
CONSTANTS
    Parts = {a}
    Names = {T}
    Masks = {m1, m2}
    None = None
    MaxNesting = 1
    MaxFrames = 3
    MaxGenerators = 2
    MaxEntities = 1
INVARIANTS TypeOK MembersFollowTheirGenerator ListenersKnow AppendedTypesFit
PROPERTY ImplementsScopes
SYMMETRY MCSymmetry
