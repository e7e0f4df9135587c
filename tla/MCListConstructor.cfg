SPECIFICATION Spec
CONSTANTS
    Containers = {c1}
    Scripts = {f}
    Values = {v}
    Vars = {x}
    Null = Null
INVARIANT NothingLeaks
