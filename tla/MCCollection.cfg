SPECIFICATION FairSpec
CONSTANTS
    Containers = {c1}
    Scripts = {f}
    Values = {v}
    Vars = {x, y, z}
    Null = Null
INVARIANTS TypeOK Counted OnlyLiveAreKnown CollectorIsTold OnlyGarbageIsBroken FailedAreDestroyed
PROPERTY GarbageGoes
