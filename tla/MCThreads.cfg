SPECIFICATION FairSpec
CONSTANTS
    Main = Main
    Helper = Helper
    Others = {o}
    Nobody = Nobody
    HasDeadline = TRUE
    MaxHandles = 2
INVARIANTS TypeOK SharedIsAlive NotifiedIsSafe
PROPERTIES ObjectGoes MainEnds
