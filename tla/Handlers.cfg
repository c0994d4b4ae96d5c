CONSTANTS
    r1 = r1
    r2 = r2
    Reqs = {r1, r2}
    Scenes <- AllScenes
SPECIFICATION FairSpec
CHECK_DEADLOCK FALSE
INVARIANTS
    OkMeansDone
PROPERTIES
    ForeignKept
    OwnersKept
    NoLostUpdate
    MountsStay
    AskedIsReached
