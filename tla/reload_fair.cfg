SPECIFICATION FairSpec
CONSTANTS
    r1 = r1
    r2 = r2
    Reloader = {r1, r2}
    MaxGen = 3
    MayBreak <- AnyListener
    StartsInTime = FALSE
INVARIANTS TypeOK NoOrphan
PROPERTIES ServedThroughout OldGenerationsStop
\* After the last generation nobody asks for anything any more.
CHECK_DEADLOCK FALSE
