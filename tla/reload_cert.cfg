SPECIFICATION Spec
CONSTANTS
    r1 = r1
    r2 = r2
    Reloader = {r1}
    MaxGen = 3
    MayBreak <- OnlyHttps
    StartsInTime = TRUE
PROPERTY SuccessMeansListening
\* After the last generation nobody asks for anything any more.
CHECK_DEADLOCK FALSE
