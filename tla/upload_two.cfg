SPECIFICATION ClientSpec
CONSTANTS
    d1 = d1
    f1 = f1
    f2 = f2
    c1 = c1
    c2 = c2
    t1 = t1
    t2 = t2
    Domain = {d1}
    Site = d1
    File = {f1, f2}
    LargeFile = {}
    Unreadable = {}
    Client = {c1, c2}
    Content = {c1, c2}
    Build <- TwoBuilds
    EmptyFile <- SecondEmpty
    MaySkip = {f2}
    MayHang = TRUE
    U32Max = 3
    ReqVersion = {1}
    GivenVersion = {1}
    Reserve = {}
    Task = {t1, t2}
    MaxTry = 2
    MaxRun = 1
    Serialised = TRUE
SYMMETRY Symmetry
INVARIANTS ClientTypeOK FinishedIsComplete
PROPERTY RestartKnowsUploads
