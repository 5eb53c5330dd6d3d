SPECIFICATION DeployFairSpec
CONSTANTS
    c1 = c1
    d1 = d1
    d2 = d2
    f1 = f1
    f2 = f2
    t1 = t1
    Domain = {d1}
    Site = d1
    File = {f1}
    LargeFile = {}
    Unreadable = {f1}
    Client = {c1}
    Content = {c1}
    Build <- SameFiles
    EmptyFile <- NoEmptyFile
    MaySkip = {}
    MayHang = FALSE
    U32Max = 2
    ReqVersion = {1, 2}
    GivenVersion = {1}
    Reserve <- NoneOrZero
    Task = {t1}
    MaxTry = 3
    MaxRun = 2
    MaxCommand = 2
    By = {"spa-client", "script"}
    Serialised = TRUE
INVARIANT DeployTypeOK
PROPERTIES OnlyWholeGoesOnline EveryRunEnds
