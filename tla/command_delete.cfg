SPECIFICATION DeploySpec
CONSTANTS
    c1 = c1
    d1 = d1
    d2 = d2
    f1 = f1
    f2 = f2
    t1 = t1
    Site = d1
    File = {f1}
    LargeFile = {}
    Unreadable = {}
    Client = {c1}
    Content = {c1}
    Build <- SameFiles
    EmptyFile <- NoEmptyFile
    MaySkip = {}
    MayHang = FALSE
    U32Max = 2
    ReqVersion = {1, 2}
    GivenVersion = {1}
    Task = {t1}
    MaxTry = 1
    MaxRun = 1
    Serialised = TRUE
    Domain = {d1, d2}
    Reserve <- NoneOrZero
    MaxCommand = 1
    By = {"spa-client"}
PROPERTY OnlyAskedIsDeleted
