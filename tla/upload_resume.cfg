SPECIFICATION ClientSpec
CONSTANTS
    d1 = d1
    f1 = f1
    f2 = f2
    c1 = c1
    c2 = c2
    t1 = t1
    t2 = t2
    Domain = {d1}
    Site = d1
    File = {f1, f2}
    LargeFile = {}
    Unreadable = {}
    Client = {c1}
    Content = {c1}
    Build <- SameFiles
    EmptyFile <- NoEmptyFile
    MaySkip = {}
    MayHang = FALSE
    U32Max = 3
    ReqVersion = {1, 2}
    GivenVersion = {}
    Reserve = {}
    Task = {t1, t2}
    MaxTry = 3
    MaxRun = 2
    Serialised = TRUE
SYMMETRY Symmetry
PROPERTY OnlyMissingFiles
