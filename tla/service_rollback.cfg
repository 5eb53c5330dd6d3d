SPECIFICATION Spec
CONSTANTS
    Domain = {d1}
    Site = d1
    File = {index}
    Path = index
    Unreadable = {index}
    NoFile = none
    Version = {1, 2}
    None = 0
    Body = {"small", "large"}
    Length <- Lengths
    GzipLength <- GzipLengths
    MaxSize = 3
    Data <- Files
    Ranges <- WholeFile
    MaxTime = 3
    SecondsApart = TRUE
    InOrder = FALSE
    OpensInTime = TRUE

PROPERTY BrowserIsUpToDate
