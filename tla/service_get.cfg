SPECIFICATION Spec
CONSTANTS
    Domain = {d1}
    Site = d1
    File = {index}
    Path = index
    Unreadable = {index}
    NoFile = none
    Version = {1, 2}
    None = 0
    Body = {"empty", "small", "large"}
    Length <- Lengths
    GzipLength <- GzipLengths
    MaxSize = 3
    Data <- Files
    Ranges <- FirstByteRanges
    MaxTime = 3
    SecondsApart = FALSE
    InOrder = TRUE
    OpensInTime = TRUE
INVARIANTS TypeOK ReplyIsOneFile RangeIsAsked
PROPERTIES  BrowserIsUpToDate
