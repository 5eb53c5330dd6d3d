SPECIFICATION Spec
CONSTANTS
  Domain = {d1}
  File = {f1, f2}
  LargeFile = {f2}
  Unreadable = {f1}
  Content = {c1}
  U32Max = 3
  ReqVersion = {1, 3}
  Reserve <- AnyReserve
  Task = {t1, t2}
  Serialised = TRUE
SYMMETRY Symmetry
INVARIANTS
  TypeOK
  MarkedNotOnline
  StatusTellsOnline
  OnlineMatchesDisk
  OneUpload
PROPERTIES
  RestartNeverRegresses
  ImplementsStore
