SPECIFICATION Spec
CONSTANTS
  Domain = {d1}
  File = {f1}
  LargeFile = {}
  Unreadable = {}
  Content = {c1}
  U32Max = 3
  ReqVersion = {1, 2}
  Reserve = {}
  Task = {t1, t2}
  Serialised = FALSE
INVARIANTS
  SettledMarkedNotOnline
