\* A thread quarantines slow filters while the watcher reloads.
CONSTANTS
  f1 = f1
  f2 = f2
  w1 = w1
  Files = {f1, f2}
  Generated = {f1}
  Workers = {w1}
  Classes = {"ok"}
  Watcher = Watcher
  NoFile = NoFile
  MaxEdits = 2
  MaxFailures = 0
SPECIFICATION Spec
INVARIANT MovedIsNotReloaded
PROPERTY ReloadsSettle
CHECK_DEADLOCK FALSE
