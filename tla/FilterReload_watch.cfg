\* The watcher alone reloads; one file of every class, three changes, one failed reload.
CONSTANTS
  f1 = f1
  f2 = f2
  w1 = w1
  Files = {f1}
  Generated = {f1}
  Workers = {}
  Classes = {"ok", "badScript", "badHeader", "disabled"}
  Watcher = Watcher
  NoFile = NoFile
  MaxEdits = 4
  MaxFailures = 1
SPECIFICATION Spec
INVARIANT TypeOK
PROPERTIES
  ChangesFoundAreLoaded
  ChangesFoundAreListed
CHECK_DEADLOCK FALSE
