\* Two flows that share the writer and a full event queue.
CONSTANTS
  f1 = f1
  f2 = f2
  Flows = {f1, f2}
  Kinds = {"http"}
  Served <- ServedPlain
  Threshold = 1
  Jobs = {FALSE}
  EventCap = 1
  OutboundCap = 1
  NoResponse = NoResponse
  Unknown = Unknown
SPECIFICATION Spec
INVARIANTS
  ResponseRowFollowsRequestRow
  AnnouncedIsCaptured
SYMMETRY Symmetry
CHECK_DEADLOCK FALSE
