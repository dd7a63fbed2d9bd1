\* One flow of every kind, every path of a response, a queue of two events.
CONSTANTS
  f1 = f1
  f2 = f2
  Flows = {f1}
  Kinds = {"http", "ws", "tunnel"}
  Served <- ServedAll
  Threshold = 1
  Jobs = {TRUE, FALSE}
  EventCap = 2
  OutboundCap = 1
  NoResponse = NoResponse
  Unknown = Unknown
SPECIFICATION Spec
INVARIANTS
  TypeOK
  IndInv
  RowsNameExistingFiles
  RowsQueuedOnce
  StreamRowTruthful
  CompletedIsLast
PROPERTIES
  LedgerSpec
  UpstreamOnlyAfterCapture
  EveryRequestAnswered
  StreamIsRecorded
  RowsSettle
CHECK_DEADLOCK FALSE
