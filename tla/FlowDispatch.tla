---------------------------- MODULE FlowDispatch ----------------------------
(***************************************************************************)
(* The life of a flow in the proxy: from the request that arrives, through *)
(* the request filters, the capture of the request, the upstream call, the *)
(* capture of the response and the answer to the client, together with the *)
(* three things flows share: the database writer, the flow-event queue     *)
(* with its sink, and the outbound job queue.                              *)
(*                                                                         *)
(* A flow is one asynchronous task (a streamed response has a second one,  *)
(* spawned by the finalizer).  Each action is the code between two points  *)
(* where another thread can be observed: an await, a send on a channel.    *)
(* A task can be dropped at an await, when its client goes away.           *)
(***************************************************************************)
EXTENDS Naturals, Sequences, BodyPolicy

CONSTANTS
    Flows,          \* flow identifiers (the Uuid of a RequestDispatchContext)
    Kinds,          \* what arrives: a subset of {"http", "ws", "tunnel"}
    Served,         \* the responses upstream or a filter may produce
    Threshold,      \* stream_body_threshold_bytes
    EventCap,       \* capacity of the flow-event channel
    Jobs,           \* whether response filters ask for an outbound job: subset of BOOLEAN
    OutboundCap,    \* capacity of the outbound job channel
    NoResponse      \* the response of a flow that has none yet

ASSUME ConstantsAssumption ==
    /\ Kinds \subseteq {"http", "ws", "tunnel"}
    /\ Served \subseteq Responses(Nat)
    /\ Threshold \in Nat /\ Jobs \subseteq BOOLEAN
    /\ EventCap \in Nat \ {0} /\ OutboundCap \in Nat \ {0}
    /\ NoResponse \notin Served

VARIABLES
    seq,            \* the shared flow counter
    pc,             \* where the task of each flow stands
    kind,           \* what the flow is
    verdict,        \* what the request filters decided: "forward", "synthetic", "drop"
    dropReply,      \* the response filters dropped the client's response
    res,            \* the response being dispatched
    files,          \* the capture files of the flow that are on disk
    reply,          \* the answer given to the client
    body,           \* a streamed body: "none", "open", "ended", "dropped"
    held,           \* bytes the probe buffered and has not forwarded yet
    left,           \* bytes the upstream body has still to yield
    sent,           \* streamed_bytes: bytes forwarded as data frames
    finalized,      \* the AtomicBool of StreamingResponseFinalize
    interrupted,    \* the flag finalize was called with
    rowSize,        \* body_size of the streamed response row
    dbQueue,        \* the unbounded channel to the database writer
    dbOpen,         \* the SQLite pool is open
    reqRow, resRow, \* the rows of the tables requests and responses
    eventQueue,     \* the bounded channel of FlowEvents
    announced,      \* the events of each flow that have reached the sink
    outbound        \* the bounded channel of outbound HTTP jobs

flowVars   == <<kind, verdict, dropReply, res>>
streamVars == <<body, held, left, sent, finalized, interrupted, rowSize>>
dbVars     == <<dbQueue, dbOpen, reqRow, resRow>>
eventVars  == <<eventQueue, announced>>
vars == <<seq, pc, flowVars, files, reply, streamVars, dbVars, eventVars, outbound>>

-----------------------------------------------------------------------------
(* Where a task can stand.                                                 *)

RequestWrites  == {"reqHead", "reqBody"}
ResponseWrites == {"resTls", "resHead", "resBody"}

\* The file each write of commit_request and commit_response produces.
FileOf ==
    [reqHead |-> "request.head", reqBody |-> "request.body",
     resTls |-> "ssl_tls.json", resHead |-> "response.head", resBody |-> "response.body"]

\* Fault: commit_request sends the row after the head, before the body.
After_SkipsBody ==
    [reqHead |-> "reqSend", reqBody |-> "reqSend",
     resTls |-> "resHead", resHead |-> "resBody", resBody |-> "resSend"]

\* The stage after each write; the last write is followed by the send.
After ==
    [reqHead |-> "reqBody", reqBody |-> "reqSend",
     resTls |-> "resHead", resHead |-> "resBody", resBody |-> "resSend"]

RequestFiles  == {"request.head", "request.body"}
ResponseFiles == {"ssl_tls.json", "response.head", "response.body"}

\* The points at which a task is suspended and so can be dropped.
AwaitPoints == {"collect", "upstream", "respond", "wsRequest", "wsResponse"}
                  \cup RequestWrites \cup ResponseWrites

Stages == AwaitPoints \cup
    {"idle", "reqSend", "reqPublish", "synthetic", "resSend", "resPublish", "tunnelCapture",
     "tunnelPublish", "streaming", "finalize", "sse", "done", "cancelled"}

Mode(f) == CaptureMode(res[f], Threshold)

\* The second task of a streamed response, which no client can cancel.
Detached(f) == body[f] # "none" \/ kind[f] = "tunnel"

-----------------------------------------------------------------------------
Goto(f, stage) == pc' = [pc EXCEPT ![f] = stage]

Answer(f, r) == reply' = [reply EXCEPT ![f] = r] /\ Goto(f, "done")

Event(k, f) == [kind |-> k, flow |-> f]

\* FlowEventPublisher::publish: try_send, and the event is gone if the channel is full.
Publish(k, f) ==
    eventQueue' = IF Len(eventQueue) < EventCap
                  THEN Append(eventQueue, Event(k, f)) ELSE eventQueue

Row(k, f) == [kind |-> k, flow |-> f]

-----------------------------------------------------------------------------
(* The request.                                                            *)

\* new_request_context: the number is taken before the request can turn out bad.
NewRequestContext(f) ==
    /\ pc[f] = "idle" /\ "http" \in Kinds
    /\ seq' = seq + 1
    /\ kind' = [kind EXCEPT ![f] = "http"]
    /\ \/ Goto(f, "collect") /\ UNCHANGED reply
       \/ Answer(f, "bad")
    /\ UNCHANGED <<verdict, dropReply, res, files, streamVars, dbVars, eventVars, outbound>>

\* The body is collected, the request filters run, their patch is applied.
DispatchRequestFilters(f) ==
    /\ pc[f] = "collect"
    /\ \E v \in {"forward", "synthetic", "drop"} : verdict' = [verdict EXCEPT ![f] = v]
    /\ Goto(f, "reqHead")
    /\ UNCHANGED <<seq, kind, dropReply, res, files, reply, streamVars, dbVars, eventVars, outbound>>

\* One write of CaptureService::commit_request or commit_response.
WriteFile(f) ==
    /\ pc[f] \in RequestWrites \cup ResponseWrites
    /\ files' = [files EXCEPT ![f] = @ \cup {FileOf[pc[f]]}]
    /\ Goto(f, After[pc[f]])
    /\ UNCHANGED <<seq, flowVars, reply, streamVars, dbVars, eventVars, outbound>>

\* Fault: the error of a capture write is swallowed and nobody is answered.
WriteFails_NoAnswer(f) ==
    /\ pc[f] \in RequestWrites \cup ResponseWrites
    /\ Goto(f, "done")
    /\ UNCHANGED <<seq, flowVars, files, reply, streamVars, dbVars, eventVars, outbound>>

\* Fault: a failed capture of the request is logged and the flow goes on.
WriteFails_GoesOn(f) ==
    /\ pc[f] \in RequestWrites \cup ResponseWrites
    /\ Goto(f, IF pc[f] \in RequestWrites THEN "upstream" ELSE "resPublish")
    /\ UNCHANGED <<seq, flowVars, files, reply, streamVars, dbVars, eventVars, outbound>>

\* A write fails: the error reaches dispatch, which answers 500; in the task of
\* a streamed response it is logged and that is all.
WriteFails(f) ==
    /\ pc[f] \in RequestWrites \cup ResponseWrites
    /\ IF body[f] = "none" THEN Answer(f, "error") ELSE Goto(f, "done") /\ UNCHANGED reply
    /\ UNCHANGED <<seq, flowVars, files, streamVars, dbVars, eventVars, outbound>>

\* The end of commit_request: the request row goes to the database writer.
SendRequestRow(f) ==
    /\ pc[f] = "reqSend"
    /\ dbQueue' = Append(dbQueue, Row("req", f))
    /\ reqRow' = [reqRow EXCEPT ![f] = "queued"]
    /\ Goto(f, IF kind[f] = "tunnel" THEN "tunnelPublish" ELSE "reqPublish")
    /\ UNCHANGED <<seq, flowVars, files, reply, streamVars, dbOpen, resRow, eventVars, outbound>>

\* Fault: drop_client_response is forgotten once the request is captured.
PublishRequest_ForgetsDrop(f) ==
    /\ pc[f] = "reqPublish"
    /\ Publish("started", f)
    /\ Goto(f, IF verdict[f] = "synthetic" THEN "synthetic" ELSE "upstream")
    /\ UNCHANGED <<seq, flowVars, files, reply, streamVars, dbVars, announced, outbound>>

\* publish_request_committed, and the branches of dispatch_http after it:
\* drop_client_response is tested before the synthetic response.
PublishRequest(f) ==
    /\ pc[f] = "reqPublish"
    /\ Publish("started", f)
    /\ CASE verdict[f] = "drop"      -> Answer(f, "dropped")
         [] verdict[f] = "synthetic" -> Goto(f, "synthetic") /\ UNCHANGED reply
         [] verdict[f] = "forward"   -> Goto(f, "upstream") /\ UNCHANGED reply
    /\ UNCHANGED <<seq, kind, verdict, dropReply, res, files, streamVars, dbVars,
                   announced, outbound>>

\* dispatch_synthetic_response: the filter's response, which cannot fail midway.
BuildSyntheticResponse(f) ==
    /\ pc[f] = "synthetic"
    /\ \E r \in Served : ~r.fails /\ res' = [res EXCEPT ![f] = r]
    /\ Goto(f, "respond")
    /\ UNCHANGED <<seq, kind, verdict, dropReply, files, reply, streamVars,
                   dbVars, eventVars, outbound>>

\* upstream_client.serve: a response always comes back, an error as a response.
ServeUpstream(f) ==
    /\ pc[f] = "upstream"
    /\ \E r \in Served : res' = [res EXCEPT ![f] = r]
    /\ Goto(f, IF kind[f] = "ws" THEN "wsResponse" ELSE "respond")
    /\ UNCHANGED <<seq, kind, verdict, dropReply, files, reply, streamVars,
                   dbVars, eventVars, outbound>>

-----------------------------------------------------------------------------
(* The response.                                                           *)

\* dispatch_sse_response: the row is committed before the stream, with no body.
DispatchSse(f) ==
    /\ pc[f] = "respond" /\ Mode(f) = "sse"
    /\ Goto(f, "resTls")
    /\ UNCHANGED <<seq, flowVars, files, reply, streamVars, dbVars, eventVars, outbound>>

\* Fault: the prefix the probe has read is not put back in front of the body.
DispatchStreaming_LosesPrefix(f) ==
    /\ pc[f] = "respond" /\ Mode(f) = "stream"
    /\ body' = [body EXCEPT ![f] = "open"]
    /\ left' = [left EXCEPT ![f] = res[f].size - BufferedPrefix(res[f], Threshold)]
    /\ reply' = [reply EXCEPT ![f] = "stream"]
    /\ Goto(f, "streaming")
    /\ UNCHANGED <<seq, flowVars, files, held, sent, finalized, interrupted, rowSize,
                   dbVars, eventVars, outbound>>

\* dispatch_streaming_response: the client is answered, nothing is recorded yet.
DispatchStreaming(f) ==
    /\ pc[f] = "respond" /\ Mode(f) = "stream"
    /\ body' = [body EXCEPT ![f] = "open"]
    /\ held' = [held EXCEPT ![f] = BufferedPrefix(res[f], Threshold)]
    /\ left' = [left EXCEPT ![f] = res[f].size - BufferedPrefix(res[f], Threshold)]
    /\ reply' = [reply EXCEPT ![f] = "stream"]
    /\ Goto(f, "streaming")
    /\ UNCHANGED <<seq, flowVars, files, sent, finalized, interrupted, rowSize,
                   dbVars, eventVars, outbound>>

\* The body is collected, the response filters run, the job they ask for is
\* offered to the outbound channel (try_enqueue: dropped when it is full).
DispatchCollected(f) ==
    /\ pc[f] = "respond" /\ Mode(f) = "collect"
    /\ \E d \in BOOLEAN, job \in Jobs :
          /\ dropReply' = [dropReply EXCEPT ![f] = d]
          /\ outbound' = IF job /\ Len(outbound) < OutboundCap
                         THEN Append(outbound, f) ELSE outbound
    /\ Goto(f, "resTls")
    /\ UNCHANGED <<seq, kind, verdict, res, files, reply, streamVars, dbVars, eventVars>>

\* The end of commit_response: the response row goes to the database writer.
SendResponseRow(f) ==
    /\ pc[f] = "resSend"
    /\ dbQueue' = Append(dbQueue, Row("res", f))
    /\ resRow' = [resRow EXCEPT ![f] = "queued"]
    /\ Goto(f, "resPublish")
    /\ UNCHANGED <<seq, flowVars, files, reply, streamVars, dbOpen, reqRow, eventVars, outbound>>

\* publish_response_committed, then the answer (a streamed response has had its).
\* dispatch_completed_filters before it changes nothing here: on_completed can only
\* pass, and what a hook leaves in the store and the filters is in StateStore and
\* FilterReload.
PublishResponse(f) ==
    /\ pc[f] = "resPublish"
    /\ Publish("completed", f)
    /\ CASE body[f] # "none" -> Goto(f, "done") /\ UNCHANGED reply
         [] body[f] = "none" /\ kind[f] = "ws" -> Answer(f, "upgraded")
         [] body[f] = "none" /\ kind[f] # "ws" /\ Mode(f) = "sse" ->
              Goto(f, "sse") /\ reply' = [reply EXCEPT ![f] = "sse"]
         [] OTHER -> Answer(f, IF dropReply[f] THEN "dropped" ELSE "buffered")
    /\ UNCHANGED <<seq, flowVars, files, streamVars, dbVars, announced, outbound>>

\* The event stream ends or its client leaves (SseCapture models what is saved).
EndSse(f) ==
    /\ pc[f] = "sse"
    /\ Goto(f, "done")
    /\ UNCHANGED <<seq, flowVars, files, reply, streamVars, dbVars, eventVars, outbound>>

-----------------------------------------------------------------------------
(* A streamed body (StreamingCaptureBody) in the hands of the HTTP server.  *)

\* Fault: the swap's result is not looked at.
Finalize_Twice(f, flag) ==
    /\ finalized' = [finalized EXCEPT ![f] = TRUE]
    /\ interrupted' = [interrupted EXCEPT ![f] = flag]
    /\ Goto(f, "finalize")

\* finalize: the first caller wins the swap and spawns the committing task.
Finalize(f, flag) ==
    IF finalized[f] THEN UNCHANGED <<finalized, interrupted, pc>>
    ELSE /\ finalized' = [finalized EXCEPT ![f] = TRUE]
         /\ interrupted' = [interrupted EXCEPT ![f] = flag]
         /\ Goto(f, "finalize")

\* Fault: the prefix is consumed byte by byte without asking whether any is left.
ForwardFrame_Underflow(f) ==
    /\ body[f] = "open" /\ left[f] > 0
    /\ sent' = [sent EXCEPT ![f] = @ + 1]
    /\ held' = [held EXCEPT ![f] = @ - 1]
    /\ left' = [left EXCEPT ![f] = @ - 1]
    /\ UNCHANGED <<seq, pc, flowVars, files, reply, body, finalized, interrupted,
                   rowSize, dbVars, eventVars, outbound>>

\* poll_frame yields data: the buffered prefix first, then the rest.
ForwardFrame(f) ==
    /\ body[f] = "open"
    /\ \/ held[f] > 0 /\ sent' = [sent EXCEPT ![f] = @ + held[f]]
          /\ held' = [held EXCEPT ![f] = 0] /\ UNCHANGED left
       \/ held[f] = 0 /\ left[f] > 0 /\ sent' = [sent EXCEPT ![f] = @ + 1]
          /\ left' = [left EXCEPT ![f] = @ - 1] /\ UNCHANGED held
    /\ UNCHANGED <<seq, pc, flowVars, files, reply, body, finalized, interrupted,
                   rowSize, dbVars, eventVars, outbound>>

\* Fault: the end of the stream is passed on without finalize.
EndBody_Silent(f) ==
    /\ body[f] = "open" /\ held[f] = 0 /\ left[f] = 0
    /\ body' = [body EXCEPT ![f] = "ended"]
    /\ UNCHANGED <<seq, pc, flowVars, files, reply, held, left, sent, finalized,
                   interrupted, rowSize, dbVars, eventVars, outbound>>

\* poll_frame yields the end of the stream, or the error that stands for it.
EndBody(f) ==
    /\ body[f] = "open" /\ held[f] = 0 /\ left[f] = 0
    /\ body' = [body EXCEPT ![f] = "ended"]
    /\ Finalize(f, res[f].fails)
    /\ UNCHANGED <<seq, flowVars, files, reply, held, left, sent, rowSize, dbVars,
                   eventVars, outbound>>

\* Fault: StreamingCaptureBody has no Drop.
DropBody_Silent(f) ==
    /\ body[f] \in {"open", "ended"}
    /\ body' = [body EXCEPT ![f] = "dropped"]
    /\ UNCHANGED <<seq, pc, flowVars, files, reply, held, left, sent, finalized,
                   interrupted, rowSize, dbVars, eventVars, outbound>>

\* Drop for StreamingCaptureBody: at any moment, polled to its end or not.
DropBody(f) ==
    /\ body[f] \in {"open", "ended"}
    /\ body' = [body EXCEPT ![f] = "dropped"]
    /\ Finalize(f, TRUE)
    /\ UNCHANGED <<seq, flowVars, files, reply, held, left, sent, rowSize, dbVars,
                   eventVars, outbound>>

\* The spawned task reads the counter, then commits.
StartFinalize(f) ==
    /\ pc[f] = "finalize"
    /\ rowSize' = [rowSize EXCEPT ![f] = sent[f]]
    /\ Goto(f, "resTls")
    /\ UNCHANGED <<seq, flowVars, files, reply, body, held, left, sent, finalized,
                   interrupted, dbVars, eventVars, outbound>>

-----------------------------------------------------------------------------
(* WebSocket handshakes and failed tunnels.                                *)

\* dispatch_websocket_handshake up to its first await.
AcceptWebSocket(f) ==
    /\ pc[f] = "idle" /\ "ws" \in Kinds
    /\ seq' = seq + 1
    /\ kind' = [kind EXCEPT ![f] = "ws"]
    /\ \/ Goto(f, "wsRequest") /\ UNCHANGED reply
       \/ Answer(f, "bad")
    /\ UNCHANGED <<verdict, dropReply, res, files, streamVars, dbVars, eventVars, outbound>>

\* The files of the handshake: every write may fail, no failure is acted upon.
WriteWebSocketFiles(f) ==
    /\ pc[f] \in {"wsRequest", "wsResponse"}
    /\ LET wanted == IF pc[f] = "wsRequest" THEN RequestFiles \cup {"ssl_tls.json"}
                                             ELSE {"response.head", "response.body"}
       IN \E written \in SUBSET wanted :
             files' = [files EXCEPT ![f] = @ \cup written]
    /\ Goto(f, IF pc[f] = "wsRequest" THEN "reqSend" ELSE "resSend")
    /\ UNCHANGED <<seq, flowVars, reply, streamVars, dbVars, eventVars, outbound>>

\* http_connect_accept: a connect filter refuses the tunnel.  It is announced
\* and numbered, and nothing about it is written.
RejectTunnel(f) ==
    /\ pc[f] = "idle" /\ "tunnel" \in Kinds
    /\ seq' = seq + 1
    /\ kind' = [kind EXCEPT ![f] = "tunnel"]
    /\ Publish("tunnel", f)
    /\ Answer(f, "rejected")
    /\ UNCHANGED <<verdict, dropReply, res, files, streamVars, dbVars,
                   announced, outbound>>

\* http_connect_proxy: the TLS handshake of an accepted tunnel fails.
TunnelFails(f) ==
    /\ pc[f] = "idle" /\ "tunnel" \in Kinds
    /\ seq' = seq + 1
    /\ kind' = [kind EXCEPT ![f] = "tunnel"]
    /\ Goto(f, "tunnelCapture")
    /\ UNCHANGED <<verdict, dropReply, res, files, reply, streamVars, dbVars,
                   eventVars, outbound>>

\* commit_tunnel_failure: no row when the file cannot be written.
CaptureTunnelFailure(f) ==
    /\ pc[f] = "tunnelCapture"
    /\ \/ /\ files' = [files EXCEPT ![f] = @ \cup {"ssl_tls.json"}]
          /\ Goto(f, "reqSend")
       \/ Goto(f, "tunnelPublish") /\ UNCHANGED files
    /\ UNCHANGED <<seq, flowVars, reply, streamVars, dbVars, eventVars, outbound>>

\* The failure is announced whether it was captured or not.
PublishTunnelFailure(f) ==
    /\ pc[f] = "tunnelPublish"
    /\ Publish("tunnel", f)
    /\ Goto(f, "done")
    /\ UNCHANGED <<seq, flowVars, files, reply, streamVars, dbVars, announced, outbound>>

-----------------------------------------------------------------------------
(* What happens to a flow from outside.                                    *)

\* The client goes away while the task is suspended, and the task is dropped.
\* A file write that was handed to the blocking pool may still be carried out.
ClientLeaves(f) ==
    /\ pc[f] \in AwaitPoints /\ ~Detached(f)
    /\ Goto(f, "cancelled")
    /\ \/ UNCHANGED files
       \/ /\ pc[f] \in RequestWrites \cup ResponseWrites
          /\ files' = [files EXCEPT ![f] = @ \cup {FileOf[pc[f]]}]
    /\ UNCHANGED <<seq, flowVars, reply, streamVars, dbVars, eventVars, outbound>>

-----------------------------------------------------------------------------
(* The database writer, the event pipeline and the outbound worker.        *)

\* Fault: the writer task returns at the first insert that fails, with what is
\* queued behind it.
InsertRow_ReturnsOnError ==
    /\ dbQueue # <<>>
    /\ LET row == Head(dbQueue) IN
          /\ "lost" # (IF row.kind = "req" THEN reqRow ELSE resRow)[row.flow]
          /\ \E s \in (IF dbOpen THEN {"stored", "lost"} ELSE {"lost"}) :
                /\ dbQueue' = IF s = "lost" THEN dbQueue ELSE Tail(dbQueue)
                /\ IF row.kind = "req"
                   THEN reqRow' = [reqRow EXCEPT ![row.flow] = s] /\ UNCHANGED resRow
                   ELSE resRow' = [resRow EXCEPT ![row.flow] = s] /\ UNCHANGED reqRow
    /\ UNCHANGED <<seq, pc, flowVars, files, reply, streamVars, dbOpen, eventVars, outbound>>

\* Fault: the newest row is written first.
InsertRow_NewestFirst ==
    /\ dbQueue # <<>>
    /\ dbQueue' = SubSeq(dbQueue, 1, Len(dbQueue) - 1)
    /\ LET row == dbQueue[Len(dbQueue)] IN
          IF row.kind = "req"
          THEN reqRow' = [reqRow EXCEPT ![row.flow] = "stored"] /\ UNCHANGED resRow
          ELSE resRow' = [resRow EXCEPT ![row.flow] = "stored"] /\ UNCHANGED reqRow
    /\ UNCHANGED <<seq, pc, flowVars, files, reply, streamVars, dbOpen, eventVars, outbound>>

\* One turn of the writer: an insert that fails is logged and forgotten, and
\* every insert fails once the pool is closed.
InsertRow ==
    /\ dbQueue # <<>>
    /\ dbQueue' = Tail(dbQueue)
    /\ \E s \in (IF dbOpen THEN {"stored", "lost"} ELSE {"lost"}) :
          IF Head(dbQueue).kind = "req"
          THEN reqRow' = [reqRow EXCEPT ![Head(dbQueue).flow] = s] /\ UNCHANGED resRow
          ELSE resRow' = [resRow EXCEPT ![Head(dbQueue).flow] = s] /\ UNCHANGED reqRow
    /\ UNCHANGED <<seq, pc, flowVars, files, reply, streamVars, dbOpen, eventVars, outbound>>

\* The quit signal: mitm_proxy_main checkpoints and closes the pool at once,
\* whatever is still queued for the writer.  It then returns, and so does main:
\* from here on the process may end between any two steps, and its tasks and
\* queues with it.
CloseDatabase ==
    /\ dbOpen
    /\ dbOpen' = FALSE
    /\ UNCHANGED <<seq, pc, flowVars, files, reply, streamVars, dbQueue, reqRow, resRow,
                   eventVars, outbound>>

\* Fault: the newest event is delivered first.
ReceiveEvent_NewestFirst ==
    /\ eventQueue # <<>>
    /\ eventQueue' = SubSeq(eventQueue, 1, Len(eventQueue) - 1)
    /\ LET e == eventQueue[Len(eventQueue)] IN
          announced' = [announced EXCEPT ![e.flow] = @ \cup {e.kind}]
    /\ UNCHANGED <<seq, pc, flowVars, files, reply, streamVars, dbVars, outbound>>

\* FlowEventDispatcher::run takes an event and hands it to the sink
\* (PacketList models what the sink and the interface make of it).
ReceiveEvent ==
    /\ eventQueue # <<>>
    /\ eventQueue' = Tail(eventQueue)
    /\ announced' = [announced EXCEPT ![Head(eventQueue).flow] = @ \cup {Head(eventQueue).kind}]
    /\ UNCHANGED <<seq, pc, flowVars, files, reply, streamVars, dbVars, outbound>>

\* run_outbound_http_worker takes a job and sends it on its own.
ReceiveOutboundJob ==
    /\ outbound # <<>>
    /\ outbound' = Tail(outbound)
    /\ UNCHANGED <<seq, pc, flowVars, files, reply, streamVars, dbVars, eventVars>>

-----------------------------------------------------------------------------
Init ==
    /\ seq = 0
    /\ pc = [f \in Flows |-> "idle"]
    /\ kind = [f \in Flows |-> "http"]
    /\ verdict = [f \in Flows |-> "forward"]
    /\ dropReply = [f \in Flows |-> FALSE]
    /\ res = [f \in Flows |-> NoResponse]
    /\ files = [f \in Flows |-> {}]
    /\ reply = [f \in Flows |-> "none"]
    /\ body = [f \in Flows |-> "none"]
    /\ held = [f \in Flows |-> 0]
    /\ left = [f \in Flows |-> 0]
    /\ sent = [f \in Flows |-> 0]
    /\ finalized = [f \in Flows |-> FALSE]
    /\ interrupted = [f \in Flows |-> FALSE]
    /\ rowSize = [f \in Flows |-> 0]
    /\ dbQueue = <<>>
    /\ dbOpen = TRUE
    /\ reqRow = [f \in Flows |-> "none"]
    /\ resRow = [f \in Flows |-> "none"]
    /\ eventQueue = <<>>
    /\ announced = [f \in Flows |-> {}]
    /\ outbound = <<>>

\* Steps of a flow's own tasks.
TaskStep(f) ==
    \/ DispatchRequestFilters(f)
    \/ WriteFile(f)
    \/ WriteFails(f)
    \/ SendRequestRow(f)
    \/ PublishRequest(f)
    \/ BuildSyntheticResponse(f)
    \/ ServeUpstream(f)
    \/ DispatchSse(f)
    \/ DispatchStreaming(f)
    \/ DispatchCollected(f)
    \/ SendResponseRow(f)
    \/ PublishResponse(f)
    \/ StartFinalize(f)
    \/ WriteWebSocketFiles(f)
    \/ CaptureTunnelFailure(f)
    \/ PublishTunnelFailure(f)

\* Steps of the peers: what arrives, and what becomes of the bodies handed out.
PeerStep(f) ==
    \/ NewRequestContext(f)
    \/ AcceptWebSocket(f)
    \/ RejectTunnel(f)
    \/ TunnelFails(f)
    \/ ForwardFrame(f)
    \/ EndBody(f)
    \/ DropBody(f)
    \/ EndSse(f)
    \/ ClientLeaves(f)

SharedStep ==
    \/ InsertRow
    \/ CloseDatabase
    \/ ReceiveEvent
    \/ ReceiveOutboundJob

Next == SharedStep \/ \E f \in Flows : TaskStep(f) \/ PeerStep(f)

\* The task waits for the bytes of a peer, with no time limit: for the body of
\* the request, or for a response body that is collected or probed.
AwaitsBody(f) ==
    \/ pc[f] = "collect"
    \/ pc[f] = "respond" /\ ~res[f].sse /\ ResponseBodyMode(res[f], Threshold) # "Stream"

\* The database is closed and the process is about to end.
Quitting == ~dbOpen

\* The runtime schedules every ready task: a flow's own steps, the database
\* writer and the event sink are never put off for ever, until the user quits.
\* The upstream call has a time limit, bodies have none.
Fairness ==
    /\ \A f \in Flows : WF_vars(~Quitting /\ ~AwaitsBody(f) /\ TaskStep(f))
    /\ WF_vars(~Quitting /\ InsertRow)
    /\ WF_vars(~Quitting /\ ReceiveEvent)

Spec == Init /\ [][Next]_vars /\ Fairness

-----------------------------------------------------------------------------
(* Properties.                                                             *)

RowKinds    == [kind : {"req", "res"}, flow : Flows]
EventKinds  == {"started", "completed", "tunnel"}
Events      == [kind : EventKinds, flow : Flows]
Replies     == {"none", "buffered", "sse", "upgraded", "stream", "dropped", "error",
                "bad", "rejected"}
RowStates   == {"none", "queued", "stored", "lost"}

\* The types of all the state the dispatcher, the writer and the sink keep.
TypeOK ==
    /\ seq \in Nat
    /\ pc \in [Flows -> Stages]
    /\ kind \in [Flows -> {"http", "ws", "tunnel"}]
    /\ verdict \in [Flows -> {"forward", "synthetic", "drop"}]
    /\ dropReply \in [Flows -> BOOLEAN]
    /\ res \in [Flows -> Served \cup {NoResponse}]
    /\ files \in [Flows -> SUBSET (RequestFiles \cup ResponseFiles)]
    /\ reply \in [Flows -> Replies]
    /\ body \in [Flows -> {"none", "open", "ended", "dropped"}]
    /\ held \in [Flows -> Nat] /\ left \in [Flows -> Nat]
    /\ sent \in [Flows -> Nat] /\ rowSize \in [Flows -> Nat]
    /\ finalized \in [Flows -> BOOLEAN] /\ interrupted \in [Flows -> BOOLEAN]
    /\ dbQueue \in Seq(RowKinds) /\ dbOpen \in BOOLEAN
    /\ reqRow \in [Flows -> RowStates] /\ resRow \in [Flows -> RowStates]
    /\ eventQueue \in Seq(Events)
    /\ announced \in [Flows -> SUBSET EventKinds]
    /\ outbound \in Seq(Flows)

\* A response row is never written (or given up) while the row of its request
\* is still waiting in the writer's queue: commit_request queues before the
\* response can exist, and the one writer works first in, first out.
ResponseRowFollowsRequestRow ==
    \A f \in Flows : resRow[f] \in {"stored", "lost"} => reqRow[f] \in {"stored", "lost"}

\* A row of an HTTP flow names files that are all on disk, whatever writes
\* failed and whenever the client left (commit_request, commit_response).
RowsNameExistingFiles ==
    \A f \in Flows : kind[f] = "http" =>
        /\ reqRow[f] # "none" => RequestFiles \subseteq files[f]
        /\ resRow[f] # "none" => ResponseFiles \subseteq files[f]

\* Each row is in the writer's queue exactly as often as its state says, so no
\* flow ever records two responses, however its streamed body came to an end.
RowsQueuedOnce ==
    \A f \in Flows : \A k \in {"req", "res"} :
        LET places == {i \in 1..Len(dbQueue) : dbQueue[i] = Row(k, f)}
            state  == IF k = "req" THEN reqRow[f] ELSE resRow[f]
        IN /\ state = "queued" <=> places # {}
           /\ \A i, j \in places : i = j

\* The row of a streamed response reports the bytes the client was sent, and
\* a stream reported as complete is complete, the probed prefix included.
StreamRowTruthful ==
    \A f \in Flows : (body[f] # "none" /\ resRow[f] # "none") =>
        /\ rowSize[f] = sent[f]
        /\ ~interrupted[f] => (sent[f] = res[f].size /\ ~res[f].fails)

\* Once the sink has been told that a flow completed, no message that it
\* started can still be on its way: the row would wait for ever.
CompletedIsLast ==
    \A f \in Flows : \A j \in 1..Len(eventQueue) :
        eventQueue[j] = Event("started", f) =>
            /\ "completed" \notin announced[f]
            /\ \A i \in 1..(j - 1) : eventQueue[i] # Event("completed", f)

\* Whatever is announced is captured: an event of a flow is published only
\* after the row it stands for is queued (commit first, publish second).
AnnouncedIsCaptured ==
    \A f \in Flows :
        LET queued == {eventQueue[i].kind : i \in
                          {j \in 1..Len(eventQueue) : eventQueue[j].flow = f}}
        IN /\ "started" \in queued \cup announced[f] => reqRow[f] # "none"
           /\ "completed" \in queued \cup announced[f] => resRow[f] # "none"

\* The upstream server is called only for a request that is on record and that
\* no request filter dropped or answered (dispatch_http).
UpstreamOnlyAfterCapture ==
    [][\A f \in Flows : (pc[f] = "upstream" /\ pc'[f] \in {"respond", "wsResponse"}) =>
           reqRow[f] # "none" /\ verdict[f] = "forward"]_vars

\* What the capture promises of each flow.
Ledger == INSTANCE CaptureLedger WITH request <- reqRow, response <- resRow

\* The dispatcher and the writer implement the capture ledger.
LedgerSpec == Ledger!Spec

\* A request whose body has arrived is answered, unless its client leaves, the
\* user quits or the body of the response does not come; and once that has come,
\* it is answered too, whichever capture writes fail and whatever filters decide.
EveryRequestAnswered ==
    \A f \in Flows :
        pc[f] \in {"reqHead", "resTls"} ~>
            (reply[f] # "none" \/ pc[f] = "cancelled" \/ AwaitsBody(f) \/ Quitting)

\* A streamed body that ended or was dropped leads to a queued response row, to
\* a capture write that failed (the task then stops with no row) or to the end
\* of the process.
StreamIsRecorded ==
    \A f \in Flows : body[f] \in {"ended", "dropped"} ~>
        \/ pc[f] = "done" /\ (resRow[f] # "none" \/ ~(ResponseFiles \subseteq files[f]))
        \/ Quitting

\* Until the user quits, what is queued for the writer is written or given up,
\* whichever inserts before it failed.  What is queued when the pool is closed
\* (mitm_proxy_main) has no such promise: the writer may go with the process.
RowsSettle ==
    \A f \in Flows : /\ reqRow[f] = "queued" ~> reqRow[f] \in {"stored", "lost"} \/ Quitting
                     /\ resRow[f] = "queued" ~> resRow[f] \in {"stored", "lost"} \/ Quitting

-----------------------------------------------------------------------------
(* The inductive invariant behind the safety properties (FlowDispatch_proofs). *)

BeforeRequestRow == {"idle", "collect", "wsRequest", "tunnelCapture", "reqSend"} \cup RequestWrites

\* The stages of a request on record whose response is not.
Responding == {"reqPublish", "synthetic", "upstream", "respond", "wsResponse", "resSend",
               "streaming", "finalize"} \cup ResponseWrites

\* The stages at which the response being dispatched is known.
Responded == {"respond", "wsResponse", "resSend", "resPublish", "streaming", "finalize", "sse"}
                \cup ResponseWrites

\* What the stage of a task says of its flow: which rows and which files exist,
\* whether the client has its answer, who owns a streamed body.
StageInv ==
    \A f \in Flows :
        /\ pc[f] \in BeforeRequestRow => reqRow[f] = "none"
        /\ pc[f] \in BeforeRequestRow \cup Responding => resRow[f] = "none"
        /\ pc[f] \in Responding \cup {"resPublish"} => reqRow[f] # "none"
        /\ pc[f] = "resPublish" => resRow[f] # "none"
        /\ pc[f] = "tunnelPublish" => resRow[f] = "none"
        /\ resRow[f] # "none" => reqRow[f] # "none"
        /\ pc[f] \in Responded => res[f] \in Served
        /\ pc[f] \notin {"done", "sse"} /\ body[f] = "none" => reply[f] = "none"

\* A streamed body is open exactly while its task waits for it, and whoever
\* ends it first finalizes.
BodyInv ==
    \A f \in Flows :
        /\ body[f] = "open" <=> pc[f] = "streaming"
        /\ body[f] \in {"ended", "dropped"} <=> finalized[f]
        /\ body[f] # "none" => pc[f] \in {"streaming", "finalize", "resSend", "resPublish", "done"}
                                              \cup ResponseWrites
        /\ pc[f] = "finalize" => body[f] # "none"

Places == 1..Len(dbQueue)

\* Every row that is queued is in the writer's queue ...
QueueComplete ==
    \A f \in Flows :
        /\ reqRow[f] = "queued" => \E i \in Places : dbQueue[i] = Row("req", f)
        /\ resRow[f] = "queued" => \E i \in Places : dbQueue[i] = Row("res", f)

\* ... which holds no other ...
QueueSound ==
    \A f \in Flows, i \in Places :
        /\ dbQueue[i] = Row("req", f) => reqRow[f] = "queued"
        /\ dbQueue[i] = Row("res", f) => resRow[f] = "queued"

\* ... each of them once ...
QueueOnce == \A i, j \in Places : dbQueue[i] = dbQueue[j] => i = j

\* ... and a response row only behind the row of its request.
QueueOrder ==
    \A f \in Flows, i \in Places : (dbQueue[i] = Row("res", f) /\ reqRow[f] = "queued") =>
        \E j \in 1..(i - 1) : dbQueue[j] = Row("req", f)

QueueInv == QueueComplete /\ QueueSound /\ QueueOnce /\ QueueOrder

\* A file is on disk before the stage that comes after its write, and the files
\* of a row before the row: writes only add files, and nothing takes a row back.
FilesInv ==
    \A f \in Flows :
        /\ pc[f] \in {"wsRequest", "wsResponse"} => kind[f] = "ws"
        /\ pc[f] = "tunnelCapture" => kind[f] = "tunnel"
        /\ kind[f] = "http" =>
            /\ pc[f] = "reqBody" => "request.head" \in files[f]
            /\ pc[f] = "reqSend" \/ reqRow[f] # "none" => RequestFiles \subseteq files[f]
            /\ pc[f] = "resHead" => "ssl_tls.json" \in files[f]
            /\ pc[f] = "resBody" => {"ssl_tls.json", "response.head"} \subseteq files[f]
            /\ pc[f] = "resSend" \/ resRow[f] # "none" => ResponseFiles \subseteq files[f]

\* No byte of a streamed body is lost between the probe, upstream and the
\* client; a body that ended by itself was forwarded whole; and the size is
\* read from the counter when nobody adds to it any more.
StreamInv ==
    \A f \in Flows :
        /\ body[f] = "none" => sent[f] = 0
        /\ body[f] # "none" => res[f] \in Served
        /\ body[f] = "open" => sent[f] + held[f] + left[f] = res[f].size
        /\ finalized[f] /\ ~interrupted[f] => sent[f] = res[f].size /\ ~res[f].fails
        /\ body[f] # "none" /\ (resRow[f] # "none" \/
               pc[f] \in ResponseWrites \cup {"resSend", "resPublish"}) => rowSize[f] = sent[f]

\* Only the request filters of an HTTP flow say anything but "forward", and
\* what they say is acted upon before the upstream call.
VerdictInv ==
    \A f \in Flows :
        /\ pc[f] = "collect" => kind[f] = "http"
        /\ pc[f] \in {"idle", "upstream"} \/ kind[f] # "http" => verdict[f] = "forward"

\* Together, with the order in which rows settle and what events say of rows,
\* they are preserved by every step of every task, peer and writer.
IndInv ==
    /\ TypeOK /\ StageInv /\ BodyInv /\ QueueInv /\ ResponseRowFollowsRequestRow
    /\ FilesInv /\ StreamInv /\ VerdictInv /\ AnnouncedIsCaptured /\ CompletedIsLast
=============================================================================
