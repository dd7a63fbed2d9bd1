------------------------ MODULE FlowDispatch_proofs ------------------------
(***************************************************************************)
(* Proofs about FlowDispatch, for any number of flows, any responses, any  *)
(* threshold and any channel capacities.                                   *)
(***************************************************************************)
EXTENDS FlowDispatch, TLAPS

\* The probe never gives a prefix back that is longer than the body: what is
\* left to read of a streamed body is a natural number (probe_response_body).
LEMMA PrefixFits ==
    ASSUME NEW r \in Served, CaptureMode(r, Threshold) = "stream"
    PROVE  /\ r.size \in Nat
           /\ BufferedPrefix(r, Threshold) \in Nat
           /\ BufferedPrefix(r, Threshold) <= r.size
           /\ r.size - BufferedPrefix(r, Threshold) \in Nat
<1>1. r.size \in Nat
  BY ConstantsAssumption DEF Responses
<1>2. BufferedPrefix(r, Threshold) # 0 => r.size > Threshold
  BY DEF BufferedPrefix, CaptureMode, ProbeStreams
<1> QED BY <1>1, <1>2, ConstantsAssumption DEF BufferedPrefix, ProbePrefix

\* The flow that starts nothing yet satisfies the invariant.
LEMMA InitInv == Init => IndInv
<1> SUFFICES ASSUME Init PROVE IndInv
  OBVIOUS
<1>1. TypeOK
  BY ConstantsAssumption DEF Init, TypeOK, Stages, AwaitPoints, RequestWrites, ResponseWrites,
     RowStates, RowKinds, Events, Replies
<1>2. StageInv
  BY DEF Init, StageInv, BeforeRequestRow, Responding, Responded, RequestWrites, ResponseWrites
<1>3. BodyInv
  BY DEF Init, BodyInv
<1>4. QueueInv
  BY DEF Init, QueueInv, QueueComplete, QueueSound, QueueOnce, QueueOrder, Places
<1>5. FilesInv /\ VerdictInv
  BY DEF Init, FilesInv, VerdictInv, RequestFiles, ResponseFiles
<1>6. StreamInv
  BY DEF Init, StreamInv
<1>7. AnnouncedIsCaptured /\ CompletedIsLast
  BY DEF Init, AnnouncedIsCaptured, CompletedIsLast
<1> QED BY <1>1, <1>2, <1>3, <1>4, <1>5, <1>6, <1>7 DEF IndInv, Init, ResponseRowFollowsRequestRow

\* Appending to a sequence, in the terms the invariant uses.
LEMMA AppendFacts ==
    ASSUME NEW S, NEW q \in Seq(S), NEW e \in S
    PROVE  /\ Append(q, e) \in Seq(S)
           /\ Len(Append(q, e)) = Len(q) + 1
           /\ Len(q) \in Nat
           /\ Append(q, e)[Len(q) + 1] = e
           /\ \A i \in 1..Len(q) : Append(q, e)[i] = q[i]
OBVIOUS

\* The same for taking the head of a sequence off.
LEMMA TailFacts ==
    ASSUME NEW S, NEW q \in Seq(S), q # <<>>
    PROVE  /\ Tail(q) \in Seq(S)
           /\ Len(Tail(q)) = Len(q) - 1
           /\ Len(q) \in Nat \ {0}
           /\ Head(q) = q[1] /\ Head(q) \in S
           /\ \A i \in 1..(Len(q) - 1) : Tail(q)[i] = q[i + 1]
OBVIOUS

\* finalize leaves the flags flags, whether it is the first call or not.
LEMMA FinalizeType ==
    ASSUME TypeOK, NEW f \in Flows, NEW b \in BOOLEAN, Finalize(f, b)
    PROVE  /\ pc' \in [Flows -> Stages]
           /\ finalized' \in [Flows -> BOOLEAN]
           /\ interrupted' \in [Flows -> BOOLEAN]
<1>1. CASE finalized[f]
  BY <1>1 DEF Finalize, TypeOK
<1>2. CASE ~finalized[f]
  <2>1. pc' = [pc EXCEPT ![f] = "finalize"] /\ "finalize" \in Stages
    BY <1>2 DEF Finalize, Goto, Stages
  <2>2. finalized' = [finalized EXCEPT ![f] = TRUE] /\ interrupted' = [interrupted EXCEPT ![f] = b]
    BY <1>2 DEF Finalize
  <2> QED BY <2>1, <2>2 DEF TypeOK
<1> QED BY <1>1, <1>2

\* The last stage of a write is a stage, and what it writes a file.
LEMMA WriteStages ==
    \A s \in RequestWrites \cup ResponseWrites :
        /\ FileOf[s] \in RequestFiles \cup ResponseFiles
        /\ After[s] \in Stages
        /\ s \in RequestWrites => After[s] \in RequestWrites \cup {"reqSend"}
        /\ s \in ResponseWrites => After[s] \in ResponseWrites \cup {"resSend"}
BY DEF RequestWrites, ResponseWrites, FileOf, After, Stages, AwaitPoints, RequestFiles,
   ResponseFiles

\* A published event keeps the queue a queue of events, whether it fits or not.
LEMMA PublishType ==
    ASSUME NEW k \in EventKinds, NEW f \in Flows, eventQueue \in Seq(Events), Publish(k, f)
    PROVE  eventQueue' \in Seq(Events)
BY AppendFacts DEF Publish, Event, Events

\* The stages the actions go to, by name.
LEMMA StageNames ==
    /\ RequestWrites \subseteq Stages /\ ResponseWrites \subseteq Stages
    /\ {"collect", "upstream", "respond", "wsRequest", "wsResponse"} \subseteq Stages
    /\ {"reqSend", "reqPublish", "synthetic", "resSend", "resPublish"} \subseteq Stages
    /\ {"tunnelCapture", "tunnelPublish", "streaming", "finalize", "sse"} \subseteq Stages
    /\ {"done", "cancelled"} \subseteq Stages
    /\ {"reqHead", "resTls"} \subseteq Stages
BY DEF Stages, AwaitPoints, RequestWrites, ResponseWrites

\* A task that moves to a stage keeps the type of the stages.
LEMMA GotoType ==
    ASSUME TypeOK, NEW f \in Flows, NEW s \in Stages, Goto(f, s)
    PROVE  pc' \in [Flows -> Stages]
BY DEF TypeOK, Goto

\* ... and so does a task that answers its client.
LEMMA AnswerType ==
    ASSUME TypeOK, NEW f \in Flows, NEW r \in Replies, Answer(f, r)
    PROVE  pc' \in [Flows -> Stages] /\ reply' \in [Flows -> Replies]
BY StageNames DEF TypeOK, Goto, Answer

\* A queued message is the row of one kind and one flow.
LEMMA RowFacts ==
    /\ \A f \in Flows : Row("req", f) \in RowKinds /\ Row("res", f) \in RowKinds
    /\ \A row \in RowKinds : \E f \in Flows : row \in {Row("req", f), Row("res", f)}
    /\ \A f, g \in Flows : Row("req", f) # Row("res", g)
    /\ \A f, g \in Flows : Row("req", f) = Row("req", g) => f = g
    /\ \A f, g \in Flows : Row("res", f) = Row("res", g) => f = g
BY DEF Row, RowKinds


\* The writer settles the row at the head of its queue and touches no other.
LEMMA RowsSettled ==
    ASSUME IndInv, InsertRow
    PROVE  \E s \in {"stored", "lost"}, g \in Flows :
             \/ /\ dbQueue[1] = Row("req", g) /\ reqRow[g] = "queued"
                /\ reqRow' = [reqRow EXCEPT ![g] = s] /\ resRow' = resRow
             \/ /\ dbQueue[1] = Row("res", g) /\ resRow[g] = "queued"
                /\ reqRow[g] # "queued"
                /\ resRow' = [resRow EXCEPT ![g] = s] /\ reqRow' = reqRow
<1>1. Head(dbQueue) \in RowKinds /\ Head(dbQueue) = dbQueue[1] /\ 1 \in Places
  BY TailFacts DEF InsertRow, IndInv, TypeOK, Places
<1>2. PICK s \in {"stored", "lost"} :
        IF Head(dbQueue).kind = "req"
        THEN reqRow' = [reqRow EXCEPT ![Head(dbQueue).flow] = s] /\ UNCHANGED resRow
        ELSE resRow' = [resRow EXCEPT ![Head(dbQueue).flow] = s] /\ UNCHANGED reqRow
  BY DEF InsertRow
<1>3. PICK g \in Flows : Head(dbQueue) \in {Row("req", g), Row("res", g)}
  BY <1>1, RowFacts
<1>4. CASE Head(dbQueue) = Row("req", g)
  <2>1. reqRow[g] = "queued"
    BY <1>1, <1>4 DEF IndInv, QueueInv, QueueSound
  <2>2. reqRow' = [reqRow EXCEPT ![g] = s] /\ UNCHANGED resRow
    BY <1>2, <1>4 DEF Row
  <2> QED BY <1>1, <1>4, <2>1, <2>2
<1>5. CASE Head(dbQueue) = Row("res", g)
  <2>1. resRow[g] = "queued"
    BY <1>1, <1>5 DEF IndInv, QueueInv, QueueSound
  <2>2. reqRow[g] # "queued"
    BY <1>1, <1>5 DEF IndInv, QueueInv, QueueOrder
  <2>3. resRow' = [resRow EXCEPT ![g] = s] /\ UNCHANGED reqRow
    BY <1>2, <1>5 DEF Row
  <2> QED BY <1>1, <1>5, <2>1, <2>2, <2>3
<1> QED BY <1>3, <1>4, <1>5

\* ... so that it neither makes a row nor takes one back.
LEMMA RowsKept ==
    ASSUME IndInv, InsertRow
    PROVE  \A f \in Flows : /\ reqRow'[f] = "none" <=> reqRow[f] = "none"
                            /\ resRow'[f] = "none" <=> resRow[f] = "none"
<1>1. PICK s \in {"stored", "lost"}, g \in Flows :
        \/ reqRow[g] = "queued" /\ reqRow' = [reqRow EXCEPT ![g] = s] /\ resRow' = resRow
        \/ resRow[g] = "queued" /\ resRow' = [resRow EXCEPT ![g] = s] /\ reqRow' = reqRow
  BY RowsSettled
<1> QED BY <1>1 DEF IndInv, TypeOK

\* Every step keeps the types.
LEMMA TypeStep == IndInv /\ [Next]_vars => TypeOK'
<1> SUFFICES ASSUME IndInv, [Next]_vars PROVE TypeOK'
  OBVIOUS
<1> USE DEF IndInv, TypeOK, vars, flowVars, streamVars, dbVars, eventVars
<1>1. ASSUME NEW f \in Flows, DispatchRequestFilters(f) PROVE TypeOK'
  <2>1. pc' \in [Flows -> Stages]
    BY <1>1, GotoType, StageNames DEF DispatchRequestFilters
  <2>2. verdict' \in [Flows -> {"forward", "synthetic", "drop"}]
    BY <1>1 DEF DispatchRequestFilters
  <2> QED BY <1>1, <2>1, <2>2 DEF DispatchRequestFilters
<1>2. ASSUME NEW f \in Flows, WriteFile(f) PROVE TypeOK'
  <2>1. pc' \in [Flows -> Stages]
    BY <1>2, GotoType, WriteStages DEF WriteFile
  <2>2. files' \in [Flows -> SUBSET (RequestFiles \cup ResponseFiles)]
    BY <1>2, WriteStages DEF WriteFile
  <2> QED BY <1>2, <2>1, <2>2 DEF WriteFile
<1>3. ASSUME NEW f \in Flows, WriteFails(f) PROVE TypeOK'
  <2>1. pc' \in [Flows -> Stages] /\ reply' \in [Flows -> Replies]
    BY <1>3, GotoType, AnswerType, StageNames DEF WriteFails, Replies
  <2> QED BY <1>3, <2>1 DEF WriteFails
<1>4. ASSUME NEW f \in Flows, SendRequestRow(f) PROVE TypeOK'
  <2>1. pc' \in [Flows -> Stages]
    BY <1>4, GotoType, StageNames DEF SendRequestRow
  <2>2. dbQueue' \in Seq(RowKinds)
    BY <1>4, AppendFacts, RowFacts DEF SendRequestRow
  <2>3. reqRow' \in [Flows -> RowStates]
    BY <1>4 DEF SendRequestRow, RowStates
  <2> QED BY <1>4, <2>1, <2>2, <2>3 DEF SendRequestRow
<1>5. ASSUME NEW f \in Flows, PublishRequest(f) PROVE TypeOK'
  <2>1. CASE verdict[f] = "drop"
    <3>1. Answer(f, "dropped")
      BY <1>5, <2>1 DEF PublishRequest
    <3> QED BY <1>5, <3>1, AnswerType, PublishType DEF PublishRequest, EventKinds, Replies
  <2>2. CASE verdict[f] # "drop"
    <3>1. reply' = reply /\ (Goto(f, "synthetic") \/ Goto(f, "upstream"))
      BY <1>5, <2>2 DEF PublishRequest
    <3>2. pc' \in [Flows -> Stages]
      BY <3>1, GotoType, StageNames
    <3>3. eventQueue' \in Seq(Events)
      BY <1>5, PublishType DEF PublishRequest, EventKinds
    <3> QED BY <1>5, <3>1, <3>2, <3>3 DEF PublishRequest
  <2> QED BY <2>1, <2>2
<1>6. ASSUME NEW f \in Flows, BuildSyntheticResponse(f) PROVE TypeOK'
  <2>1. pc' \in [Flows -> Stages]
    BY <1>6, GotoType, StageNames DEF BuildSyntheticResponse
  <2>2. res' \in [Flows -> Served \cup {NoResponse}]
    BY <1>6 DEF BuildSyntheticResponse
  <2> QED BY <1>6, <2>1, <2>2 DEF BuildSyntheticResponse
<1>7. ASSUME NEW f \in Flows, ServeUpstream(f) PROVE TypeOK'
  <2>1. pc' \in [Flows -> Stages]
    BY <1>7, GotoType, StageNames DEF ServeUpstream
  <2>2. res' \in [Flows -> Served \cup {NoResponse}]
    BY <1>7 DEF ServeUpstream
  <2> QED BY <1>7, <2>1, <2>2 DEF ServeUpstream
<1>8. ASSUME NEW f \in Flows, DispatchSse(f) PROVE TypeOK'
  <2>1. pc' \in [Flows -> Stages]
    BY <1>8, GotoType, StageNames DEF DispatchSse
  <2> QED BY <1>8, <2>1 DEF DispatchSse
<1>9. ASSUME NEW f \in Flows, DispatchStreaming(f) PROVE TypeOK'
  <2>1. res[f] \in Served /\ CaptureMode(res[f], Threshold) = "stream"
    BY <1>9 DEF DispatchStreaming, StageInv, Responded, Mode
  <2>2. pc' \in [Flows -> Stages]
    BY <1>9, GotoType, StageNames DEF DispatchStreaming
  <2>3. held' \in [Flows -> Nat] /\ left' \in [Flows -> Nat]
    BY <1>9, <2>1, PrefixFits DEF DispatchStreaming
  <2>4. reply' \in [Flows -> Replies]
    BY <1>9 DEF DispatchStreaming, Replies
  <2>5. body' \in [Flows -> {"none", "open", "ended", "dropped"}]
    BY <1>9 DEF DispatchStreaming
  <2> QED BY <1>9, <2>2, <2>3, <2>4, <2>5 DEF DispatchStreaming
<1>10. ASSUME NEW f \in Flows, DispatchCollected(f) PROVE TypeOK'
  <2>1. pc' \in [Flows -> Stages]
    BY <1>10, GotoType, StageNames DEF DispatchCollected
  <2>2. outbound' \in Seq(Flows)
    BY <1>10, AppendFacts DEF DispatchCollected
  <2>3. dropReply' \in [Flows -> BOOLEAN]
    BY <1>10 DEF DispatchCollected
  <2> QED BY <1>10, <2>1, <2>2, <2>3 DEF DispatchCollected
<1>11. ASSUME NEW f \in Flows, SendResponseRow(f) PROVE TypeOK'
  <2>1. pc' \in [Flows -> Stages]
    BY <1>11, GotoType, StageNames DEF SendResponseRow
  <2>2. dbQueue' \in Seq(RowKinds)
    BY <1>11, AppendFacts, RowFacts DEF SendResponseRow
  <2>3. resRow' \in [Flows -> RowStates]
    BY <1>11 DEF SendResponseRow, RowStates
  <2> QED BY <1>11, <2>1, <2>2, <2>3 DEF SendResponseRow
<1>12. ASSUME NEW f \in Flows, PublishResponse(f) PROVE TypeOK'
  <2>1. eventQueue' \in Seq(Events)
    BY <1>12, PublishType DEF PublishResponse, EventKinds
  <2>2. \/ reply' = reply /\ Goto(f, "done")
        \/ reply' = [reply EXCEPT ![f] = "sse"] /\ Goto(f, "sse")
        \/ \E r \in {"upgraded", "dropped", "buffered"} : Answer(f, r)
    BY <1>12 DEF PublishResponse
  <2>3. pc' \in [Flows -> Stages] /\ reply' \in [Flows -> Replies]
    BY <2>2, GotoType, AnswerType, StageNames DEF Replies
  <2> QED BY <1>12, <2>1, <2>3 DEF PublishResponse
<1>13. ASSUME NEW f \in Flows, StartFinalize(f) PROVE TypeOK'
  <2>1. pc' \in [Flows -> Stages]
    BY <1>13, GotoType, StageNames DEF StartFinalize
  <2>2. rowSize' \in [Flows -> Nat]
    BY <1>13 DEF StartFinalize
  <2> QED BY <1>13, <2>1, <2>2 DEF StartFinalize
<1>14. ASSUME NEW f \in Flows, WriteWebSocketFiles(f) PROVE TypeOK'
  <2>1. PICK written \in SUBSET (RequestFiles \cup ResponseFiles) :
             files' = [files EXCEPT ![f] = @ \cup written]
    BY <1>14 DEF WriteWebSocketFiles, RequestFiles, ResponseFiles
  <2>2. files' \in [Flows -> SUBSET (RequestFiles \cup ResponseFiles)]
    BY <2>1
  <2>3. pc' \in [Flows -> Stages]
    BY <1>14, GotoType, StageNames DEF WriteWebSocketFiles
  <2> QED BY <1>14, <2>2, <2>3 DEF WriteWebSocketFiles
<1>15. ASSUME NEW f \in Flows, CaptureTunnelFailure(f) PROVE TypeOK'
  <2>1. pc' \in [Flows -> Stages]
    BY <1>15, GotoType, StageNames DEF CaptureTunnelFailure
  <2>2. CASE UNCHANGED files
    BY <1>15, <2>1, <2>2 DEF CaptureTunnelFailure
  <2>3. CASE files' = [files EXCEPT ![f] = @ \cup {"ssl_tls.json"}]
    <3>1. files' \in [Flows -> SUBSET (RequestFiles \cup ResponseFiles)]
      BY <2>3 DEF ResponseFiles
    <3> QED BY <1>15, <2>1, <3>1 DEF CaptureTunnelFailure
  <2> QED BY <1>15, <2>2, <2>3 DEF CaptureTunnelFailure
<1>16. ASSUME NEW f \in Flows, PublishTunnelFailure(f) PROVE TypeOK'
  <2>1. pc' \in [Flows -> Stages]
    BY <1>16, GotoType, StageNames DEF PublishTunnelFailure
  <2>2. eventQueue' \in Seq(Events)
    BY <1>16, PublishType DEF PublishTunnelFailure, EventKinds
  <2> QED BY <1>16, <2>1, <2>2 DEF PublishTunnelFailure
<1>17. ASSUME NEW f \in Flows, NewRequestContext(f) PROVE TypeOK'
  <2>1. pc' \in [Flows -> Stages] /\ reply' \in [Flows -> Replies]
    BY <1>17, GotoType, AnswerType, StageNames DEF NewRequestContext, Replies
  <2>2. kind' \in [Flows -> {"http", "ws", "tunnel"}]
    BY <1>17 DEF NewRequestContext
  <2>3. seq' \in Nat
    BY <1>17 DEF NewRequestContext
  <2>4. UNCHANGED <<verdict, dropReply, res, files, streamVars, dbVars, eventVars, outbound>>
    BY <1>17 DEF NewRequestContext
  <2> QED BY <2>1, <2>2, <2>3, <2>4
<1>18. ASSUME NEW f \in Flows, AcceptWebSocket(f) PROVE TypeOK'
  <2>1. pc' \in [Flows -> Stages] /\ reply' \in [Flows -> Replies]
    BY <1>18, GotoType, AnswerType, StageNames DEF AcceptWebSocket, Replies
  <2>2. kind' \in [Flows -> {"http", "ws", "tunnel"}]
    BY <1>18 DEF AcceptWebSocket
  <2>3. seq' \in Nat
    BY <1>18 DEF AcceptWebSocket
  <2>4. UNCHANGED <<verdict, dropReply, res, files, streamVars, dbVars, eventVars, outbound>>
    BY <1>18 DEF AcceptWebSocket
  <2> QED BY <2>1, <2>2, <2>3, <2>4
<1>19. ASSUME NEW f \in Flows, RejectTunnel(f) PROVE TypeOK'
  <2>1. pc' \in [Flows -> Stages] /\ reply' \in [Flows -> Replies]
    BY <1>19, AnswerType DEF RejectTunnel, Replies
  <2>2. kind' \in [Flows -> {"http", "ws", "tunnel"}]
    BY <1>19 DEF RejectTunnel
  <2>3. eventQueue' \in Seq(Events)
    BY <1>19, PublishType DEF RejectTunnel, EventKinds
  <2> QED BY <1>19, <2>1, <2>2, <2>3 DEF RejectTunnel
<1>20. ASSUME NEW f \in Flows, TunnelFails(f) PROVE TypeOK'
  <2>1. pc' \in [Flows -> Stages]
    BY <1>20, GotoType, StageNames DEF TunnelFails
  <2>2. kind' \in [Flows -> {"http", "ws", "tunnel"}]
    BY <1>20 DEF TunnelFails
  <2> QED BY <1>20, <2>1, <2>2 DEF TunnelFails
<1>21. ASSUME NEW f \in Flows, ForwardFrame(f) PROVE TypeOK'
  <2>1. sent[f] \in Nat /\ held[f] \in Nat /\ left[f] \in Nat
    OBVIOUS
  <2>2. CASE held[f] > 0
    <3>1. sent[f] + held[f] \in Nat
      BY <2>1
    <3>2. sent' = [sent EXCEPT ![f] = sent[f] + held[f]] /\ held' = [held EXCEPT ![f] = 0]
            /\ UNCHANGED left
      BY <1>21, <2>2 DEF ForwardFrame
    <3>3. sent' \in [Flows -> Nat] /\ held' \in [Flows -> Nat] /\ left' \in [Flows -> Nat]
      BY <3>1, <3>2
    <3> QED BY <1>21, <3>3 DEF ForwardFrame
  <2>3. CASE ~(held[f] > 0)
    <3>1. sent[f] + 1 \in Nat /\ left[f] > 0 /\ left[f] - 1 \in Nat
      BY <1>21, <2>1, <2>3 DEF ForwardFrame
    <3>2. sent' = [sent EXCEPT ![f] = sent[f] + 1] /\ left' = [left EXCEPT ![f] = left[f] - 1]
            /\ UNCHANGED held
      BY <1>21, <2>3 DEF ForwardFrame
    <3>3. sent' \in [Flows -> Nat] /\ held' \in [Flows -> Nat] /\ left' \in [Flows -> Nat]
      BY <3>1, <3>2
    <3> QED BY <1>21, <3>3 DEF ForwardFrame
  <2> QED BY <2>2, <2>3
<1>22. ASSUME NEW f \in Flows, EndBody(f) PROVE TypeOK'
  <2>1. res[f].fails \in BOOLEAN
    <3>1. res[f] \in Served
      BY <1>22 DEF EndBody, StageInv, BodyInv, Responded
    <3>2. res[f] \in Responses(Nat)
      BY <3>1, ConstantsAssumption
    <3> QED BY <3>2 DEF Responses
  <2>2. Finalize(f, res[f].fails)
    BY <1>22 DEF EndBody
  <2>3. pc' \in [Flows -> Stages] /\ finalized' \in [Flows -> BOOLEAN]
           /\ interrupted' \in [Flows -> BOOLEAN]
    BY <2>1, <2>2, FinalizeType
  <2>4. body' \in [Flows -> {"none", "open", "ended", "dropped"}]
    BY <1>22 DEF EndBody
  <2> QED BY <1>22, <2>3, <2>4 DEF EndBody
<1>23. ASSUME NEW f \in Flows, DropBody(f) PROVE TypeOK'
  <2>1. pc' \in [Flows -> Stages] /\ finalized' \in [Flows -> BOOLEAN]
           /\ interrupted' \in [Flows -> BOOLEAN]
    BY <1>23, FinalizeType DEF DropBody
  <2>2. body' \in [Flows -> {"none", "open", "ended", "dropped"}]
    BY <1>23 DEF DropBody
  <2> QED BY <1>23, <2>1, <2>2 DEF DropBody
<1>24. ASSUME NEW f \in Flows, EndSse(f) PROVE TypeOK'
  <2>1. pc' \in [Flows -> Stages]
    BY <1>24, GotoType, StageNames DEF EndSse
  <2> QED BY <1>24, <2>1 DEF EndSse
<1>25. ASSUME NEW f \in Flows, ClientLeaves(f) PROVE TypeOK'
  <2>1. pc' \in [Flows -> Stages]
    BY <1>25, GotoType, StageNames DEF ClientLeaves
  <2>2. CASE UNCHANGED files
    BY <1>25, <2>1, <2>2 DEF ClientLeaves
  <2>3. CASE /\ pc[f] \in RequestWrites \cup ResponseWrites
             /\ files' = [files EXCEPT ![f] = @ \cup {FileOf[pc[f]]}]
    <3>1. files' \in [Flows -> SUBSET (RequestFiles \cup ResponseFiles)]
      BY <2>3, WriteStages
    <3> QED BY <1>25, <2>1, <3>1 DEF ClientLeaves
  <2> QED BY <1>25, <2>2, <2>3 DEF ClientLeaves
<1>26. ASSUME InsertRow PROVE TypeOK'
  <2>1. dbQueue' \in Seq(RowKinds)
    BY <1>26, TailFacts DEF InsertRow
  <2>2. PICK s \in {"stored", "lost"}, g \in Flows :
          \/ reqRow' = [reqRow EXCEPT ![g] = s] /\ resRow' = resRow
          \/ resRow' = [resRow EXCEPT ![g] = s] /\ reqRow' = reqRow
    BY <1>26, RowsSettled
  <2>3. reqRow' \in [Flows -> RowStates] /\ resRow' \in [Flows -> RowStates]
    <3>1. s \in RowStates
      BY DEF RowStates
    <3>2. CASE reqRow' = [reqRow EXCEPT ![g] = s] /\ resRow' = resRow
      BY <3>1, <3>2
    <3>3. CASE resRow' = [resRow EXCEPT ![g] = s] /\ reqRow' = reqRow
      BY <3>1, <3>3
    <3> QED BY <2>2, <3>2, <3>3
  <2> QED BY <1>26, <2>1, <2>3 DEF InsertRow
<1>27. ASSUME CloseDatabase PROVE TypeOK'
  BY <1>27 DEF CloseDatabase
<1>28. ASSUME ReceiveEvent PROVE TypeOK'
  <2>1. eventQueue' \in Seq(Events) /\ Head(eventQueue) \in Events
    BY <1>28, TailFacts DEF ReceiveEvent
  <2>2. announced' \in [Flows -> SUBSET EventKinds]
    BY <1>28, <2>1 DEF ReceiveEvent, Events
  <2> QED BY <1>28, <2>1, <2>2 DEF ReceiveEvent
<1>29. ASSUME ReceiveOutboundJob PROVE TypeOK'
  <2>1. outbound' \in Seq(Flows)
    BY <1>29, TailFacts DEF ReceiveOutboundJob
  <2> QED BY <1>29, <2>1 DEF ReceiveOutboundJob
<1>30. CASE UNCHANGED vars
  BY <1>30
<1> QED
  BY <1>1, <1>2, <1>3, <1>4, <1>5, <1>6, <1>7, <1>8, <1>9, <1>10, <1>11, <1>12, <1>13,
     <1>14, <1>15, <1>16, <1>17, <1>18, <1>19, <1>20, <1>21, <1>22, <1>23, <1>24,
     <1>25, <1>26, <1>27, <1>28, <1>29, <1>30
     DEF Next, SharedStep, TaskStep, PeerStep

\* An answer ends the task: nothing the stages say of the flow is left to keep.
LEMMA AnswerStage ==
    ASSUME IndInv, NEW f \in Flows, NEW r, Answer(f, r),
           UNCHANGED <<kind, res, body, reqRow, resRow>>
    PROVE  StageInv'
<1>1. pc' = [pc EXCEPT ![f] = "done"] /\ reply' = [reply EXCEPT ![f] = r]
  BY DEF Answer, Goto
<1>2. pc'[f] = "done" /\ \A g \in Flows \ {f} : pc'[g] = pc[g] /\ reply'[g] = reply[g]
  BY <1>1 DEF IndInv, TypeOK
<1> QED
  BY <1>2 DEF IndInv, StageInv, BeforeRequestRow, Responding, Responded, RequestWrites, ResponseWrites


\* Every step keeps what the stages say.
LEMMA StageStep == IndInv /\ [Next]_vars => StageInv'
<1> SUFFICES ASSUME IndInv, [Next]_vars PROVE StageInv'
  OBVIOUS
<1> USE DEF IndInv, TypeOK, StageInv, vars, flowVars, streamVars, dbVars, eventVars, Goto, Answer,
       BeforeRequestRow, Responding, Responded, RequestWrites, ResponseWrites
<1>1. ASSUME NEW f \in Flows, DispatchRequestFilters(f) PROVE StageInv'
  BY <1>1 DEF DispatchRequestFilters
<1>2. ASSUME NEW f \in Flows, WriteFile(f) PROVE StageInv'
  <2>1. CASE pc[f] \in RequestWrites
    <3>1. PICK s \in RequestWrites \cup {"reqSend"} : pc' = [pc EXCEPT ![f] = s]
      BY <1>2, <2>1, WriteStages DEF WriteFile
    <3> QED BY <1>2, <2>1, <3>1 DEF WriteFile
  <2>2. CASE pc[f] \in ResponseWrites
    <3>1. PICK s \in ResponseWrites \cup {"resSend"} : pc' = [pc EXCEPT ![f] = s]
      BY <1>2, <2>2, WriteStages DEF WriteFile
    <3> QED BY <1>2, <2>2, <3>1 DEF WriteFile
  <2> QED BY <1>2, <2>1, <2>2 DEF WriteFile
<1>3. ASSUME NEW f \in Flows, WriteFails(f) PROVE StageInv'
  <2>1. CASE body[f] = "none"
    <3>1. Answer(f, "error")
      BY <1>3, <2>1 DEF WriteFails
    <3> QED BY <1>3, <3>1, AnswerStage DEF WriteFails
  <2>2. CASE body[f] # "none"
    BY <1>3, <2>2 DEF WriteFails
  <2> QED BY <2>1, <2>2
<1>4. ASSUME NEW f \in Flows, SendRequestRow(f) PROVE StageInv'
  BY <1>4 DEF SendRequestRow
<1>5. ASSUME NEW f \in Flows, PublishRequest(f) PROVE StageInv'
  <2>1. CASE verdict[f] = "drop"
    <3>1. Answer(f, "dropped")
      BY <1>5, <2>1 DEF PublishRequest
    <3> QED BY <1>5, <3>1, AnswerStage DEF PublishRequest
  <2>2. CASE verdict[f] = "synthetic"
    BY <1>5, <2>2 DEF PublishRequest
  <2>3. CASE verdict[f] = "forward"
    BY <1>5, <2>3 DEF PublishRequest
  <2> QED BY <2>1, <2>2, <2>3
<1>6. ASSUME NEW f \in Flows, BuildSyntheticResponse(f) PROVE StageInv'
  BY <1>6 DEF BuildSyntheticResponse
<1>7. ASSUME NEW f \in Flows, ServeUpstream(f) PROVE StageInv'
  BY <1>7 DEF ServeUpstream
<1>8. ASSUME NEW f \in Flows, DispatchSse(f) PROVE StageInv'
  BY <1>8 DEF DispatchSse
<1>9. ASSUME NEW f \in Flows, DispatchStreaming(f) PROVE StageInv'
  BY <1>9 DEF DispatchStreaming
<1>10. ASSUME NEW f \in Flows, DispatchCollected(f) PROVE StageInv'
  BY <1>10 DEF DispatchCollected
<1>11. ASSUME NEW f \in Flows, SendResponseRow(f) PROVE StageInv'
  BY <1>11 DEF SendResponseRow
<1>12. ASSUME NEW f \in Flows, PublishResponse(f) PROVE StageInv'
  <2>1. CASE body[f] # "none"
    BY <1>12, <2>1 DEF PublishResponse
  <2>2. CASE body[f] = "none" /\ kind[f] # "ws" /\ Mode(f) = "sse"
    <3>1. pc' = [pc EXCEPT ![f] = "sse"] /\ reply' = [reply EXCEPT ![f] = "sse"]
      BY <1>12, <2>2 DEF PublishResponse
    <3>2. UNCHANGED <<kind, res, body, reqRow, resRow>>
      BY <1>12 DEF PublishResponse
    <3> QED BY <1>12, <3>1, <3>2 DEF PublishResponse
  <2>3. CASE body[f] = "none" /\ (kind[f] = "ws" \/ Mode(f) # "sse")
    <3>1. \E r : Answer(f, r)
      BY <1>12, <2>3 DEF PublishResponse
    <3> QED BY <1>12, <3>1, AnswerStage DEF PublishResponse
  <2> QED BY <2>1, <2>2, <2>3
<1>13. ASSUME NEW f \in Flows, StartFinalize(f) PROVE StageInv'
  BY <1>13 DEF StartFinalize
<1>14. ASSUME NEW f \in Flows, WriteWebSocketFiles(f) PROVE StageInv'
  BY <1>14 DEF WriteWebSocketFiles
<1>15. ASSUME NEW f \in Flows, CaptureTunnelFailure(f) PROVE StageInv'
  <2>1. CASE UNCHANGED files
    BY <1>15, <2>1 DEF CaptureTunnelFailure
  <2>2. CASE pc' = [pc EXCEPT ![f] = "reqSend"]
    BY <1>15, <2>2 DEF CaptureTunnelFailure
  <2> QED BY <1>15, <2>1, <2>2 DEF CaptureTunnelFailure
<1>16. ASSUME NEW f \in Flows, PublishTunnelFailure(f) PROVE StageInv'
  BY <1>16 DEF PublishTunnelFailure
<1>17. ASSUME NEW f \in Flows, NewRequestContext(f) PROVE StageInv'
  BY <1>17 DEF NewRequestContext
<1>18. ASSUME NEW f \in Flows, AcceptWebSocket(f) PROVE StageInv'
  BY <1>18 DEF AcceptWebSocket
<1>19. ASSUME NEW f \in Flows, RejectTunnel(f) PROVE StageInv'
  BY <1>19 DEF RejectTunnel
<1>20. ASSUME NEW f \in Flows, TunnelFails(f) PROVE StageInv'
  BY <1>20 DEF TunnelFails
<1>21. ASSUME NEW f \in Flows, ForwardFrame(f) PROVE StageInv'
  BY <1>21 DEF ForwardFrame
<1>22. ASSUME NEW f \in Flows, EndBody(f) PROVE StageInv'
  <2>1. CASE finalized[f]
    BY <1>22, <2>1 DEF EndBody, Finalize, BodyInv
  <2>2. CASE ~finalized[f]
    BY <1>22, <2>2 DEF EndBody, Finalize, BodyInv
  <2> QED BY <1>22, <2>1, <2>2 DEF EndBody
<1>23. ASSUME NEW f \in Flows, DropBody(f) PROVE StageInv'
  <2>1. CASE finalized[f]
    BY <1>23, <2>1 DEF DropBody, Finalize, BodyInv
  <2>2. CASE ~finalized[f]
    BY <1>23, <2>2 DEF DropBody, Finalize, BodyInv
  <2> QED BY <1>23, <2>1, <2>2 DEF DropBody
<1>24. ASSUME NEW f \in Flows, EndSse(f) PROVE StageInv'
  BY <1>24 DEF EndSse
<1>25. ASSUME NEW f \in Flows, ClientLeaves(f) PROVE StageInv'
  <2>1. CASE pc' = [pc EXCEPT ![f] = "cancelled"]
    BY <1>25, <2>1 DEF ClientLeaves, AwaitPoints
  <2> QED BY <1>25, <2>1 DEF ClientLeaves
<1>26. ASSUME InsertRow PROVE StageInv'
  BY <1>26, RowsKept DEF InsertRow
<1>27. ASSUME CloseDatabase PROVE StageInv'
  BY <1>27 DEF CloseDatabase
<1>28. ASSUME ReceiveEvent PROVE StageInv'
  BY <1>28 DEF ReceiveEvent
<1>29. ASSUME ReceiveOutboundJob PROVE StageInv'
  BY <1>29 DEF ReceiveOutboundJob
<1>30. CASE UNCHANGED vars
  BY <1>30
<1> QED
  BY <1>1, <1>2, <1>3, <1>4, <1>5, <1>6, <1>7, <1>8, <1>9, <1>10, <1>11, <1>12, <1>13,
     <1>14, <1>15, <1>16, <1>17, <1>18, <1>19, <1>20, <1>21, <1>22, <1>23, <1>24,
     <1>25, <1>26, <1>27, <1>28, <1>29, <1>30
     DEF Next, SharedStep, TaskStep, PeerStep

\* Every step keeps the ownership of streamed bodies.
LEMMA BodyStep == IndInv /\ [Next]_vars => BodyInv'
<1> SUFFICES ASSUME IndInv, [Next]_vars PROVE BodyInv'
  OBVIOUS
<1> USE DEF IndInv, TypeOK, BodyInv, vars, flowVars, streamVars, dbVars, eventVars, Goto, Answer,
       RequestWrites, ResponseWrites
<1>1. ASSUME NEW f \in Flows, DispatchRequestFilters(f) PROVE BodyInv'
  BY <1>1 DEF DispatchRequestFilters
<1>2. ASSUME NEW f \in Flows, WriteFile(f) PROVE BodyInv'
  <2>1. CASE pc[f] \in RequestWrites
    <3>1. PICK s \in RequestWrites \cup {"reqSend"} : pc' = [pc EXCEPT ![f] = s]
      BY <1>2, <2>1, WriteStages DEF WriteFile
    <3> QED BY <1>2, <2>1, <3>1 DEF WriteFile
  <2>2. CASE pc[f] \in ResponseWrites
    <3>1. PICK s \in ResponseWrites \cup {"resSend"} : pc' = [pc EXCEPT ![f] = s]
      BY <1>2, <2>2, WriteStages DEF WriteFile
    <3> QED BY <1>2, <2>2, <3>1 DEF WriteFile
  <2> QED BY <1>2, <2>1, <2>2 DEF WriteFile
<1>3. ASSUME NEW f \in Flows, WriteFails(f) PROVE BodyInv'
  BY <1>3 DEF WriteFails
<1>4. ASSUME NEW f \in Flows, SendRequestRow(f) PROVE BodyInv'
  BY <1>4 DEF SendRequestRow
<1>5. ASSUME NEW f \in Flows, PublishRequest(f) PROVE BodyInv'
  <2>1. PICK s \in {"done", "synthetic", "upstream"} : pc' = [pc EXCEPT ![f] = s]
    BY <1>5 DEF PublishRequest
  <2> QED BY <1>5, <2>1 DEF PublishRequest
<1>6. ASSUME NEW f \in Flows, BuildSyntheticResponse(f) PROVE BodyInv'
  BY <1>6 DEF BuildSyntheticResponse
<1>7. ASSUME NEW f \in Flows, ServeUpstream(f) PROVE BodyInv'
  BY <1>7 DEF ServeUpstream
<1>8. ASSUME NEW f \in Flows, DispatchSse(f) PROVE BodyInv'
  BY <1>8 DEF DispatchSse
<1>9. ASSUME NEW f \in Flows, DispatchStreaming(f) PROVE BodyInv'
  BY <1>9 DEF DispatchStreaming
<1>10. ASSUME NEW f \in Flows, DispatchCollected(f) PROVE BodyInv'
  BY <1>10 DEF DispatchCollected
<1>11. ASSUME NEW f \in Flows, SendResponseRow(f) PROVE BodyInv'
  BY <1>11 DEF SendResponseRow
<1>12. ASSUME NEW f \in Flows, PublishResponse(f) PROVE BodyInv'
  BY <1>12 DEF PublishResponse
<1>13. ASSUME NEW f \in Flows, StartFinalize(f) PROVE BodyInv'
  BY <1>13 DEF StartFinalize
<1>14. ASSUME NEW f \in Flows, WriteWebSocketFiles(f) PROVE BodyInv'
  BY <1>14 DEF WriteWebSocketFiles
<1>15. ASSUME NEW f \in Flows, CaptureTunnelFailure(f) PROVE BodyInv'
  BY <1>15, ZenonT(60) DEF CaptureTunnelFailure
<1>16. ASSUME NEW f \in Flows, PublishTunnelFailure(f) PROVE BodyInv'
  BY <1>16 DEF PublishTunnelFailure
<1>17. ASSUME NEW f \in Flows, NewRequestContext(f) PROVE BodyInv'
  BY <1>17, ZenonT(60) DEF NewRequestContext
<1>18. ASSUME NEW f \in Flows, AcceptWebSocket(f) PROVE BodyInv'
  BY <1>18, ZenonT(60) DEF AcceptWebSocket
<1>19. ASSUME NEW f \in Flows, RejectTunnel(f) PROVE BodyInv'
  BY <1>19 DEF RejectTunnel
<1>20. ASSUME NEW f \in Flows, TunnelFails(f) PROVE BodyInv'
  BY <1>20 DEF TunnelFails
<1>21. ASSUME NEW f \in Flows, ForwardFrame(f) PROVE BodyInv'
  BY <1>21 DEF ForwardFrame
<1>22. ASSUME NEW f \in Flows, EndBody(f) PROVE BodyInv'
  <2>1. CASE finalized[f]
    BY <1>22, <2>1 DEF EndBody, Finalize
  <2>2. CASE ~finalized[f]
    BY <1>22, <2>2 DEF EndBody, Finalize
  <2> QED BY <1>22, <2>1, <2>2 DEF EndBody
<1>23. ASSUME NEW f \in Flows, DropBody(f) PROVE BodyInv'
  <2>1. CASE finalized[f]
    BY <1>23, <2>1 DEF DropBody, Finalize
  <2>2. CASE ~finalized[f]
    BY <1>23, <2>2 DEF DropBody, Finalize
  <2> QED BY <1>23, <2>1, <2>2 DEF DropBody
<1>24. ASSUME NEW f \in Flows, EndSse(f) PROVE BodyInv'
  BY <1>24 DEF EndSse
<1>25. ASSUME NEW f \in Flows, ClientLeaves(f) PROVE BodyInv'
  <2>1. CASE pc' = [pc EXCEPT ![f] = "cancelled"]
    BY <1>25, <2>1 DEF ClientLeaves, AwaitPoints, Detached
  <2> QED BY <1>25, <2>1 DEF ClientLeaves
<1>26. ASSUME InsertRow PROVE BodyInv'
  BY <1>26 DEF InsertRow
<1>27. ASSUME CloseDatabase PROVE BodyInv'
  BY <1>27 DEF CloseDatabase
<1>28. ASSUME ReceiveEvent PROVE BodyInv'
  BY <1>28 DEF ReceiveEvent
<1>29. ASSUME ReceiveOutboundJob PROVE BodyInv'
  BY <1>29 DEF ReceiveOutboundJob
<1>30. CASE UNCHANGED vars
  BY <1>30
<1> QED
  BY <1>1, <1>2, <1>3, <1>4, <1>5, <1>6, <1>7, <1>8, <1>9, <1>10, <1>11, <1>12, <1>13,
     <1>14, <1>15, <1>16, <1>17, <1>18, <1>19, <1>20, <1>21, <1>22, <1>23, <1>24,
     <1>25, <1>26, <1>27, <1>28, <1>29, <1>30
     DEF Next, SharedStep, TaskStep, PeerStep

\* Rows are queued by the two sends and taken out by the writer, and by nobody else.
LEMMA QueueActors ==
    ASSUME [Next]_vars
    PROVE  \/ UNCHANGED <<dbQueue, reqRow, resRow>>
           \/ InsertRow
           \/ \E f \in Flows : SendRequestRow(f) \/ SendResponseRow(f)
<1> SUFFICES ASSUME ~InsertRow, ~ \E f \in Flows : SendRequestRow(f) \/ SendResponseRow(f)
             PROVE  UNCHANGED <<dbQueue, reqRow, resRow>>
  OBVIOUS
<1>1. CASE SharedStep
  BY <1>1 DEF SharedStep, CloseDatabase, ReceiveEvent, ReceiveOutboundJob, dbVars
<1>2. ASSUME NEW f \in Flows, TaskStep(f) PROVE UNCHANGED <<dbQueue, reqRow, resRow>>
  BY <1>2 DEF TaskStep, DispatchRequestFilters, WriteFile, WriteFails, PublishRequest,
     BuildSyntheticResponse, ServeUpstream, DispatchSse, DispatchStreaming, DispatchCollected,
     PublishResponse, StartFinalize, WriteWebSocketFiles, CaptureTunnelFailure,
     PublishTunnelFailure, dbVars
<1>3. ASSUME NEW f \in Flows, PeerStep(f) PROVE UNCHANGED <<dbQueue, reqRow, resRow>>
  BY <1>3 DEF PeerStep, NewRequestContext, AcceptWebSocket, RejectTunnel, TunnelFails,
     ForwardFrame, EndBody, DropBody, EndSse, ClientLeaves, dbVars
<1>4. CASE UNCHANGED vars
  BY <1>4 DEF vars, dbVars
<1> QED BY <1>1, <1>2, <1>3, <1>4 DEF Next

\* Every step keeps the queue in agreement with the rows, and in order.
LEMMA QueueStep == IndInv /\ [Next]_vars => QueueInv'
<1> SUFFICES ASSUME IndInv, [Next]_vars PROVE QueueInv'
  OBVIOUS
<1>1. CASE UNCHANGED <<dbQueue, reqRow, resRow>>
  BY <1>1 DEF IndInv, QueueInv, QueueComplete, QueueSound, QueueOnce, QueueOrder, Places
<1>2. ASSUME NEW f \in Flows, SendRequestRow(f) PROVE QueueInv'
  <2>1. Row("req", f) \in RowKinds /\ dbQueue \in Seq(RowKinds)
    BY RowFacts DEF IndInv, TypeOK
  <2>2. /\ Len(dbQueue') = Len(dbQueue) + 1 /\ Len(dbQueue) \in Nat
        /\ dbQueue'[Len(dbQueue) + 1] = Row("req", f)
        /\ \A i \in 1..Len(dbQueue) : dbQueue'[i] = dbQueue[i]
    BY <1>2, <2>1, AppendFacts DEF SendRequestRow
  <2>3. reqRow[f] = "none" /\ resRow[f] = "none"
    BY <1>2 DEF SendRequestRow, IndInv, StageInv, BeforeRequestRow
  <2>4. reqRow'[f] = "queued" /\ (\A g \in Flows \ {f} : reqRow'[g] = reqRow[g]) /\ resRow' = resRow
    BY <1>2 DEF SendRequestRow, IndInv, TypeOK
  <2>5. \A i \in 1..Len(dbQueue) : dbQueue[i] \notin {Row("req", f), Row("res", f)}
    BY <2>3 DEF IndInv, QueueInv, QueueSound, Places
  <2>6. QueueComplete'
    BY <2>2, <2>4 DEF IndInv, QueueInv, QueueComplete, Places
  <2>7. QueueSound'
    BY <2>2, <2>4, <2>5, RowFacts DEF IndInv, QueueInv, QueueSound, Places
  <2>8. QueueOnce'
    BY <2>2, <2>5 DEF IndInv, QueueInv, QueueOnce, Places
  <2>9. QueueOrder'
    BY <2>2, <2>4, <2>5, RowFacts DEF IndInv, QueueInv, QueueOrder, Places
  <2> QED BY <2>6, <2>7, <2>8, <2>9 DEF QueueInv
<1>3. ASSUME NEW f \in Flows, SendResponseRow(f) PROVE QueueInv'
  <2>1. Row("res", f) \in RowKinds /\ dbQueue \in Seq(RowKinds)
    BY RowFacts DEF IndInv, TypeOK
  <2>2. /\ Len(dbQueue') = Len(dbQueue) + 1 /\ Len(dbQueue) \in Nat
        /\ dbQueue'[Len(dbQueue) + 1] = Row("res", f)
        /\ \A i \in 1..Len(dbQueue) : dbQueue'[i] = dbQueue[i]
    BY <1>3, <2>1, AppendFacts DEF SendResponseRow
  <2>3. resRow[f] = "none"
    BY <1>3 DEF SendResponseRow, IndInv, StageInv, Responding
  <2>4. resRow'[f] = "queued" /\ (\A g \in Flows \ {f} : resRow'[g] = resRow[g]) /\ reqRow' = reqRow
    BY <1>3 DEF SendResponseRow, IndInv, TypeOK
  <2>5. \A i \in 1..Len(dbQueue) : dbQueue[i] # Row("res", f)
    BY <2>3 DEF IndInv, QueueInv, QueueSound, Places
  <2>6. QueueComplete'
    BY <2>2, <2>4 DEF IndInv, QueueInv, QueueComplete, Places
  <2>7. QueueSound'
    BY <2>2, <2>4, <2>5, RowFacts DEF IndInv, QueueInv, QueueSound, Places
  <2>8. QueueOnce'
    BY <2>2, <2>5 DEF IndInv, QueueInv, QueueOnce, Places
  <2>9. QueueOrder'
    <3> SUFFICES ASSUME NEW g \in Flows, NEW i \in Places',
                        dbQueue'[i] = Row("res", g), reqRow'[g] = "queued"
                 PROVE  \E j \in 1..(i - 1) : dbQueue'[j] = Row("req", g)
      BY DEF QueueOrder
    <3>1. CASE i \in Places
      <4>1. PICK j \in 1..(i - 1) : dbQueue[j] = Row("req", g)
        BY <2>2, <2>4, <3>1 DEF IndInv, QueueInv, QueueOrder, Places
      <4> QED BY <2>2, <3>1, <4>1 DEF Places
    <3>2. CASE i \notin Places
      <4>1. PICK j \in Places : dbQueue[j] = Row("req", g)
        BY <2>4 DEF IndInv, QueueInv, QueueComplete
      <4> QED BY <2>2, <3>2, <4>1 DEF Places
    <3> QED BY <3>1, <3>2
  <2> QED BY <2>6, <2>7, <2>8, <2>9 DEF QueueInv
<1>4. CASE InsertRow
  <2>1. /\ Len(dbQueue') = Len(dbQueue) - 1 /\ Len(dbQueue) \in Nat \ {0}
        /\ \A i \in 1..(Len(dbQueue) - 1) : dbQueue'[i] = dbQueue[i + 1]
    BY <1>4, TailFacts DEF InsertRow, IndInv, TypeOK
  <2>2. \A row \in RowKinds, i \in Places : (dbQueue[i] = row /\ i # 1) =>
           i - 1 \in 1..Len(dbQueue') /\ dbQueue'[i - 1] = row
    BY <2>1 DEF Places
  <2>3. QueueOnce'
    BY <2>1 DEF IndInv, QueueInv, QueueOnce, Places
  <2>4. \A i \in 1..Len(dbQueue') : dbQueue'[i] # dbQueue[1]
    BY <2>1 DEF IndInv, QueueInv, QueueOnce, Places
  <2>5. PICK s \in {"stored", "lost"}, g \in Flows :
          \/ /\ dbQueue[1] = Row("req", g) /\ reqRow[g] = "queued"
             /\ reqRow' = [reqRow EXCEPT ![g] = s] /\ resRow' = resRow
          \/ /\ dbQueue[1] = Row("res", g) /\ resRow[g] = "queued"
             /\ reqRow[g] # "queued"
             /\ resRow' = [resRow EXCEPT ![g] = s] /\ reqRow' = reqRow
    BY <1>4, RowsSettled
  <2>6. QueueComplete'
    <3> SUFFICES ASSUME NEW h \in Flows
                 PROVE  /\ reqRow'[h] = "queued" => \E i \in Places' : dbQueue'[i] = Row("req", h)
                        /\ resRow'[h] = "queued" => \E i \in Places' : dbQueue'[i] = Row("res", h)
      BY DEF QueueComplete
    <3>1. ASSUME reqRow'[h] = "queued" PROVE \E i \in Places' : dbQueue'[i] = Row("req", h)
      <4>1. reqRow[h] = "queued" /\ dbQueue[1] # Row("req", h)
        BY <2>5, <3>1, RowFacts DEF IndInv, TypeOK
      <4>2. PICK i \in Places : dbQueue[i] = Row("req", h)
        BY <4>1 DEF IndInv, QueueInv, QueueComplete
      <4> QED BY <2>2, <4>1, <4>2, RowFacts DEF Places
    <3>2. ASSUME resRow'[h] = "queued" PROVE \E i \in Places' : dbQueue'[i] = Row("res", h)
      <4>1. resRow[h] = "queued" /\ dbQueue[1] # Row("res", h)
        BY <2>5, <3>2, RowFacts DEF IndInv, TypeOK
      <4>2. PICK i \in Places : dbQueue[i] = Row("res", h)
        BY <4>1 DEF IndInv, QueueInv, QueueComplete
      <4> QED BY <2>2, <4>1, <4>2, RowFacts DEF Places
    <3> QED BY <3>1, <3>2
  <2>7. QueueSound'
    <3> SUFFICES ASSUME NEW h \in Flows, NEW i \in Places'
                 PROVE  /\ dbQueue'[i] = Row("req", h) => reqRow'[h] = "queued"
                        /\ dbQueue'[i] = Row("res", h) => resRow'[h] = "queued"
      BY DEF QueueSound
    <3>1. i + 1 \in Places /\ dbQueue'[i] = dbQueue[i + 1] /\ dbQueue'[i] # dbQueue[1]
      BY <2>1, <2>4 DEF Places
    <3>2. /\ dbQueue'[i] = Row("req", h) => reqRow[h] = "queued"
          /\ dbQueue'[i] = Row("res", h) => resRow[h] = "queued"
      BY <3>1 DEF IndInv, QueueInv, QueueSound
    <3> QED BY <2>5, <3>1, <3>2, RowFacts DEF IndInv, TypeOK
  <2>8. QueueOrder'
    <3> SUFFICES ASSUME NEW h \in Flows, NEW i \in Places',
                        dbQueue'[i] = Row("res", h), reqRow'[h] = "queued"
                 PROVE  \E j \in 1..(i - 1) : dbQueue'[j] = Row("req", h)
      BY DEF QueueOrder
    <3>1. i + 1 \in Places /\ dbQueue[i + 1] = Row("res", h)
      BY <2>1 DEF Places
    <3>2. reqRow[h] = "queued" /\ dbQueue[1] # Row("req", h)
      BY <2>5, RowFacts DEF IndInv, TypeOK
    <3>3. PICK j \in 1..i : dbQueue[j] = Row("req", h)
      BY <2>1, <3>1, <3>2 DEF IndInv, QueueInv, QueueOrder, Places
    <3>4. j # 1 /\ j \in Places
      BY <2>1, <3>1, <3>2, <3>3 DEF Places
    <3> QED BY <2>2, <3>3, <3>4, RowFacts DEF Places
  <2> QED BY <2>3, <2>6, <2>7, <2>8 DEF QueueInv
<1> QED BY <1>1, <1>2, <1>3, <1>4, QueueActors

\* Every step keeps response rows from settling before the rows of their requests.
LEMMA OrderStep == IndInv /\ [Next]_vars => ResponseRowFollowsRequestRow'
<1> SUFFICES ASSUME IndInv, [Next]_vars PROVE ResponseRowFollowsRequestRow'
  OBVIOUS
<1> USE DEF IndInv, TypeOK, ResponseRowFollowsRequestRow
<1>1. CASE UNCHANGED <<dbQueue, reqRow, resRow>>
  BY <1>1
<1>2. ASSUME NEW f \in Flows, SendRequestRow(f) PROVE ResponseRowFollowsRequestRow'
  BY <1>2 DEF SendRequestRow, StageInv, BeforeRequestRow
<1>3. ASSUME NEW f \in Flows, SendResponseRow(f) PROVE ResponseRowFollowsRequestRow'
  BY <1>3 DEF SendResponseRow
<1>4. CASE InsertRow
  BY <1>4, RowsSettled DEF StageInv, RowStates
<1> QED BY <1>1, <1>2, <1>3, <1>4, QueueActors

\* Every step keeps the files of a stage and of a row on disk.
LEMMA FilesStep == IndInv /\ [Next]_vars => FilesInv'
<1> SUFFICES ASSUME IndInv, [Next]_vars PROVE FilesInv'
  OBVIOUS
<1> USE DEF IndInv, TypeOK, FilesInv, StageInv, vars, flowVars, streamVars, dbVars, eventVars, Goto, Answer,
       RequestWrites, ResponseWrites, RequestFiles, ResponseFiles, BeforeRequestRow
<1>1. ASSUME NEW f \in Flows, DispatchRequestFilters(f) PROVE FilesInv'
  BY <1>1 DEF DispatchRequestFilters
<1>2. ASSUME NEW f \in Flows, WriteFile(f) PROVE FilesInv'
  <2>1. files' = [files EXCEPT ![f] = files[f] \cup {FileOf[pc[f]]}]
    BY <1>2 DEF WriteFile
  <2>2. pc' = [pc EXCEPT ![f] = After[pc[f]]] /\ pc[f] \in RequestWrites \cup ResponseWrites
    BY <1>2 DEF WriteFile
  <2> QED BY <1>2, <2>1, <2>2 DEF WriteFile, FileOf, After
<1>3. ASSUME NEW f \in Flows, WriteFails(f) PROVE FilesInv'
  BY <1>3 DEF WriteFails
<1>4. ASSUME NEW f \in Flows, SendRequestRow(f) PROVE FilesInv'
  BY <1>4 DEF SendRequestRow
<1>5. ASSUME NEW f \in Flows, PublishRequest(f) PROVE FilesInv'
  <2>1. PICK s \in {"done", "synthetic", "upstream"} : pc' = [pc EXCEPT ![f] = s]
    BY <1>5 DEF PublishRequest
  <2> QED BY <1>5, <2>1 DEF PublishRequest
<1>6. ASSUME NEW f \in Flows, BuildSyntheticResponse(f) PROVE FilesInv'
  BY <1>6 DEF BuildSyntheticResponse
<1>7. ASSUME NEW f \in Flows, ServeUpstream(f) PROVE FilesInv'
  BY <1>7 DEF ServeUpstream
<1>8. ASSUME NEW f \in Flows, DispatchSse(f) PROVE FilesInv'
  BY <1>8 DEF DispatchSse
<1>9. ASSUME NEW f \in Flows, DispatchStreaming(f) PROVE FilesInv'
  BY <1>9 DEF DispatchStreaming
<1>10. ASSUME NEW f \in Flows, DispatchCollected(f) PROVE FilesInv'
  BY <1>10 DEF DispatchCollected
<1>11. ASSUME NEW f \in Flows, SendResponseRow(f) PROVE FilesInv'
  BY <1>11 DEF SendResponseRow
<1>12. ASSUME NEW f \in Flows, PublishResponse(f) PROVE FilesInv'
  <2>1. PICK s \in {"done", "sse"} : pc' = [pc EXCEPT ![f] = s]
    BY <1>12 DEF PublishResponse
  <2> QED BY <1>12, <2>1 DEF PublishResponse
<1>13. ASSUME NEW f \in Flows, StartFinalize(f) PROVE FilesInv'
  BY <1>13 DEF StartFinalize
<1>14. ASSUME NEW f \in Flows, WriteWebSocketFiles(f) PROVE FilesInv'
  <2>1. kind[f] = "ws"
    BY <1>14 DEF WriteWebSocketFiles
  <2>2. PICK s \in {"reqSend", "resSend"} : pc' = [pc EXCEPT ![f] = s]
    BY <1>14 DEF WriteWebSocketFiles
  <2>3. \A g \in Flows \ {f} : files'[g] = files[g]
    BY <1>14 DEF WriteWebSocketFiles
  <2> QED BY <1>14, <2>1, <2>2, <2>3 DEF WriteWebSocketFiles
<1>15. ASSUME NEW f \in Flows, CaptureTunnelFailure(f) PROVE FilesInv'
  <2>1. kind[f] = "tunnel"
    BY <1>15 DEF CaptureTunnelFailure
  <2>2. PICK s \in {"reqSend", "tunnelPublish"} : pc' = [pc EXCEPT ![f] = s]
    BY <1>15 DEF CaptureTunnelFailure
  <2>3. \A g \in Flows \ {f} : files'[g] = files[g]
    BY <1>15 DEF CaptureTunnelFailure
  <2> QED BY <1>15, <2>1, <2>2, <2>3 DEF CaptureTunnelFailure
<1>16. ASSUME NEW f \in Flows, PublishTunnelFailure(f) PROVE FilesInv'
  BY <1>16 DEF PublishTunnelFailure
<1>17. ASSUME NEW f \in Flows, NewRequestContext(f) PROVE FilesInv'
  BY <1>17 DEF NewRequestContext
<1>18. ASSUME NEW f \in Flows, AcceptWebSocket(f) PROVE FilesInv'
  BY <1>18 DEF AcceptWebSocket
<1>19. ASSUME NEW f \in Flows, RejectTunnel(f) PROVE FilesInv'
  BY <1>19 DEF RejectTunnel
<1>20. ASSUME NEW f \in Flows, TunnelFails(f) PROVE FilesInv'
  BY <1>20 DEF TunnelFails
<1>21. ASSUME NEW f \in Flows, ForwardFrame(f) PROVE FilesInv'
  BY <1>21 DEF ForwardFrame
<1>22. ASSUME NEW f \in Flows, EndBody(f) PROVE FilesInv'
  <2>1. pc' = pc \/ pc' = [pc EXCEPT ![f] = "finalize"]
    BY <1>22 DEF EndBody, Finalize
  <2> QED BY <1>22, <2>1 DEF EndBody
<1>23. ASSUME NEW f \in Flows, DropBody(f) PROVE FilesInv'
  <2>1. pc' = pc \/ pc' = [pc EXCEPT ![f] = "finalize"]
    BY <1>23 DEF DropBody, Finalize
  <2> QED BY <1>23, <2>1 DEF DropBody
<1>24. ASSUME NEW f \in Flows, EndSse(f) PROVE FilesInv'
  BY <1>24 DEF EndSse
<1>25. ASSUME NEW f \in Flows, ClientLeaves(f) PROVE FilesInv'
  <2>1. pc' = [pc EXCEPT ![f] = "cancelled"]
    BY <1>25 DEF ClientLeaves
  <2>2. \A g \in Flows : files[g] \subseteq files'[g]
    <3>1. CASE UNCHANGED files
      BY <3>1
    <3>2. CASE files' = [files EXCEPT ![f] = files[f] \cup {FileOf[pc[f]]}]
      BY <3>2
    <3> QED BY <1>25, <3>1, <3>2 DEF ClientLeaves
  <2> QED BY <1>25, <2>1, <2>2 DEF ClientLeaves
<1>26. ASSUME InsertRow PROVE FilesInv'
  BY <1>26, RowsKept DEF InsertRow
<1>27. ASSUME CloseDatabase PROVE FilesInv'
  BY <1>27 DEF CloseDatabase
<1>28. ASSUME ReceiveEvent PROVE FilesInv'
  BY <1>28 DEF ReceiveEvent
<1>29. ASSUME ReceiveOutboundJob PROVE FilesInv'
  BY <1>29 DEF ReceiveOutboundJob
<1>30. CASE UNCHANGED vars
  BY <1>30
<1> QED
  BY <1>1, <1>2, <1>3, <1>4, <1>5, <1>6, <1>7, <1>8, <1>9, <1>10, <1>11, <1>12, <1>13,
     <1>14, <1>15, <1>16, <1>17, <1>18, <1>19, <1>20, <1>21, <1>22, <1>23, <1>24,
     <1>25, <1>26, <1>27, <1>28, <1>29, <1>30
     DEF Next, SharedStep, TaskStep, PeerStep

\* Every step keeps the account of a streamed body.
LEMMA StreamStep == IndInv /\ [Next]_vars => StreamInv'
<1> SUFFICES ASSUME IndInv, [Next]_vars PROVE StreamInv'
  OBVIOUS
<1> USE DEF IndInv, TypeOK, StreamInv, StageInv, BodyInv, vars, flowVars, streamVars, dbVars, eventVars, Goto, Answer,
       RequestWrites, ResponseWrites, Responding, Responded
<1>1. ASSUME NEW f \in Flows, DispatchRequestFilters(f) PROVE StreamInv'
  BY <1>1 DEF DispatchRequestFilters
<1>2. ASSUME NEW f \in Flows, WriteFile(f) PROVE StreamInv'
  <2>1. CASE pc[f] \in RequestWrites
    <3>1. PICK s \in RequestWrites \cup {"reqSend"} : pc' = [pc EXCEPT ![f] = s]
      BY <1>2, <2>1, WriteStages DEF WriteFile
    <3> QED BY <1>2, <2>1, <3>1 DEF WriteFile
  <2>2. CASE pc[f] \in ResponseWrites
    <3>1. PICK s \in ResponseWrites \cup {"resSend"} : pc' = [pc EXCEPT ![f] = s]
      BY <1>2, <2>2, WriteStages DEF WriteFile
    <3> QED BY <1>2, <2>2, <3>1 DEF WriteFile
  <2> QED BY <1>2, <2>1, <2>2 DEF WriteFile
<1>3. ASSUME NEW f \in Flows, WriteFails(f) PROVE StreamInv'
  BY <1>3 DEF WriteFails
<1>4. ASSUME NEW f \in Flows, SendRequestRow(f) PROVE StreamInv'
  BY <1>4 DEF SendRequestRow
<1>5. ASSUME NEW f \in Flows, PublishRequest(f) PROVE StreamInv'
  <2>1. PICK s \in {"done", "synthetic", "upstream"} : pc' = [pc EXCEPT ![f] = s]
    BY <1>5 DEF PublishRequest
  <2> QED BY <1>5, <2>1 DEF PublishRequest
<1>6. ASSUME NEW f \in Flows, BuildSyntheticResponse(f) PROVE StreamInv'
  BY <1>6 DEF BuildSyntheticResponse
<1>7. ASSUME NEW f \in Flows, ServeUpstream(f) PROVE StreamInv'
  <2>1. body[f] = "none" /\ ~finalized[f]
    BY <1>7 DEF ServeUpstream
  <2>2. pc'[f] \in {"respond", "wsResponse"}
    BY <1>7 DEF ServeUpstream
  <2>3. \A g \in Flows \ {f} : pc'[g] = pc[g] /\ res'[g] = res[g]
    BY <1>7 DEF ServeUpstream
  <2> QED BY <1>7, <2>1, <2>2, <2>3 DEF ServeUpstream
<1>8. ASSUME NEW f \in Flows, DispatchSse(f) PROVE StreamInv'
  BY <1>8, ZenonT(60) DEF DispatchSse
<1>9. ASSUME NEW f \in Flows, DispatchStreaming(f) PROVE StreamInv'
  <2>1. res[f] \in Served /\ CaptureMode(res[f], Threshold) = "stream" /\ body[f] = "none"
    BY <1>9 DEF DispatchStreaming, Mode
  <2>2. /\ held'[f] = BufferedPrefix(res[f], Threshold)
        /\ left'[f] = res[f].size - BufferedPrefix(res[f], Threshold)
        /\ sent'[f] = 0 /\ res'[f] = res[f]
    BY <1>9, <2>1 DEF DispatchStreaming
  <2>3. sent'[f] + held'[f] + left'[f] = res'[f].size
    BY <2>1, <2>2, PrefixFits
  <2>4. \A g \in Flows \ {f} : /\ held'[g] = held[g] /\ left'[g] = left[g]
                                /\ body'[g] = body[g] /\ pc'[g] = pc[g]
    BY <1>9 DEF DispatchStreaming
  <2>5. body'[f] = "open" /\ pc'[f] = "streaming" /\ resRow[f] = "none" /\ ~finalized[f]
    BY <1>9, ZenonT(60) DEF DispatchStreaming
  <2> QED BY <1>9, <2>1, <2>3, <2>4, <2>5 DEF DispatchStreaming
<1>10. ASSUME NEW f \in Flows, DispatchCollected(f) PROVE StreamInv'
  BY <1>10, ZenonT(60) DEF DispatchCollected
<1>11. ASSUME NEW f \in Flows, SendResponseRow(f) PROVE StreamInv'
  BY <1>11 DEF SendResponseRow
<1>12. ASSUME NEW f \in Flows, PublishResponse(f) PROVE StreamInv'
  <2>1. PICK s \in {"done", "sse"} : pc' = [pc EXCEPT ![f] = s]
    BY <1>12 DEF PublishResponse
  <2> QED BY <1>12, <2>1 DEF PublishResponse
<1>13. ASSUME NEW f \in Flows, StartFinalize(f) PROVE StreamInv'
  BY <1>13 DEF StartFinalize
<1>14. ASSUME NEW f \in Flows, WriteWebSocketFiles(f) PROVE StreamInv'
  BY <1>14, ZenonT(60) DEF WriteWebSocketFiles
<1>15. ASSUME NEW f \in Flows, CaptureTunnelFailure(f) PROVE StreamInv'
  BY <1>15 DEF CaptureTunnelFailure
<1>16. ASSUME NEW f \in Flows, PublishTunnelFailure(f) PROVE StreamInv'
  BY <1>16 DEF PublishTunnelFailure
<1>17. ASSUME NEW f \in Flows, NewRequestContext(f) PROVE StreamInv'
  BY <1>17 DEF NewRequestContext
<1>18. ASSUME NEW f \in Flows, AcceptWebSocket(f) PROVE StreamInv'
  BY <1>18 DEF AcceptWebSocket
<1>19. ASSUME NEW f \in Flows, RejectTunnel(f) PROVE StreamInv'
  BY <1>19 DEF RejectTunnel
<1>20. ASSUME NEW f \in Flows, TunnelFails(f) PROVE StreamInv'
  BY <1>20 DEF TunnelFails
<1>21. ASSUME NEW f \in Flows, ForwardFrame(f) PROVE StreamInv'
  <2>1. sent'[f] + held'[f] + left'[f] = sent[f] + held[f] + left[f]
    BY <1>21 DEF ForwardFrame
  <2>2. \A g \in Flows \ {f} : sent'[g] = sent[g] /\ held'[g] = held[g] /\ left'[g] = left[g]
    BY <1>21 DEF ForwardFrame
  <2>3. body[f] = "open" /\ pc[f] = "streaming" /\ resRow[f] = "none" /\ ~finalized[f]
    BY <1>21 DEF ForwardFrame
  <2>4. UNCHANGED <<pc, res, body, finalized, interrupted, rowSize, resRow>>
    BY <1>21 DEF ForwardFrame
  <2>5. StreamInv
    OBVIOUS
  <2> DEFINE Account(g) ==
               /\ body[g] = "none" => sent[g] = 0
               /\ body[g] # "none" => res[g] \in Served
               /\ body[g] = "open" => sent[g] + held[g] + left[g] = res[g].size
               /\ finalized[g] /\ ~interrupted[g] => sent[g] = res[g].size /\ ~res[g].fails
               /\ body[g] # "none" /\ (resRow[g] # "none" \/
                      pc[g] \in ResponseWrites \cup {"resSend", "resPublish"}) => rowSize[g] = sent[g]
  <2>6. Account(f)'
    BY ONLY <2>1, <2>3, <2>4, <2>5, f \in Flows
  <2>7. ASSUME NEW g \in Flows \ {f} PROVE Account(g)'
    BY ONLY <2>2, <2>4, <2>5, g \in Flows \ {f}
  <2>8. \A g \in Flows : Account(g)'
    <3> HIDE DEF Account
    <3> QED BY ONLY <2>6, <2>7
  <2> QED BY ONLY <2>8
<1>22. ASSUME NEW f \in Flows, EndBody(f) PROVE StreamInv'
  <2>1. ~finalized[f] /\ resRow[f] = "none" /\ res[f] \in Served /\ pc[f] = "streaming"
    BY <1>22 DEF EndBody
  <2>2. /\ pc' = [pc EXCEPT ![f] = "finalize"]
        /\ finalized' = [finalized EXCEPT ![f] = TRUE]
        /\ interrupted' = [interrupted EXCEPT ![f] = res[f].fails]
    BY <1>22, <2>1 DEF EndBody, Finalize
  <2>3. sent[f] = res[f].size
    BY <1>22, <2>1, ConstantsAssumption DEF EndBody
  <2> QED BY <1>22, <2>1, <2>2, <2>3 DEF EndBody
<1>23. ASSUME NEW f \in Flows, DropBody(f) PROVE StreamInv'
  <2>1. CASE finalized[f]
    BY <1>23, <2>1 DEF DropBody, Finalize
  <2>2. CASE ~finalized[f]
    <3>1. /\ pc' = [pc EXCEPT ![f] = "finalize"]
          /\ finalized' = [finalized EXCEPT ![f] = TRUE]
          /\ interrupted' = [interrupted EXCEPT ![f] = TRUE]
      BY <1>23, <2>2 DEF DropBody, Finalize
    <3>2. resRow[f] = "none"
      BY <1>23, <2>2 DEF DropBody
    <3> QED BY <1>23, <3>1, <3>2 DEF DropBody
  <2> QED BY <2>1, <2>2
<1>24. ASSUME NEW f \in Flows, EndSse(f) PROVE StreamInv'
  BY <1>24 DEF EndSse
<1>25. ASSUME NEW f \in Flows, ClientLeaves(f) PROVE StreamInv'
  BY <1>25 DEF ClientLeaves
<1>26. ASSUME InsertRow PROVE StreamInv'
  BY <1>26, RowsKept DEF InsertRow
<1>27. ASSUME CloseDatabase PROVE StreamInv'
  BY <1>27 DEF CloseDatabase
<1>28. ASSUME ReceiveEvent PROVE StreamInv'
  BY <1>28 DEF ReceiveEvent
<1>29. ASSUME ReceiveOutboundJob PROVE StreamInv'
  BY <1>29 DEF ReceiveOutboundJob
<1>30. CASE UNCHANGED vars
  BY <1>30
<1> QED
  BY <1>1, <1>2, <1>3, <1>4, <1>5, <1>6, <1>7, <1>8, <1>9, <1>10, <1>11, <1>12, <1>13,
     <1>14, <1>15, <1>16, <1>17, <1>18, <1>19, <1>20, <1>21, <1>22, <1>23, <1>24,
     <1>25, <1>26, <1>27, <1>28, <1>29, <1>30
     DEF Next, SharedStep, TaskStep, PeerStep

\* Every step keeps upstream calls for requests the filters let through.
LEMMA VerdictStep == IndInv /\ [Next]_vars => VerdictInv'
<1> SUFFICES ASSUME IndInv, [Next]_vars PROVE VerdictInv'
  OBVIOUS
<1> USE DEF IndInv, TypeOK, VerdictInv, vars, flowVars, streamVars, dbVars, eventVars, Goto, Answer,
       RequestWrites, ResponseWrites
<1>1. ASSUME NEW f \in Flows, DispatchRequestFilters(f) PROVE VerdictInv'
  BY <1>1 DEF DispatchRequestFilters
<1>2. ASSUME NEW f \in Flows, WriteFile(f) PROVE VerdictInv'
  <2>1. PICK s \in RequestWrites \cup ResponseWrites \cup {"reqSend", "resSend"} :
          pc' = [pc EXCEPT ![f] = s]
    BY <1>2, WriteStages DEF WriteFile
  <2> QED BY <1>2, <2>1 DEF WriteFile
<1>3. ASSUME NEW f \in Flows, WriteFails(f) PROVE VerdictInv'
  BY <1>3 DEF WriteFails
<1>4. ASSUME NEW f \in Flows, SendRequestRow(f) PROVE VerdictInv'
  BY <1>4 DEF SendRequestRow
<1>5. ASSUME NEW f \in Flows, PublishRequest(f) PROVE VerdictInv'
  <2>1. CASE verdict[f] = "forward"
    BY <1>5, <2>1 DEF PublishRequest
  <2>2. CASE verdict[f] # "forward"
    <3>1. PICK s \in {"done", "synthetic"} : pc' = [pc EXCEPT ![f] = s]
      BY <1>5, <2>2 DEF PublishRequest
    <3> QED BY <1>5, <3>1 DEF PublishRequest
  <2> QED BY <2>1, <2>2
<1>6. ASSUME NEW f \in Flows, BuildSyntheticResponse(f) PROVE VerdictInv'
  BY <1>6 DEF BuildSyntheticResponse
<1>7. ASSUME NEW f \in Flows, ServeUpstream(f) PROVE VerdictInv'
  BY <1>7 DEF ServeUpstream
<1>8. ASSUME NEW f \in Flows, DispatchSse(f) PROVE VerdictInv'
  BY <1>8 DEF DispatchSse
<1>9. ASSUME NEW f \in Flows, DispatchStreaming(f) PROVE VerdictInv'
  BY <1>9 DEF DispatchStreaming
<1>10. ASSUME NEW f \in Flows, DispatchCollected(f) PROVE VerdictInv'
  BY <1>10 DEF DispatchCollected
<1>11. ASSUME NEW f \in Flows, SendResponseRow(f) PROVE VerdictInv'
  BY <1>11 DEF SendResponseRow
<1>12. ASSUME NEW f \in Flows, PublishResponse(f) PROVE VerdictInv'
  <2>1. PICK s \in {"done", "sse"} : pc' = [pc EXCEPT ![f] = s]
    BY <1>12 DEF PublishResponse
  <2> QED BY <1>12, <2>1 DEF PublishResponse
<1>13. ASSUME NEW f \in Flows, StartFinalize(f) PROVE VerdictInv'
  BY <1>13 DEF StartFinalize
<1>14. ASSUME NEW f \in Flows, WriteWebSocketFiles(f) PROVE VerdictInv'
  BY <1>14 DEF WriteWebSocketFiles
<1>15. ASSUME NEW f \in Flows, CaptureTunnelFailure(f) PROVE VerdictInv'
  BY <1>15 DEF CaptureTunnelFailure
<1>16. ASSUME NEW f \in Flows, PublishTunnelFailure(f) PROVE VerdictInv'
  BY <1>16 DEF PublishTunnelFailure
<1>17. ASSUME NEW f \in Flows, NewRequestContext(f) PROVE VerdictInv'
  BY <1>17 DEF NewRequestContext
<1>18. ASSUME NEW f \in Flows, AcceptWebSocket(f) PROVE VerdictInv'
  BY <1>18 DEF AcceptWebSocket
<1>19. ASSUME NEW f \in Flows, RejectTunnel(f) PROVE VerdictInv'
  BY <1>19 DEF RejectTunnel
<1>20. ASSUME NEW f \in Flows, TunnelFails(f) PROVE VerdictInv'
  BY <1>20 DEF TunnelFails
<1>21. ASSUME NEW f \in Flows, ForwardFrame(f) PROVE VerdictInv'
  BY <1>21 DEF ForwardFrame
<1>22. ASSUME NEW f \in Flows, EndBody(f) PROVE VerdictInv'
  <2>1. pc' = pc \/ pc' = [pc EXCEPT ![f] = "finalize"]
    BY <1>22 DEF EndBody, Finalize
  <2> QED BY <1>22, <2>1 DEF EndBody
<1>23. ASSUME NEW f \in Flows, DropBody(f) PROVE VerdictInv'
  <2>1. pc' = pc \/ pc' = [pc EXCEPT ![f] = "finalize"]
    BY <1>23 DEF DropBody, Finalize
  <2> QED BY <1>23, <2>1 DEF DropBody
<1>24. ASSUME NEW f \in Flows, EndSse(f) PROVE VerdictInv'
  BY <1>24 DEF EndSse
<1>25. ASSUME NEW f \in Flows, ClientLeaves(f) PROVE VerdictInv'
  BY <1>25 DEF ClientLeaves
<1>26. ASSUME InsertRow PROVE VerdictInv'
  BY <1>26 DEF InsertRow
<1>27. ASSUME CloseDatabase PROVE VerdictInv'
  BY <1>27 DEF CloseDatabase
<1>28. ASSUME ReceiveEvent PROVE VerdictInv'
  BY <1>28 DEF ReceiveEvent
<1>29. ASSUME ReceiveOutboundJob PROVE VerdictInv'
  BY <1>29 DEF ReceiveOutboundJob
<1>30. CASE UNCHANGED vars
  BY <1>30
<1> QED
  BY <1>1, <1>2, <1>3, <1>4, <1>5, <1>6, <1>7, <1>8, <1>9, <1>10, <1>11, <1>12, <1>13,
     <1>14, <1>15, <1>16, <1>17, <1>18, <1>19, <1>20, <1>21, <1>22, <1>23, <1>24,
     <1>25, <1>26, <1>27, <1>28, <1>29, <1>30
     DEF Next, SharedStep, TaskStep, PeerStep

\* Events are published at four points of a flow and taken out by the sink.
LEMMA EventActors ==
    ASSUME [Next]_vars
    PROVE  \/ UNCHANGED <<eventQueue, announced>>
           \/ ReceiveEvent
           \/ \E f \in Flows : \/ PublishRequest(f) \/ PublishResponse(f)
                               \/ RejectTunnel(f) \/ PublishTunnelFailure(f)
<1> SUFFICES ASSUME ~ReceiveEvent,
                    ~ \E f \in Flows : \/ PublishRequest(f) \/ PublishResponse(f)
                                       \/ RejectTunnel(f) \/ PublishTunnelFailure(f)
             PROVE  UNCHANGED <<eventQueue, announced>>
  OBVIOUS
<1>1. CASE SharedStep
  BY <1>1 DEF SharedStep, InsertRow, CloseDatabase, ReceiveOutboundJob, eventVars
<1>2. ASSUME NEW f \in Flows, TaskStep(f) PROVE UNCHANGED <<eventQueue, announced>>
  BY <1>2 DEF TaskStep, DispatchRequestFilters, WriteFile, WriteFails, SendRequestRow,
     BuildSyntheticResponse, ServeUpstream, DispatchSse, DispatchStreaming, DispatchCollected,
     SendResponseRow, StartFinalize, WriteWebSocketFiles, CaptureTunnelFailure, eventVars
<1>3. ASSUME NEW f \in Flows, PeerStep(f) PROVE UNCHANGED <<eventQueue, announced>>
  BY <1>3 DEF PeerStep, NewRequestContext, AcceptWebSocket, TunnelFails, ForwardFrame, EndBody,
     DropBody, EndSse, ClientLeaves, eventVars
<1>4. CASE UNCHANGED vars
  BY <1>4 DEF vars, eventVars
<1> QED BY <1>1, <1>2, <1>3, <1>4 DEF Next

\* A row that was sent is never taken back, whatever step follows.
LEMMA RowsStay ==
    ASSUME IndInv, [Next]_vars
    PROVE  \A f \in Flows : /\ reqRow[f] # "none" => reqRow'[f] # "none"
                            /\ resRow[f] # "none" => resRow'[f] # "none"
<1> USE DEF IndInv, TypeOK
<1>1. ASSUME NEW f \in Flows, SendRequestRow(f)
      PROVE  \A g \in Flows : /\ reqRow[g] # "none" => reqRow'[g] # "none"
                              /\ resRow[g] # "none" => resRow'[g] # "none"
  BY <1>1 DEF SendRequestRow
<1>2. ASSUME NEW f \in Flows, SendResponseRow(f)
      PROVE  \A g \in Flows : /\ reqRow[g] # "none" => reqRow'[g] # "none"
                              /\ resRow[g] # "none" => resRow'[g] # "none"
  BY <1>2 DEF SendResponseRow
<1> QED BY <1>1, <1>2, QueueActors, RowsKept

\* The sink has been told k of flow f, or the message is on its way.
Told(k, f) == k \in announced[f] \/ \E i \in 1..Len(eventQueue) : eventQueue[i] = Event(k, f)

\* What is told has its row.
ToldIsCaptured ==
    \A f \in Flows : /\ Told("started", f) => reqRow[f] # "none"
                     /\ Told("completed", f) => resRow[f] # "none"

\* An event is determined by what it says and of whom.
LEMMA EventFacts ==
    /\ \A k \in EventKinds, f \in Flows : Event(k, f) \in Events
    /\ \A e \in Events : e = Event(e.kind, e.flow) /\ e.kind \in EventKinds /\ e.flow \in Flows
    /\ \A k, l \in EventKinds, f, g \in Flows : Event(k, f) = Event(l, g) => k = l /\ f = g
BY DEF Event, Events

\* AnnouncedIsCaptured, one event at a time.
LEMMA AnnouncedPointwise == TypeOK => (AnnouncedIsCaptured <=> ToldIsCaptured)
<1> SUFFICES ASSUME TypeOK PROVE AnnouncedIsCaptured <=> ToldIsCaptured
  OBVIOUS
<1>1. \A i \in 1..Len(eventQueue) : eventQueue[i] \in Events
  BY DEF TypeOK
<1>2. ASSUME NEW f \in Flows, NEW k \in EventKinds
      PROVE  Told(k, f) <=>
               k \in {eventQueue[i].kind : i \in {j \in 1..Len(eventQueue) : eventQueue[j].flow = f}}
                       \cup announced[f]
  <2>1. \A i \in 1..Len(eventQueue) :
           eventQueue[i] = Event(k, f) <=> eventQueue[i].kind = k /\ eventQueue[i].flow = f
    BY <1>1, EventFacts DEF Event
  <2> QED BY <2>1 DEF Told
<1>3. "started" \in EventKinds /\ "completed" \in EventKinds
  BY DEF EventKinds
<1> QED BY <1>2, <1>3 DEF AnnouncedIsCaptured, ToldIsCaptured

\* What publishing an event does to the queue: nothing, or one event at its end.
LEMMA Published ==
    ASSUME TypeOK, NEW k \in EventKinds, NEW f \in Flows, Publish(k, f)
    PROVE  \/ eventQueue' = eventQueue
           \/ /\ Len(eventQueue) \in Nat /\ Len(eventQueue') = Len(eventQueue) + 1
              /\ eventQueue'[Len(eventQueue) + 1] = Event(k, f)
              /\ \A i \in 1..Len(eventQueue) : eventQueue'[i] = eventQueue[i]
BY AppendFacts, EventFacts DEF Publish, TypeOK

\* What the sink takes: the event at the head, which it then knows.
LEMMA Received ==
    ASSUME TypeOK, ReceiveEvent
    PROVE  /\ Len(eventQueue) \in Nat \ {0} /\ Len(eventQueue') = Len(eventQueue) - 1
           /\ \A i \in 1..(Len(eventQueue) - 1) : eventQueue'[i] = eventQueue[i + 1]
           /\ \E k \in EventKinds, f \in Flows :
                /\ eventQueue[1] = Event(k, f)
                /\ announced' = [announced EXCEPT ![f] = announced[f] \cup {k}]
<1>1. /\ Head(eventQueue) = eventQueue[1] /\ Head(eventQueue) \in Events
      /\ Len(eventQueue) \in Nat \ {0} /\ Len(eventQueue') = Len(eventQueue) - 1
      /\ \A i \in 1..(Len(eventQueue) - 1) : eventQueue'[i] = eventQueue[i + 1]
  BY TailFacts DEF ReceiveEvent, TypeOK
<1>2. /\ eventQueue[1] = Event(Head(eventQueue).kind, Head(eventQueue).flow)
      /\ Head(eventQueue).kind \in EventKinds /\ Head(eventQueue).flow \in Flows
  BY <1>1, EventFacts
<1>3. announced' = [announced EXCEPT ![Head(eventQueue).flow] =
                       announced[Head(eventQueue).flow] \cup {Head(eventQueue).kind}]
  BY DEF ReceiveEvent
<1> QED BY <1>1, <1>2, <1>3

\* A publication tells its own event at most; the sink learns nothing that was
\* not on its way.
LEMMA ToldSteps ==
    ASSUME TypeOK, NEW g \in Flows, NEW l \in EventKinds, Told(l, g)'
    PROVE  /\ ReceiveEvent => Told(l, g)
           /\ \A k \in EventKinds, f \in Flows :
                Publish(k, f) /\ UNCHANGED announced => Told(l, g) \/ (k = l /\ f = g)
<1>1. ASSUME ReceiveEvent PROVE Told(l, g)
  <2>1. PICK k \in EventKinds, f \in Flows :
           /\ eventQueue[1] = Event(k, f)
           /\ announced' = [announced EXCEPT ![f] = announced[f] \cup {k}]
    BY <1>1, Received
  <2>2. 1 \in 1..Len(eventQueue)
    BY <1>1, Received
  <2>3. CASE l \in announced'[g]
    BY <2>1, <2>2, <2>3 DEF Told, TypeOK
  <2>4. CASE \E i \in 1..Len(eventQueue') : eventQueue'[i] = Event(l, g)
    <3>1. PICK i \in 1..Len(eventQueue') : eventQueue'[i] = Event(l, g)
      BY <2>4
    <3>2. i + 1 \in 1..Len(eventQueue) /\ eventQueue[i + 1] = Event(l, g)
      BY <1>1, <3>1, Received
    <3> QED BY <3>2 DEF Told
  <2> QED BY <2>3, <2>4 DEF Told
<1>2. ASSUME NEW k \in EventKinds, NEW f \in Flows, Publish(k, f), UNCHANGED announced
      PROVE  Told(l, g) \/ (k = l /\ f = g)
  <2>1. CASE eventQueue' = eventQueue
    BY <1>2, <2>1 DEF Told
  <2>2. CASE eventQueue' # eventQueue
    <3>1. /\ Len(eventQueue) \in Nat /\ Len(eventQueue') = Len(eventQueue) + 1
          /\ eventQueue'[Len(eventQueue) + 1] = Event(k, f)
          /\ \A i \in 1..Len(eventQueue) : eventQueue'[i] = eventQueue[i]
      BY <1>2, <2>2, Published
    <3>2. CASE l \in announced'[g]
      BY <1>2, <3>2 DEF Told
    <3>3. CASE \E i \in 1..Len(eventQueue') : eventQueue'[i] = Event(l, g)
      <4>1. PICK i \in 1..Len(eventQueue') : eventQueue'[i] = Event(l, g)
        BY <3>3
      <4>2. CASE i \in 1..Len(eventQueue)
        BY <3>1, <4>1, <4>2 DEF Told
      <4>3. CASE i = Len(eventQueue) + 1
        BY <1>2, <3>1, <4>1, <4>3, EventFacts
      <4> QED BY <3>1, <4>1, <4>2, <4>3
    <3> QED BY <3>2, <3>3 DEF Told
  <2> QED BY <2>1, <2>2
<1> QED BY <1>1, <1>2

\* Every step announces only what is captured.
LEMMA AnnouncedStep == IndInv /\ [Next]_vars => AnnouncedIsCaptured'
<1> SUFFICES ASSUME IndInv, [Next]_vars PROVE AnnouncedIsCaptured'
  OBVIOUS
<1> USE DEF EventKinds
<1>1. TypeOK /\ TypeOK'
  BY TypeStep DEF IndInv
<1>2. \A f \in Flows : /\ Told("started", f) => reqRow[f] # "none"
                       /\ Told("completed", f) => resRow[f] # "none"
  BY <1>1, AnnouncedPointwise DEF IndInv, ToldIsCaptured
<1>8. ToldIsCaptured' => AnnouncedIsCaptured'
  BY <1>1, AnnouncedPointwise, PTL
<1> SUFFICES ASSUME NEW g \in Flows
             PROVE  /\ Told("started", g)' => reqRow'[g] # "none"
                    /\ Told("completed", g)' => resRow'[g] # "none"
  BY <1>8 DEF ToldIsCaptured
<1>3. CASE UNCHANGED <<eventQueue, announced>>
  BY <1>2, <1>3, RowsStay DEF Told
<1>4. CASE ReceiveEvent
  BY <1>1, <1>2, <1>4, ToldSteps, RowsStay
<1>5. ASSUME NEW f \in Flows, PublishRequest(f)
      PROVE  /\ Told("started", g)' => reqRow'[g] # "none"
             /\ Told("completed", g)' => resRow'[g] # "none"
  <2>1. Publish("started", f) /\ UNCHANGED announced /\ reqRow[f] # "none"
    BY <1>5 DEF PublishRequest, IndInv, StageInv, Responding
  <2> QED BY <1>1, <1>2, <2>1, ToldSteps, RowsStay
<1>6. ASSUME NEW f \in Flows, PublishResponse(f)
      PROVE  /\ Told("started", g)' => reqRow'[g] # "none"
             /\ Told("completed", g)' => resRow'[g] # "none"
  <2>1. Publish("completed", f) /\ UNCHANGED announced /\ resRow[f] # "none"
    BY <1>6 DEF PublishResponse, IndInv, StageInv
  <2> QED BY <1>1, <1>2, <2>1, ToldSteps, RowsStay
<1>7. ASSUME NEW f \in Flows, RejectTunnel(f) \/ PublishTunnelFailure(f)
      PROVE  /\ Told("started", g)' => reqRow'[g] # "none"
             /\ Told("completed", g)' => resRow'[g] # "none"
  <2>1. Publish("tunnel", f) /\ UNCHANGED announced
    BY <1>7 DEF RejectTunnel, PublishTunnelFailure
  <2> QED BY <1>1, <1>2, <2>1, ToldSteps, RowsStay
<1> QED BY <1>3, <1>4, <1>5, <1>6, <1>7, EventActors

\* Every step keeps the start of a flow from being told after its completion.
LEMMA LastStep == IndInv /\ [Next]_vars => CompletedIsLast'
<1> SUFFICES ASSUME IndInv, [Next]_vars,
                    NEW g \in Flows, NEW j \in 1..Len(eventQueue'),
                    eventQueue'[j] = Event("started", g)
             PROVE  /\ "completed" \notin announced'[g]
                    /\ \A i \in 1..(j - 1) : eventQueue'[i] # Event("completed", g)
  BY DEF CompletedIsLast
<1> USE DEF EventKinds
<1>1. TypeOK /\ CompletedIsLast
  BY DEF IndInv
<1>2. CASE UNCHANGED <<eventQueue, announced>>
  BY <1>1, <1>2 DEF CompletedIsLast
<1>3. CASE ReceiveEvent
  <2>1. j \in Nat /\ j + 1 \in 1..Len(eventQueue) /\ eventQueue[j + 1] = Event("started", g)
    BY <1>1, <1>3, Received
  <2>2. /\ "completed" \notin announced[g]
        /\ \A i \in 1..j : eventQueue[i] # Event("completed", g)
    BY <1>1, <2>1 DEF CompletedIsLast
  <2>3. eventQueue[1] # Event("completed", g)
    BY <2>1, <2>2
  <2>4. "completed" \notin announced'[g]
    <3>1. PICK k \in EventKinds, f \in Flows :
             /\ eventQueue[1] = Event(k, f)
             /\ announced' = [announced EXCEPT ![f] = announced[f] \cup {k}]
      BY <1>1, <1>3, Received
    <3>2. ~(k = "completed" /\ f = g)
      BY <2>3, <3>1
    <3> QED BY <1>1, <2>2, <3>1, <3>2 DEF TypeOK
  <2>5. \A i \in 1..(j - 1) : i + 1 \in 1..j /\ eventQueue'[i] = eventQueue[i + 1]
    BY <1>1, <1>3, <2>1, Received
  <2> QED BY <2>2, <2>4, <2>5
<1>4. ASSUME NEW k \in EventKinds, NEW f \in Flows, Publish(k, f), UNCHANGED announced,
             k = "started" => ~Told("completed", f)
      PROVE  /\ "completed" \notin announced'[g]
             /\ \A i \in 1..(j - 1) : eventQueue'[i] # Event("completed", g)
  <2>1. CASE eventQueue' = eventQueue
    BY <1>1, <1>4, <2>1 DEF CompletedIsLast
  <2>2. CASE eventQueue' # eventQueue
    <3>1. /\ Len(eventQueue) \in Nat /\ Len(eventQueue') = Len(eventQueue) + 1
          /\ eventQueue'[Len(eventQueue) + 1] = Event(k, f)
          /\ \A i \in 1..Len(eventQueue) : eventQueue'[i] = eventQueue[i]
      BY <1>1, <1>4, <2>2, Published
    <3>2. CASE j \in 1..Len(eventQueue)
      <4>1. /\ "completed" \notin announced[g]
            /\ \A i \in 1..(j - 1) : eventQueue[i] # Event("completed", g)
        BY <1>1, <3>1, <3>2 DEF CompletedIsLast
      <4>2. \A i \in 1..(j - 1) : eventQueue'[i] = eventQueue[i]
        BY <3>1, <3>2
      <4> QED BY <1>4, <4>1, <4>2
    <3>3. CASE j = Len(eventQueue) + 1
      <4>1. k = "started" /\ f = g
        BY <3>1, <3>3, EventFacts
      <4>2. ~Told("completed", g)
        BY <1>4, <4>1
      <4> QED BY <1>4, <3>1, <3>3, <4>2 DEF Told
    <3> QED BY <3>1, <3>2, <3>3
  <2> QED BY <2>1, <2>2
<1>5. ASSUME NEW f \in Flows, PublishRequest(f)
      PROVE  Publish("started", f) /\ UNCHANGED announced /\ ~Told("completed", f)
  <2>1. resRow[f] = "none"
    BY <1>5 DEF PublishRequest, IndInv, StageInv, Responding
  <2>2. Told("completed", f) => resRow[f] # "none"
    BY <1>1, AnnouncedPointwise DEF IndInv, ToldIsCaptured
  <2> QED BY <1>5, <2>1, <2>2 DEF PublishRequest
<1>6. ASSUME NEW f \in Flows, PublishResponse(f)
      PROVE  Publish("completed", f) /\ UNCHANGED announced
  BY <1>6 DEF PublishResponse
<1>7. ASSUME NEW f \in Flows, RejectTunnel(f) \/ PublishTunnelFailure(f)
      PROVE  Publish("tunnel", f) /\ UNCHANGED announced
  BY <1>7 DEF RejectTunnel, PublishTunnelFailure
<1> QED BY <1>2, <1>3, <1>4, <1>5, <1>6, <1>7, EventActors

\* Every step of the system, and every stuttering step, preserves the invariant.
LEMMA IndInvStep == IndInv /\ [Next]_vars => IndInv'
BY TypeStep, StageStep, BodyStep, QueueStep, OrderStep, FilesStep, StreamStep, VerdictStep,
   AnnouncedStep, LastStep DEF IndInv

\* The inductive invariant holds in every reachable state, for any set of flows,
\* any responses, any streaming threshold and any channel capacities.
THEOREM Invariance == Spec => []IndInv
BY InitInv, IndInvStep, PTL DEF Spec

\* Type correctness; in particular the dispatcher never computes a negative
\* number of bytes left when the probe hands its prefix back.
THEOREM TypeCorrect == Spec => []TypeOK
<1>1. IndInv => TypeOK
  BY DEF IndInv
<1> QED BY Invariance, <1>1, PTL

\* No response row settles while the row of its request waits: the writer task
\* inserts what commit_request and commit_response send in the order it was sent.
THEOREM RowOrder == Spec => []ResponseRowFollowsRequestRow
<1>1. IndInv => ResponseRowFollowsRequestRow
  BY DEF IndInv
<1> QED BY Invariance, <1>1, PTL

\* The writer's queue holds exactly the rows that are waiting, each of them
\* once: no flow records a second request or response, however its body ends.
THEOREM RowsOnce == Spec => []RowsQueuedOnce
<1>1. IndInv => RowsQueuedOnce
  BY DEF IndInv, QueueInv, QueueComplete, QueueSound, QueueOnce, Places, RowsQueuedOnce
<1> QED BY Invariance, <1>1, PTL

\* The files a row names are on disk, for every flow: commit_request and
\* commit_response send a row only after the last of its files is written,
\* whichever writes fail and whenever the client leaves.
THEOREM RowFiles == Spec => []RowsNameExistingFiles
<1>1. IndInv => RowsNameExistingFiles
  BY DEF IndInv, FilesInv, RowsNameExistingFiles
<1> QED BY Invariance, <1>1, PTL

\* The row of a streamed response tells the truth about it: its size is what the
\* client was sent, and "not interrupted" means all of what upstream had.
THEOREM StreamTruth == Spec => []StreamRowTruthful
<1>1. IndInv => StreamRowTruthful
  <2> SUFFICES ASSUME IndInv, NEW f \in Flows, body[f] # "none", resRow[f] # "none"
               PROVE  /\ rowSize[f] = sent[f]
                      /\ ~interrupted[f] => (sent[f] = res[f].size /\ ~res[f].fails)
    BY DEF StreamRowTruthful
  <2>1. pc[f] # "streaming"
    BY DEF IndInv, StageInv, Responding
  <2>2. finalized[f]
    BY <2>1 DEF IndInv, BodyInv, TypeOK
  <2> QED BY <2>2 DEF IndInv, StreamInv
<1> QED BY Invariance, <1>1, PTL

\* An event on its way to the sink, or arrived, has its row behind it.
THEOREM EventsCaptured == Spec => []AnnouncedIsCaptured
<1>1. IndInv => AnnouncedIsCaptured
  BY DEF IndInv
<1> QED BY Invariance, <1>1, PTL

\* No sink is told of a flow's start after its completion, although both events
\* go through one bounded channel that drops what does not fit.
THEOREM CompletionLast == Spec => []CompletedIsLast
<1>1. IndInv => CompletedIsLast
  BY DEF IndInv
<1> QED BY Invariance, <1>1, PTL

\* Upstream sees only requests that are on record and that the request filters
\* let through: it is never called for a dropped or a synthetic one.
THEOREM UpstreamGuarded == Spec => UpstreamOnlyAfterCapture
<1>1. IndInv => \A f \in Flows : pc[f] = "upstream" => reqRow[f] # "none" /\ verdict[f] = "forward"
  BY DEF IndInv, StageInv, VerdictInv, Responding
<1>2. IndInv => [\A f \in Flows : (pc[f] = "upstream" /\ pc'[f] \in {"respond", "wsResponse"}) =>
           reqRow[f] # "none" /\ verdict[f] = "forward"]_vars
  BY <1>1
<1> QED BY Invariance, <1>2, PTL DEF UpstreamOnlyAfterCapture

-----------------------------------------------------------------------------
(* The dispatcher implements the capture ledger.                           *)

\* A client is answered at most once, and only when what the ledger demands of
\* that answer is on record.
LEMMA ReplyActors ==
    ASSUME IndInv, [Next]_vars
    PROVE  \/ UNCHANGED reply
           \/ \E f \in Flows, r \in Ledger!Replies :
                 /\ reply[f] = "none" /\ Ledger!MayReply(f, r)
                 /\ reply' = [reply EXCEPT ![f] = r] /\ UNCHANGED <<reqRow, resRow>>
<1> DEFINE Answered == \E f \in Flows, r \in Ledger!Replies :
                 /\ reply[f] = "none" /\ Ledger!MayReply(f, r)
                 /\ reply' = [reply EXCEPT ![f] = r] /\ UNCHANGED <<reqRow, resRow>>
<1> USE DEF IndInv, StageInv, BodyInv, Ledger!Replies, Ledger!MayReply, dbVars, Answer,
            RequestWrites, ResponseWrites, Responding
<1>1. ASSUME NEW f \in Flows, NewRequestContext(f) PROVE UNCHANGED reply \/ Answered
  BY <1>1 DEF NewRequestContext
<1>2. ASSUME NEW f \in Flows, AcceptWebSocket(f) PROVE UNCHANGED reply \/ Answered
  BY <1>2 DEF AcceptWebSocket
<1>3. ASSUME NEW f \in Flows, RejectTunnel(f) PROVE UNCHANGED reply \/ Answered
  BY <1>3 DEF RejectTunnel
<1>4. ASSUME NEW f \in Flows, WriteFails(f) PROVE UNCHANGED reply \/ Answered
  BY <1>4 DEF WriteFails
<1>5. ASSUME NEW f \in Flows, PublishRequest(f) PROVE UNCHANGED reply \/ Answered
  <2>1. reqRow[f] # "none" /\ reply[f] = "none" /\ UNCHANGED <<reqRow, resRow>>
    BY <1>5 DEF PublishRequest
  <2>2. UNCHANGED reply \/ reply' = [reply EXCEPT ![f] = "dropped"]
    BY <1>5 DEF PublishRequest, TypeOK
  <2> QED BY <2>1, <2>2
<1>6. ASSUME NEW f \in Flows, DispatchStreaming(f) PROVE UNCHANGED reply \/ Answered
  BY <1>6 DEF DispatchStreaming
<1>7. ASSUME NEW f \in Flows, PublishResponse(f) PROVE UNCHANGED reply \/ Answered
  <2>1. reqRow[f] # "none" /\ resRow[f] # "none" /\ UNCHANGED <<reqRow, resRow>>
    BY <1>7 DEF PublishResponse
  <2>2. CASE body[f] # "none"
    BY <1>7, <2>2 DEF PublishResponse
  <2>3. CASE body[f] = "none"
    <3>1. reply[f] = "none"
      BY <1>7, <2>3 DEF PublishResponse
    <3>2. \E r \in {"sse", "upgraded", "dropped", "buffered"} : reply' = [reply EXCEPT ![f] = r]
      BY <1>7, <2>3 DEF PublishResponse
    <3> QED BY <2>1, <3>1, <3>2
  <2> QED BY <2>2, <2>3
<1>8. CASE SharedStep
  BY <1>8 DEF SharedStep, InsertRow, CloseDatabase, ReceiveEvent, ReceiveOutboundJob
<1>9. ASSUME NEW f \in Flows, TaskStep(f) PROVE UNCHANGED reply \/ Answered
  BY <1>4, <1>5, <1>6, <1>7, <1>9 DEF TaskStep, DispatchRequestFilters, WriteFile, SendRequestRow,
     BuildSyntheticResponse, ServeUpstream, DispatchSse, DispatchCollected, SendResponseRow,
     StartFinalize, WriteWebSocketFiles, CaptureTunnelFailure, PublishTunnelFailure
<1>10. ASSUME NEW f \in Flows, PeerStep(f) PROVE UNCHANGED reply \/ Answered
  BY <1>1, <1>2, <1>3, <1>10 DEF PeerStep, TunnelFails, ForwardFrame, EndBody, DropBody,
     EndSse, ClientLeaves
<1>11. CASE UNCHANGED vars
  BY <1>11 DEF vars
<1> QED BY <1>8, <1>9, <1>10, <1>11 DEF Next

\* Every step of a flow, a peer or the writer is a step of the ledger or none.
LEMMA LedgerStep == IndInv /\ [Next]_vars => [Ledger!Next]_(Ledger!vars)
<1> SUFFICES ASSUME IndInv, [Next]_vars, ~UNCHANGED Ledger!vars PROVE Ledger!Next
  OBVIOUS
<1> USE DEF IndInv, TypeOK
<1>1. CASE UNCHANGED <<dbQueue, reqRow, resRow>>
  <2>1. PICK f \in Flows, r \in Ledger!Replies :
          /\ reply[f] = "none" /\ Ledger!MayReply(f, r)
          /\ reply' = [reply EXCEPT ![f] = r] /\ UNCHANGED <<reqRow, resRow>>
    BY <1>1, ReplyActors DEF Ledger!vars
  <2> QED BY <2>1 DEF Ledger!Next, Ledger!Reply
<1>2. ASSUME NEW f \in Flows, SendRequestRow(f) PROVE Ledger!QueueRequest(f)
  BY <1>2 DEF SendRequestRow, StageInv, BeforeRequestRow, Ledger!QueueRequest
<1>3. ASSUME NEW f \in Flows, SendResponseRow(f) PROVE Ledger!QueueResponse(f)
  BY <1>3 DEF SendResponseRow, StageInv, Responding, Ledger!QueueResponse
<1>4. CASE InsertRow
  <2>1. UNCHANGED reply
    BY <1>4 DEF InsertRow
  <2>2. PICK s \in {"stored", "lost"}, g \in Flows :
          \/ /\ dbQueue[1] = Row("req", g) /\ reqRow[g] = "queued"
             /\ reqRow' = [reqRow EXCEPT ![g] = s] /\ resRow' = resRow
          \/ /\ dbQueue[1] = Row("res", g) /\ resRow[g] = "queued"
             /\ reqRow[g] # "queued"
             /\ resRow' = [resRow EXCEPT ![g] = s] /\ reqRow' = reqRow
    BY <1>4, RowsSettled
  <2>3. resRow[g] = "queued" /\ reqRow[g] # "queued" => reqRow[g] \in {"stored", "lost"}
    BY DEF StageInv, RowStates
  <2>4. Ledger!SettleRequest(g) \/ Ledger!SettleResponse(g)
    BY <2>1, <2>2, <2>3 DEF Ledger!SettleRequest, Ledger!SettleResponse, Ledger!Settled
  <2> QED BY <2>4 DEF Ledger!Next
<1> QED BY <1>1, <1>2, <1>3, <1>4, QueueActors DEF Ledger!Next

\* What the capture promises of every flow holds whatever the others do: the
\* dispatcher, its tasks and the writer implement CaptureLedger.
THEOREM ImplementsLedger == Spec => LedgerSpec
<1>1. Init => Ledger!Init
  BY DEF Init, Ledger!Init
<1> QED BY <1>1, Invariance, LedgerStep, PTL DEF Spec, LedgerSpec, Ledger!Spec
=============================================================================
