---------------------------- MODULE CaptureLedger ----------------------------
(***************************************************************************)
(* What the capture promises about one flow, whatever happens to the       *)
(* others: which metadata rows exist, in which order they came to exist,   *)
(* and what the client may have been told by then.                         *)
(*                                                                         *)
(*   request[f], response[f]  "none", "queued" for the database writer,    *)
(*                            "stored", or "lost" (the insert failed);     *)
(*   reply[f]                 "none", or the one answer the client got.    *)
(***************************************************************************)
EXTENDS Naturals

CONSTANT Flows

VARIABLES request, response, reply

vars == <<request, response, reply>>

RowStates == {"none", "queued", "stored", "lost"}
Settled   == {"stored", "lost"}

\* "buffered", "sse", "upgraded": a whole body, an event stream, a WebSocket
\* upgrade; "stream": a large body being forwarded; "dropped": the empty 444;
\* "error", "bad", "rejected": 500, 400 and a refused CONNECT.
Replies == {"buffered", "sse", "upgraded", "stream", "dropped", "error", "bad", "rejected"}

Init ==
    /\ request  = [f \in Flows |-> "none"]
    /\ response = [f \in Flows |-> "none"]
    /\ reply    = [f \in Flows |-> "none"]

QueueRequest(f) ==
    /\ request[f] = "none"
    /\ request' = [request EXCEPT ![f] = "queued"]
    /\ UNCHANGED <<response, reply>>

SettleRequest(f) ==
    /\ request[f] = "queued"
    /\ \E s \in Settled : request' = [request EXCEPT ![f] = s]
    /\ UNCHANGED <<response, reply>>

\* A response is recorded once, and only for a request that was recorded.
QueueResponse(f) ==
    /\ request[f] # "none"
    /\ response[f] = "none"
    /\ response' = [response EXCEPT ![f] = "queued"]
    /\ UNCHANGED <<request, reply>>

\* The response row is written after the request row is written or given up.
SettleResponse(f) ==
    /\ request[f] \in Settled
    /\ response[f] = "queued"
    /\ \E s \in Settled : response' = [response EXCEPT ![f] = s]
    /\ UNCHANGED <<request, reply>>

\* What must be on record before the client may see each kind of answer.
MayReply(f, r) ==
    CASE r \in {"buffered", "sse", "upgraded"} -> response[f] # "none"
      [] r \in {"stream", "dropped"}           -> request[f] # "none"
      [] OTHER                                 -> TRUE

Reply(f) ==
    /\ reply[f] = "none"
    /\ \E r \in Replies : MayReply(f, r) /\ reply' = [reply EXCEPT ![f] = r]
    /\ UNCHANGED <<request, response>>

Next ==
    \E f \in Flows :
        \/ QueueRequest(f)
        \/ SettleRequest(f)
        \/ QueueResponse(f)
        \/ SettleResponse(f)
        \/ Reply(f)

Spec == Init /\ [][Next]_vars
=============================================================================
