----------------------------- MODULE BodyPolicy -----------------------------
(***************************************************************************)
(* How the dispatcher decides what happens to a response body:            *)
(* dispatcher.rs, response_body_mode and probe_response_body.              *)
(*                                                                         *)
(* A response is what the decision reads of it: whether its content type   *)
(* is text/event-stream, whether the method or the status rules a body     *)
(* out, its declared Content-Length (or Unknown), whether its headers say  *)
(* compressed or binary-like, how many bytes upstream really sends, and    *)
(* whether the body ends with an error instead of an end of stream.        *)
(***************************************************************************)
EXTENDS Naturals

CONSTANT Unknown    \* no usable Content-Length header

Responses(Sizes) ==
    [sse : BOOLEAN, bodyless : BOOLEAN, length : Sizes \cup {Unknown},
     opaque : BOOLEAN, size : Sizes, fails : BOOLEAN]

(***************************************************************************)
(* response_body_mode: the checks in their order.  A threshold of 0 turns  *)
(* streaming off; a declared length settles the matter; only a response    *)
(* of unknown length that looks compressed or binary is probed.            *)
(***************************************************************************)
ResponseBodyMode(r, threshold) ==
    IF threshold = 0 \/ r.bodyless THEN "Collect"
    ELSE IF r.length # Unknown
         THEN IF r.length > threshold THEN "Stream" ELSE "Collect"
         ELSE IF r.opaque THEN "Probe" ELSE "Collect"

(***************************************************************************)
(* probe_response_body: the body is buffered frame by frame and switches   *)
(* to streaming with the first byte past the threshold.  A body that ends  *)
(* or fails before that is handed on as collected.                         *)
(***************************************************************************)
ProbeStreams(r, threshold) == r.size > threshold

\* The bytes the probe has buffered when it gives up collecting: frames are
\* single bytes here, so exactly one more than the threshold.
ProbePrefix(threshold) == threshold + 1

\* The path the response takes: text/event-stream is tested before anything else.
CaptureMode(r, threshold) ==
    LET mode == ResponseBodyMode(r, threshold) IN
    IF r.sse THEN "sse"
    ELSE IF mode = "Stream" \/ (mode = "Probe" /\ ProbeStreams(r, threshold))
         THEN "stream" ELSE "collect"

\* Bytes already buffered when a streamed response starts being forwarded.
BufferedPrefix(r, threshold) ==
    IF ResponseBodyMode(r, threshold) = "Probe" THEN ProbePrefix(threshold) ELSE 0
=============================================================================
