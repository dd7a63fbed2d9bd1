--------------------------- MODULE MC_SseCapture ---------------------------
(* Instances of SseCapture for TLC. *)
EXTENDS SseCapture
=============================================================================
