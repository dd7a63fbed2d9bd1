----------------------------- MODULE SseCapture -----------------------------
(***************************************************************************)
(* The capture of an event stream (sse_capture.rs) while the body is       *)
(* forwarded frame by frame (SseCaptureBody in dispatcher.rs), and the     *)
(* task that writes what is captured to files.                             *)
(*                                                                         *)
(* push is taken apart into its loop: one step per event it finds, as each *)
(* of them may already be written while the next one is being looked for.  *)
(***************************************************************************)
EXTENDS Naturals, Sequences, SequencesExt

CONSTANTS
    CR, LF, Text,       \* bytes: the line ends, and any other
    MaxEvents,          \* sse_capture_max_events
    MaxEventBytes,      \* sse_capture_max_event_bytes
    MaxFrame,           \* bound: bytes of a body frame
    MaxStream           \* bound: bytes of the body

ASSUME SseAssumption ==
    /\ {MaxEvents, MaxEventBytes, MaxFrame, MaxStream} \subseteq Nat
    /\ CR # LF

Bytes == {CR, LF, Text}

VARIABLES
    stream,         \* the bytes received so far
    buffer,         \* SseCapture::buffer
    scanning,       \* push is in its loop
    discarding,     \* discarding_oversized_event
    finished,       \* finished
    sent,           \* the events sent to the writer, of which saved_events is the number
    partial,        \* the incomplete event sent to the writer, or nothing
    marker,         \* the marker file: "none", "written", "failed"
    handled,        \* the number of messages the writer has taken
    written         \* the events of which the writer has written the file

captureVars == <<stream, buffer, scanning, discarding, finished, sent, partial>>
writerVars  == <<marker, handled, written>>
vars == <<captureVars, writerVars>>

-----------------------------------------------------------------------------
Terminators == {<<CR, LF, CR, LF>>, <<CR, LF, LF>>, <<LF, LF>>, <<CR, CR>>}

\* find_sse_event_end: where the first terminator from the left ends, or 0.
EventEnd(bytes) ==
    LET At(i, t) == IsPrefix(t, SubSeq(bytes, i, Len(bytes)))
        starts   == {i \in 1..Len(bytes) : \E t \in Terminators : At(i, t)}
        first    == Min(starts)
    IN IF starts = {} THEN 0
       ELSE first + Len(CHOOSE t \in Terminators : At(first, t)) - 1

Take(s, n) == SubSeq(s, 1, IF Len(s) < n THEN Len(s) ELSE n)
Drop(s, n) == SubSeq(s, n + 1, Len(s))

\* A stored event: its bytes, and whether the note on truncation follows them.
Whole(bytes) == [bytes |-> bytes, note |-> FALSE]
TruncateEvent(bytes) == [bytes |-> Take(bytes, MaxEventBytes), note |-> TRUE]

\* save_event
Saved(event) == IF Len(event) > MaxEventBytes THEN TruncateEvent(event) ELSE Whole(event)

\* Fault: one event too many.
CaptureLimitReached_OneMore(n) == MaxEvents = 0 \/ MaxEventBytes = 0 \/ n > MaxEvents

\* capture_limit_reached, when n events are saved.
CaptureLimitReached(n) == MaxEvents = 0 \/ MaxEventBytes = 0 \/ n >= MaxEvents

\* A frame of the body passes through, and is pushed unless nothing more is captured.
Push ==
    /\ ~scanning /\ ~finished
    /\ \E n \in 1..MaxFrame :
          /\ Len(stream) + n <= MaxStream
          /\ \E frame \in [1..n -> Bytes] :
                /\ stream' = stream \o frame
                /\ buffer' = IF CaptureLimitReached(Len(sent)) THEN buffer ELSE buffer \o frame
    /\ scanning' = ~CaptureLimitReached(Len(sent))
    /\ UNCHANGED <<discarding, finished, sent, partial, writerVars>>

\* The buffer holds the end of an event: it is saved, or it is the rest of one
\* that was truncated and goes.
CompleteEvent ==
    /\ scanning /\ EventEnd(buffer) > 0
    /\ LET end   == EventEnd(buffer)
           event == Take(buffer, end)
           more  == discarding \/ ~CaptureLimitReached(Len(sent) + 1)
       IN /\ sent' = IF discarding THEN sent ELSE Append(sent, Saved(event))
          /\ buffer' = IF more THEN Drop(buffer, end) ELSE <<>>
          /\ scanning' = more
    /\ discarding' = FALSE
    /\ UNCHANGED <<stream, finished, partial, writerVars>>

\* Fault: nothing of a truncated event is kept to recognize its end by.
IncompleteEvent_KeepsNothing ==
    /\ scanning /\ EventEnd(buffer) = 0
    /\ scanning' = FALSE
    /\ IF discarding \/ Len(buffer) <= MaxEventBytes
       THEN UNCHANGED <<buffer, discarding, sent>>
       ELSE /\ sent' = Append(sent, TruncateEvent(buffer))
            /\ discarding' = TRUE
            /\ buffer' = <<>>
    /\ UNCHANGED <<stream, finished, partial, writerVars>>

\* handle_oversized_incomplete_event: an event that is too long before its end
\* is known is saved truncated; three bytes are kept to recognize that end by.
IncompleteEvent ==
    /\ scanning /\ EventEnd(buffer) = 0
    /\ scanning' = FALSE
    /\ IF discarding \/ Len(buffer) <= MaxEventBytes
       THEN UNCHANGED <<buffer, discarding, sent>>
       ELSE /\ sent' = Append(sent, TruncateEvent(buffer))
            /\ discarding' = TRUE
            /\ buffer' = Drop(buffer, IF Len(buffer) > 3 THEN Len(buffer) - 3 ELSE 0)
    /\ UNCHANGED <<stream, finished, partial, writerVars>>

\* Fault: what is left of a truncated event is taken for an incomplete one.
Finish_ForgetsDiscarding ==
    /\ ~scanning /\ ~finished
    /\ finished' = TRUE
    /\ IF buffer = <<>> \/ CaptureLimitReached(Len(sent))
       THEN UNCHANGED <<buffer, partial>>
       ELSE partial' = <<TruncateEvent(buffer)>> /\ buffer' = <<>>
    /\ UNCHANGED <<stream, scanning, discarding, sent, writerVars>>

\* finish, at the end of the body or when the body is dropped.
Finish ==
    /\ ~scanning /\ ~finished
    /\ finished' = TRUE
    /\ IF buffer = <<>> \/ discarding \/ CaptureLimitReached(Len(sent))
       THEN UNCHANGED <<buffer, partial>>
       ELSE partial' = <<TruncateEvent(buffer)>> /\ buffer' = <<>>
    /\ UNCHANGED <<stream, scanning, discarding, sent, writerVars>>

-----------------------------------------------------------------------------
(* The task that start spawns.                                             *)

\* The marker comes first; without it the task ends and takes no message.
WriteMarker ==
    /\ marker = "none"
    /\ marker' \in {"written", "failed"}
    /\ UNCHANGED <<captureVars, handled, written>>

Messages == Len(sent) + Len(partial)

\* Fault: the task ends with the first file that cannot be written.
WriteMessage_StopsOnError ==
    /\ marker = "written" /\ handled < Messages
    /\ \/ handled' = handled + 1 /\ written' = written \cup {handled + 1} /\ UNCHANGED marker
       \/ handled' = handled + 1 /\ marker' = "failed" /\ UNCHANGED written
    /\ UNCHANGED captureVars

\* The next message is written to its file; if that fails, the next is tried.
WriteMessage ==
    /\ marker = "written" /\ handled < Messages
    /\ handled' = handled + 1
    /\ \/ written' = written \cup {handled + 1}
       \/ UNCHANGED written
    /\ UNCHANGED <<captureVars, marker>>

Init ==
    /\ stream = <<>> /\ buffer = <<>> /\ sent = <<>> /\ partial = <<>>
    /\ scanning = FALSE /\ discarding = FALSE /\ finished = FALSE
    /\ marker = "none" /\ handled = 0 /\ written = {}

Scan == CompleteEvent \/ IncompleteEvent

Writer == WriteMarker \/ WriteMessage

Next == Push \/ Scan \/ Finish \/ Writer

\* push runs to its end and the task that writes is scheduled; the peer and the
\* client need neither send nor end the body.
Fairness == WF_vars(Scan) /\ WF_vars(Writer)

Spec == Init /\ [][Next]_vars /\ Fairness

-----------------------------------------------------------------------------
(* What is to be captured, said of the whole stream.                       *)

\* A terminator ends at n, all of it behind a.
Terminated(s, a, n) ==
    \E t \in Terminators : n >= a + Len(t) /\ SubSeq(s, n - Len(t) + 1, n) = t

\* Where the events among the first n bytes of s end, with 0 in front: each where a
\* terminator ends first that is all behind the end of the event before.
EndAt(s, ends, n) == IF Terminated(s, Last(ends), n) THEN Append(ends, n) ELSE ends

EndsWithin(s, n) == FoldLeft(LAMBDA ends, i : EndAt(s, ends, i), <<0>>, [i \in 1..n |-> i])

EndsOf(s) == EndsWithin(s, Len(s))

RemainderOf(s) == Drop(s, Last(EndsOf(s)))

\* The events of s in order, one that is too long without its end included.
EventsOf(s) ==
    LET ends == EndsOf(s)
    IN [i \in 1..(Len(ends) - 1) |-> Saved(SubSeq(s, ends[i] + 1, ends[i + 1]))]
         \o (IF Len(RemainderOf(s)) > MaxEventBytes THEN <<TruncateEvent(RemainderOf(s))>> ELSE <<>>)

Remainder == RemainderOf(stream)
Events    == EventsOf(stream)

-----------------------------------------------------------------------------
(* Properties.                                                             *)

\* The types of what the capture and the task keep.
TypeOK ==
    /\ stream \in Seq(Bytes) /\ buffer \in Seq(Bytes)
    /\ sent \in Seq([bytes : Seq(Bytes), note : BOOLEAN])
    /\ scanning \in BOOLEAN /\ discarding \in BOOLEAN /\ finished \in BOOLEAN
    /\ Len(sent) <= MaxEvents /\ Len(partial) <= 1
    /\ marker \in {"none", "written", "failed"}
    /\ handled \in 0..Messages /\ written \subseteq 1..handled

\* How the body is cut into frames does not matter: between two frames the
\* events captured are the first events of the stream, whole or truncated, each
\* once and in order, also when a terminator or a limit falls between frames.
FramesDoNotMatter ==
    (~scanning /\ MaxEventBytes > 0) => sent = Take(Events, MaxEvents)

\* An incomplete event is stored at the end if and only if there is one, the
\* limit is not reached and it has not been stored as a truncated event.
PartialIsTheRemainder ==
    finished => partial = (IF \/ Remainder = <<>> \/ Len(Remainder) > MaxEventBytes
                              \/ MaxEvents = 0 \/ Len(Events) >= MaxEvents
                           THEN <<>> ELSE <<TruncateEvent(Remainder)>>)

\* Every event captured is written or fails to be, once there is a marker: one
\* file that cannot be written costs no other event.
EventsReachDisk ==
    \A n \in 1..MaxEvents : (marker = "written" /\ Len(sent) >= n) ~> (marker = "written" /\ handled >= n)

-----------------------------------------------------------------------------
(* The inductive invariant behind the first two (SseCapture_proofs).       *)

\* The event of s behind a was stored truncated, and the buffer begins behind at: every
\* terminator that may end it is still in the buffer, or comes.
InTruncated(s, a, at) ==
    /\ a <= at /\ (at = a \/ at + 3 <= Len(s))
    /\ a + MaxEventBytes < Len(s)
    /\ \A n \in 1..Len(s) : Terminated(s, a, n) => Terminated(s, at, n) /\ a + MaxEventBytes < n

\* The buffer is what follows position at, and that is where the last event that was
\* saved ends, unless the rest of it is being discarded; between two frames there is
\* no end in the buffer, and not too much.
Position(at) ==
    LET ends == EndsOf(stream)
        n    == Len(sent)
    IN /\ buffer = Drop(stream, at)
       /\ discarding => n \in 1..Len(ends) /\ InTruncated(stream, ends[n], at)
       /\ ~discarding => n + 1 \in 1..Len(ends) /\ at = ends[n + 1]
       /\ ~scanning => EventEnd(buffer) = 0 /\ (discarding \/ Len(buffer) <= MaxEventBytes)

\* What was sent are the first events of the stream, also within push.
SentAreFirst == Len(sent) <= Len(Events) /\ \A i \in 1..Len(sent) : sent[i] = Events[i]

CaptureInv ==
    /\ TypeOK /\ SentAreFirst
    /\ scanning => ~finished /\ ~CaptureLimitReached(Len(sent))
    /\ ~finished => partial = <<>>
    /\ (~finished /\ ~CaptureLimitReached(Len(sent))) => \E at \in 0..Len(stream) : Position(at)
    /\ finished => FramesDoNotMatter /\ PartialIsTheRemainder

=============================================================================
