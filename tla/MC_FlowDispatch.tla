-------------------------- MODULE MC_FlowDispatch ---------------------------
(* Instances of FlowDispatch for TLC. *)
EXTENDS FlowDispatch, TLC

CONSTANTS f1, f2

R(sse, length, opaque, size, fails) ==
    [sse |-> sse, bodyless |-> FALSE, length |-> length, opaque |-> opaque,
     size |-> size, fails |-> fails]

\* One response for each path through response_body_mode that differs later on.
ServedAll ==
    {R(FALSE, 1, FALSE, 1, FALSE),          \* collected: short
     [R(FALSE, 2, FALSE, 0, FALSE) EXCEPT !.bodyless = TRUE],   \* collected: no body
     R(TRUE, Unknown, FALSE, 1, FALSE),     \* an event stream
     R(FALSE, 2, FALSE, 2, FALSE),          \* streamed: long
     R(FALSE, Unknown, TRUE, 3, FALSE),     \* probed, then streamed
     R(FALSE, Unknown, TRUE, 2, TRUE)}      \* probed, streamed, breaks off

ServedPlain == {R(FALSE, 1, FALSE, 1, FALSE), R(FALSE, 2, FALSE, 2, FALSE)}

Symmetry == Permutations(Flows)
=============================================================================
