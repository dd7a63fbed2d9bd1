--------------------------- MODULE FilterActions ---------------------------
(***************************************************************************)
(* What a filter can do to a message: the operations of the Roto library   *)
(* (filters/runtime.rs), the action they build up, and how an action is    *)
(* applied (filter_bridge.rs).  Pure definitions, used by FilterChain and  *)
(* EditSession.                                                            *)
(*                                                                         *)
(* A text is a sequence of characters.  An optional value is a sequence    *)
(* of at most one element.  Headers are a function from names to values.   *)
(***************************************************************************)
EXTENDS Naturals, Sequences, SequencesExt

None    == <<>>
Some(x) == <<x>>

Occurs(t, text) == t \in SubSeqs(text)

\* The elements of s that are in a set, in their order.
Picked(set, kept, x) == IF x \in set THEN Append(kept, x) ELSE kept

Those(s, set) == FoldLeft(LAMBDA kept, x : Picked(set, kept, x), <<>>, s)

-----------------------------------------------------------------------------
(* Rewriting a body. *)

\* A text is replaced, once or everywhere, where the texts it needs (an anchor, a
\* property, a selector) occur in the body too.
Replacement(needs, old, new, all) ==
    [op |-> "replace", needs |-> needs, old |-> old, new |-> new, all |-> all]

\* A regular expression or a JSON patch is what it makes of the bodies it applies to.
Rewriting(to, ctype) == [op |-> "rewrite", to |-> to, ctype |-> ctype]

RewriteOps == {"replace", "rewrite"}

\* One operation of apply_body_rewrite_ops, on the body so far.
Rewritten(r, op) ==
    IF op.op = "replace"
    THEN IF op.old # <<>> /\ Occurs(op.old, r.body)
            /\ \A t \in op.needs : t # <<>> /\ Occurs(t, r.body)
         THEN [r EXCEPT !.changed = TRUE,
                        !.body = IF op.all THEN ReplaceAllSubSeqs(op.new, op.old, r.body)
                                 ELSE ReplaceFirstSubSeq(op.new, op.old, r.body)]
         ELSE r
    ELSE IF r.body \in DOMAIN op.to /\ op.to[r.body] # r.body
         THEN [changed |-> TRUE, body |-> op.to[r.body],
               ctype |-> IF op.ctype = None THEN r.ctype ELSE op.ctype]
         ELSE r

\* apply_body_rewrite_ops: in order, each on what the one before it made.
ApplyBodyRewriteOps(text, ops) ==
    IF ops = <<>> \/ text = None THEN None
    ELSE LET start == [changed |-> FALSE, body |-> text[1], ctype |-> None]
             r     == FoldLeft(Rewritten, start, ops)
         IN IF r.changed THEN Some([body |-> r.body, ctype |-> r.ctype]) ELSE None

-----------------------------------------------------------------------------
(* What a filter calls, and the action that comes of it. *)

\* RotoRequestActionData and RotoResponseActionData
NoCalls ==
    [status |-> None, set |-> <<>>, remove |-> <<>>, marks |-> <<>>, body |-> None,
     ctype |-> None, rewrites |-> <<>>, synthetic |-> None, reject |-> None,
     jobs |-> <<>>, stop |-> FALSE, drop |-> FALSE]

\* A call of a function of ConnectAction; drop and deny make an action of their own.
ConnectCall(data, c) ==
    CASE c.op = "drop" -> [NoCalls EXCEPT !.stop = TRUE, !.drop = TRUE]
      [] c.op = "deny" -> [NoCalls EXCEPT !.stop = TRUE, !.drop = TRUE, !.reject = Some(c.status)]
      [] c.op = "stop" -> [data EXCEPT !.stop = TRUE]
      [] c.op = "mark" -> [data EXCEPT !.marks = Append(@, c.label)]

\* The methods that RequestAction and ResponseAction share.
MessageCall(data, c) ==
    CASE c.op = "stop" -> [data EXCEPT !.stop = TRUE]
      [] c.op = "drop" -> [data EXCEPT !.stop = TRUE, !.drop = TRUE]
      [] c.op = "mark" -> [data EXCEPT !.marks = Append(@, c.label)]
      [] c.op = "set_header" -> [data EXCEPT !.set = Append(@, <<c.name, c.value>>)]
      [] c.op = "remove_header" -> [data EXCEPT !.remove = Append(@, c.name)]
      [] c.op = "set_body_text" ->
            [data EXCEPT !.body = Some(c.text), !.ctype = IF c.ctype = None THEN @ ELSE c.ctype]

\* replace_* and apply_json_patch: noted, and applied when the filter has ended.
RewriteCall(data, c) == [data EXCEPT !.rewrites = Append(@, c)]

\* RequestAction.synthetic_response
SyntheticCall(data, c) ==
    [data EXCEPT !.stop = TRUE,
                 !.synthetic = Some([status |-> c.status, text |-> c.text,
                                     ctype |-> IF c.ctype # None \/ @ = None THEN c.ctype
                                               ELSE @[1].ctype])]

\* ResponseAction.post_json, post_text, post_request_raw, ...
PostCall(data, c) == [data EXCEPT !.jobs = Append(@, c.job)]

RequestCall(data, c) ==
    CASE c.op \in RewriteOps         -> RewriteCall(data, c)
      [] c.op = "synthetic_response" -> SyntheticCall(data, c)
      [] OTHER                       -> MessageCall(data, c)

ResponseCall(data, c) ==
    CASE c.op \in RewriteOps -> RewriteCall(data, c)
      [] c.op = "set_status" -> [data EXCEPT !.status = Some(c.status)]
      [] c.op = "post"       -> PostCall(data, c)
      [] OTHER               -> MessageCall(data, c)

\* One call a filter makes in a phase.
Called(phase, data, c) ==
    CASE phase = "connect"  -> ConnectCall(data, c)
      [] phase = "request"  -> RequestCall(data, c)
      [] phase = "response" -> ResponseCall(data, c)

\* What can be called in a phase.
PhaseOps(phase) ==
    LET shared == {"stop", "drop", "mark", "set_header", "remove_header", "set_body_text"}
    IN CASE phase = "connect"  -> {"drop", "deny", "stop", "mark"}
         [] phase = "request"  -> shared \cup RewriteOps \cup {"synthetic_response"}
         [] phase = "response" -> shared \cup RewriteOps \cup {"set_status", "post"}

Calls(phase, script) == FoldLeft(LAMBDA data, c : Called(phase, data, c), NoCalls, script)

Pass ==
    [patch |-> None, synthetic |-> None, marks |-> <<>>, jobs |-> <<>>, reject |-> None,
     drop |-> FALSE, cont |-> TRUE]

\* The body that comes of it: one that is set wins over rewriting.
IntoBody(data, rewritten) ==
    IF data.body # None THEN Some([text |-> data.body[1], ctype |-> data.ctype])
    ELSE IF rewritten = None THEN None
    ELSE Some([text  |-> rewritten[1].body,
               ctype |-> IF rewritten[1].ctype # None THEN rewritten[1].ctype ELSE data.ctype])

\* A patch, if anything is patched.
IntoPatch(data, rewritten) ==
    IF data.status # None \/ data.set # <<>> \/ data.remove # <<>> \/ data.body # None
        \/ rewritten # None
    THEN Some([status |-> data.status, set |-> data.set, remove |-> data.remove,
               body |-> IntoBody(data, rewritten)])
    ELSE None

\* into_request_action and into_response_action, of the text the filter is given.
IntoAction(data, text) ==
    [patch     |-> IntoPatch(data, ApplyBodyRewriteOps(text, data.rewrites)),
     synthetic |-> data.synthetic, marks |-> data.marks, jobs |-> data.jobs,
     reject    |-> data.reject, drop |-> data.drop \/ data.reject # None,
     cont      |-> ~data.stop /\ data.synthetic = None]

-----------------------------------------------------------------------------
(* Applying a patch. *)

IntegrityHeaders == {"content-length", "content-encoding", "etag", "content-md5"}

Without(headers, names) == [n \in DOMAIN headers \ names |-> headers[n]]

With(headers, h) ==
    [n \in DOMAIN headers \cup {h[1]} |-> IF n = h[1] THEN h[2] ELSE headers[n]]

\* What is no name or no value of a header is left out.
SetHeader(headers, h) ==
    IF h[1] = "invalid name" \/ h[2] = "invalid value" THEN headers ELSE With(headers, h)

\* What StatusCode::from_u16 accepts; a script may name any u16.
StatusCodes == 100..999

\* A status that is none is left out.
SetStatus(status, new) == IF new # None /\ new[1] \in StatusCodes THEN new[1] ELSE status

\* apply_header_patch: first removed, then set, the last value of a name.
ApplyHeaderPatch(headers, set, remove) ==
    FoldLeft(SetHeader, Without(headers, ToSet(remove)), set)

\* Fault: the headers that describe the old body go before the filter's are set.
ApplyPatch_IntegrityFirst(m, patch) ==
    LET cleared == IF patch.body = None THEN m.headers ELSE Without(m.headers, IntegrityHeaders)
        headers == ApplyHeaderPatch(cleared, patch.set, patch.remove)
    IN [status  |-> SetStatus(m.status, patch.status),
        headers |-> IF patch.body = None \/ patch.body[1].ctype = None THEN headers
                    ELSE SetHeader(headers, <<"content-type", patch.body[1].ctype[1]>>),
        body    |-> IF patch.body = None THEN m.body
                    ELSE [text |-> patch.body[1].text, coded |-> FALSE]]

\* apply_request_patch and apply_response_patch: with a new body go the headers that
\* describe the old one, also when the filter set them.
ApplyPatch(m, patch) ==
    LET headers == ApplyHeaderPatch(m.headers, patch.set, patch.remove)
        status  == SetStatus(m.status, patch.status)
    IN IF patch.body = None THEN [status |-> status, headers |-> headers, body |-> m.body]
       ELSE LET cleared == Without(headers, IntegrityHeaders)
                body    == patch.body[1]
            IN [status  |-> status,
                headers |-> IF body.ctype = None THEN cleared
                            ELSE SetHeader(cleared, <<"content-type", body.ctype[1]>>),
                body    |-> [text |-> body.text, coded |-> FALSE]]

\* build_filter_request and build_filter_response: the text a filter is given, decoded
\* as the headers say, if it is one.
FilterText(m) ==
    IF m.body.coded /\ "content-encoding" \notin DOMAIN m.headers THEN None
    ELSE Some(m.body.text)

=============================================================================
