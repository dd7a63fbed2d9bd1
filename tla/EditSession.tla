---------------------------- MODULE EditSession ----------------------------
(***************************************************************************)
(* The editor of a captured message (tui/editor_pane.rs): the message is   *)
(* shown as a text to edit, the edited text is read back and compared      *)
(* (filters/editor.rs), and the differences become a filter that is saved  *)
(* (filters/generator.rs).  What a saved filter then does to the message   *)
(* it was made from is FilterActions; what saving does to the files is     *)
(* FilterReload.                                                           *)
(***************************************************************************)
EXTENDS BodyRewrite

CONSTANTS
    Flows,          \* captured exchanges: line, request, response
    Drafts,         \* bodies a user types
    Fields,         \* header lines a user types
    Statuses,       \* status lines a user types, empty or a number
    OtherPath,      \* a path a user types
    Uppercase,      \* content types written with capital letters
    HasCommand,     \* external_view_command is configured
    MaxEdits,       \* bound on the changes of a session
    MaxSaves        \* bound on the filters saved

IsText(t) == t \in Seq(ToSet(t))

Sides == {"request", "response"}

\* What is captured of a message: the names of its headers are valid, its texts are texts.
\* No name begins with "#", which is a character of a name but begins a comment in the
\* editor: such a header would be lost.
CapturedOK(m) ==
    /\ IsFiniteSet(DOMAIN m.headers)
    /\ "invalid name" \notin DOMAIN m.headers /\ "# comment" \notin DOMAIN m.headers
    /\ m.status = None \/ m.status = Some(m.status[1])
    /\ DOMAIN m.body = {"kind", "text", "plain"} /\ IsText(m.body.text) /\ IsText(m.body.plain)

ASSUME EditAssumption ==
    /\ \A flow \in Flows : IsText(flow.line.path) /\ \A side \in Sides : CapturedOK(flow[side])
    /\ \A draft \in Drafts : IsText(draft)
    /\ HasCommand \in BOOLEAN /\ MaxEdits \in Nat /\ MaxSaves \in Nat

VARIABLES
    session,        \* the open panel, if any: flow, side, original, text
    preview,        \* EditableFilterSessionPreview of the open panel
    popup,          \* what the last save said
    saved,          \* the filters saved, with what they were made from
    edits           \* changes so far

vars == <<session, preview, popup, saved, edits>>

-----------------------------------------------------------------------------
(* From the captured message to the text in the editor. *)

\* decode_body_by_headers; what no header tells of stays as it is.
DecodeBodyByHeaders(m) ==
    IF m.body.kind = "gzip" /\ "content-encoding" \in DOMAIN m.headers
    THEN [m.body EXCEPT !.kind = "text"] ELSE m.body

\* format_body_for_display: base64 that is a text is shown decoded, under a heading.
FormatBodyForDisplay(body) ==
    CASE body.kind = "gzip"               -> [kind |-> "gzip dump", text |-> body.plain]
      [] body.kind \in {"image", "bytes"} -> [kind |-> "dump", text |-> <<>>]
      [] body.kind = "base64"             -> [kind |-> "text", text |-> <<"<base64>", Newline>> \o body.plain]
      [] OTHER                            -> [kind |-> "text", text |-> body.plain]

\* read_sse_body_files: the events that were captured, under a heading.
ReadSseBodyFiles(body) == [kind |-> "text", text |-> <<"<< SSE >>", Newline>> \o body.plain]

\* read_body_file; the error of a stream is shown, and edited, as if it were the body.
Shown(m) ==
    CASE m.body.kind = "absent" -> [kind |-> "no path", text |-> <<>>]
      [] m.body.kind = "events" -> ReadSseBodyFiles(m.body)
      [] m.body.kind = "unread events" -> [kind |-> "text", text |-> <<"<read SSE body error>">>]
      [] m.body.kind = "unread" -> [kind |-> "read error", text |-> <<>>]
      [] OTHER                  -> FormatBodyForDisplay(DecodeBodyByHeaders(m))

\* editable_body_from_text; a dump is a text if it can be unpacked to one that is not blank.
EditableBody(shown, ctype) ==
    CASE shown.kind \in {"no path", "read error"} -> [kind |-> "empty", text |-> <<>>, ctype |-> None]
      [] shown.kind \in {"gzip dump", "dump"} ->
           IF Trim(shown.text) = <<>> THEN [kind |-> "binary", text |-> <<>>, ctype |-> ctype]
           ELSE [kind |-> "text", text |-> shown.text, ctype |-> ctype]
      [] OTHER -> IF Trim(shown.text) = <<>> THEN [kind |-> "empty", text |-> <<>>, ctype |-> None]
                  ELSE [kind |-> "text", text |-> shown.text, ctype |-> ctype]

HeaderList(headers) ==
    LET names == SetToSeq(DOMAIN headers) IN [i \in DOMAIN names |-> <<names[i], headers[names[i]]>>]

ContentType(headers) ==
    IF "content-type" \in DOMAIN headers THEN Some(headers["content-type"]) ELSE None

\* editable_request_from_detail and editable_response_from_detail
Editable(flow, side) ==
    LET m == flow[side]
    IN [kind |-> side, line |-> flow.line, status |-> m.status, headers |-> HeaderList(m.headers),
        body |-> EditableBody(Shown(m), ContentType(m.headers))]

EndsWithNewline(text) == text # <<>> /\ Last(text) = Newline

\* to_edit_text: a text body is ended by a newline.
ToEditText(o) ==
    [valid |-> TRUE, kind |-> o.kind, line |-> o.line, status |-> o.status, ctype |-> None,
     headers |-> o.headers,
     body |-> CASE o.body.kind = "text" -> IF EndsWithNewline(o.body.text) THEN o.body.text
                                           ELSE Append(o.body.text, Newline)
                [] o.body.kind = "binary" -> <<"#">>
                [] o.body.kind = "empty"  -> <<>>]

-----------------------------------------------------------------------------
(* Back to a message, and what is different. *)

\* Fault: the newline that to_edit_text adds is taken for one of the body.
ParseBody_AsTyped(text, o) ==
    LET ctype == IF text.ctype # None THEN text.ctype ELSE o.body.ctype
    IN CASE o.body.kind = "binary" -> o.body
         [] o.body.kind = "empty" /\ text.body = <<>> -> o.body
         [] OTHER -> [kind |-> "text", text |-> text.body, ctype |-> ctype]

\* The body of parse_edit_text: the newline that was added goes, if that is all.
ParseBody(text, o) ==
    LET ctype == IF text.ctype # None THEN text.ctype ELSE o.body.ctype
        added == ~EndsWithNewline(o.body.text) /\ text.body = Append(o.body.text, Newline)
    IN CASE o.body.kind = "binary" -> o.body
         [] o.body.kind = "text"   ->
              [kind |-> "text", text |-> IF added THEN o.body.text ELSE text.body, ctype |-> ctype]
         [] o.body.kind = "empty"  ->
              IF text.body = <<>> THEN o.body
              ELSE [kind |-> "text", text |-> text.body, ctype |-> ctype]

\* parse_edit_headers: a line that begins with "#" is no header.
ParseHeaders(lines) == Those(lines, {h \in ToSet(lines) : h[1] # "# comment"})

\* parse_edit_text, unless a line makes no sense.
Parse(text, o) ==
    IF ~text.valid THEN None
    ELSE Some([kind |-> text.kind, line |-> text.line, status |-> text.status,
               headers |-> ParseHeaders(text.headers), body |-> ParseBody(text, o)])

\* header_value: of the first header of that name.
HeaderValue(headers, name) ==
    LET i == SelectInSeq(headers, LAMBDA h : h[1] = name)
    IN IF i = 0 THEN None ELSE Some(headers[i][2])

\* The headers of EditableHttpMessage::diff
Lacking(headers, from) == {h \in ToSet(headers) : HeaderValue(from, h[1]) = None}

RemovedHeaders(o, e) == Those(o.headers, Lacking(o.headers, e.headers))
AddedHeaders(o, e)   == Those(e.headers, Lacking(e.headers, o.headers))
ChangedHeaders(o, e) ==
    Those(o.headers, {h \in ToSet(o.headers) : HeaderValue(e.headers, h[1]) \notin {None, Some(h[2])}})

BodyText(m) == IF m.body.kind = "text" THEN Some(m.body.text) ELSE None

\* EditableHttpMessageDiff::has_changes; the scheme and the content type do not count.
HasChanges(o, e) ==
    \/ [o.line EXCEPT !.scheme = ""] # [e.line EXCEPT !.scheme = ""]
    \/ o.status # e.status
    \/ RemovedHeaders(o, e) # <<>> \/ ChangedHeaders(o, e) # <<>> \/ AddedHeaders(o, e) # <<>>
    \/ BodyText(o) # BodyText(e)

\* header_actions
HeaderActions(o, e) ==
    LET removed == RemovedHeaders(o, e)
        changed == ChangedHeaders(o, e)
        added   == AddedHeaders(o, e)
    IN [i \in DOMAIN removed |-> [op |-> "remove_header", name |-> removed[i][1]]]
       \o [i \in DOMAIN changed |-> [op |-> "set_header", name |-> changed[i][1],
                                     value |-> HeaderValue(e.headers, changed[i][1])[1]]]
       \o [i \in DOMAIN added |-> [op |-> "set_header", name |-> added[i][1], value |-> added[i][2]]]

\* semantic_diff
SemanticDiff(o, e) ==
    LET line  == <<"method", "scheme", "host", "path", "query">>
        parts == Those(line, {p \in ToSet(line) : o.line[p] # e.line[p]})
        of(op, hs) == [i \in DOMAIN hs |-> Event(op, <<Key(hs[i][1])>>, "header")]
    IN [i \in DOMAIN parts |-> Event("replace", <<Key(parts[i])>>, "line")]
       \o (IF o.status = e.status THEN <<>> ELSE <<Event("replace", <<>>, "status")>>)
       \o of("replace", ChangedHeaders(o, e)) \o of("delete", RemovedHeaders(o, e))
       \o of("insert", AddedHeaders(o, e)) \o BodyEvents(o.body, e.body)

-----------------------------------------------------------------------------
(* The filter. *)

PlainText == "text/plain; charset=utf-8"
JsonText  == "application/json; charset=utf-8"

\* path_trigger_for_original_path: the paths that start as it does up to its last slash.
PathTrigger(path) ==
    IF path = <<"/">> THEN <<>> ELSE Take(path, SelectLastInSeq(path, LAMBDA c : c = "/"))

SetBody(o, e, ctype) ==
    IF BodyText(e) = None \/ BodyText(o) = BodyText(e) THEN <<>>
    ELSE <<[op |-> "set_body_text", text |-> e.body.text, ctype |-> Some(ctype)]>>

NoCondition == [path |-> None, query |-> None, method |-> None, status |-> None,
                ctype |-> None, body |-> None]

\* GeneratedRewriteRequest::into_filter: a change of the line is only noted.
RequestDraft(o, e) ==
    [phase |-> "request", line |-> o.line, note |-> "",
     when  |-> [NoCondition EXCEPT
                  !.path   = Some(o.line.path),
                  !.query  = IF o.line.query = "" THEN None ELSE Some(o.line.query),
                  !.method = IF o.line.method = e.line.method THEN None ELSE Some(o.line.method)],
     calls |-> <<[op |-> "mark", label |-> "generated"]>> \o SetBody(o, e, PlainText)]

\* GeneratedRewriteResponse::into_filter
ResponseDraft(o, e) ==
    LET ctype == IF e.body.ctype # None THEN e.body.ctype ELSE o.body.ctype
    IN [phase |-> "response", line |-> o.line, note |-> "",
        when  |-> [NoCondition EXCEPT
                     !.status = o.status, !.ctype = o.body.ctype,
                     !.body = IF BodyText(o) = None \/ BodyText(e) = None THEN None
                              ELSE ResponseBodyRewriteAnchor(o.body.text, e.body.text)],
        calls |-> <<[op |-> "mark", label |-> "generated"]>>
                  \o (IF o.status = e.status THEN <<>>
                      ELSE <<[op |-> "set_status", status |-> e.status[1]]>>)
                  \o SetBody(o, e, IF ctype = None THEN PlainText ELSE ctype[1])]

\* Fault: whatever was there is replaced.
ReplaceBodyAction_Everything(calls, call) == <<call>>

\* replace_request_body_rewrite_action and replace_response_body_rewrite_action
ReplaceBodyAction(calls, call) ==
    Append(Those(calls, {c \in ToSet(calls) : c.op \notin RewriteOps \cup {"set_body_text"}}), call)

\* The draft with its header actions; a request without a host is dropped.
WithHeaders(draft, o, e) ==
    LET drop == /\ draft.phase = "request"
                /\ HeaderValue(o.headers, "host") # None /\ HeaderValue(e.headers, "host") = None
    IN [draft EXCEPT !.calls = @ \o HeaderActions(o, e)
                                 \o (IF drop THEN <<[op |-> "drop"]>> ELSE <<>>)]

\* A JSON patch if there is one, whether it validates or not, else a replacement if
\* there is one, else the body as the draft sets it.
WithBodyAction(draft, o, e, ops, intent) ==
    LET ctype == IF e.body.ctype = None THEN JsonText ELSE e.body.ctype[1]
        valid == BodyText(o) # None /\ Validates(o.body.text, e.body.text, ops)
    IN CASE ops # <<>> /\ BodyText(e) # None ->
              [draft EXCEPT !.calls = ReplaceBodyAction(@, JsonPatchCall(ops, ctype)),
                            !.note  = IF valid THEN "validates" ELSE "falling back"]
         [] ops = <<>> /\ BodyText(o) # None /\ BodyText(e) # None /\ intent # None ->
              [draft EXCEPT !.calls = ReplaceBodyAction(@, intent[1])]
         [] OTHER -> draft

WithBody(draft, o, e) ==
    LET ctype == IF o.body.ctype # None THEN o.body.ctype ELSE e.body.ctype
    IN WithBodyAction(draft, o, e, JsonPatchOperations(SemanticDiff(o, e)),
                      BodyActionFromIntent(o.body.text, e.body.text, ctype))

\* extract_request_filter_from_edit and extract_response_filter_from_edit
RequestFilter(o, e)  == WithBody(WithHeaders(RequestDraft(o, e), o, e), o, e)
ResponseFilter(o, e) == WithBody(WithHeaders(ResponseDraft(o, e), o, e), o, e)

\* generate_filter: none where the message is of the other kind, has no status, or is
\* as it was.
GenerateFilter(o, e) ==
    IF \/ e.kind # o.kind \/ ~HasChanges(o, e)
       \/ o.kind = "response" /\ (o.status = None \/ e.status = None)
    THEN None
    ELSE Some(IF o.kind = "request" THEN RequestFilter(o, e) ELSE ResponseFilter(o, e))

\* EditableFilterSessionPreview; there is a filter only where something changed.
PreviewOf(changed, changes, filter) ==
    [changed |-> changed, error |-> changed /\ filter = None, changes |-> changes,
     filter |-> IF changed THEN filter ELSE None]

\* EditableFilterSession::preview
Preview(o, text) ==
    LET e == Parse(text, o)
    IN IF e = None THEN [changed |-> FALSE, error |-> TRUE, changes |-> <<>>, filter |-> None]
       ELSE PreviewOf(HasChanges(o, e[1]), SemanticDiff(o, e[1]), GenerateFilter(o, e[1]))

NoPreview == [changed |-> FALSE, error |-> FALSE, changes |-> <<>>, filter |-> None]

-----------------------------------------------------------------------------
(* The panel. *)

Init ==
    /\ session = None /\ preview = NoPreview /\ popup = "none" /\ saved = <<>> /\ edits = 0

\* open_edit_popup; there is nothing to edit in the other tabs.
Open(flow, tab) ==
    /\ session = None /\ Len(saved) < MaxSaves
    /\ LET o == IF tab = "info" THEN None ELSE Some(Editable(flow, tab))
           text == IF o = None THEN None ELSE Some(ToEditText(o[1]))
       IN /\ session' = Some([flow |-> flow, original |-> o, text |-> text])
          /\ preview' = IF o = None THEN NoPreview ELSE Preview(o[1], text[1])
    /\ popup' = "none"
    /\ UNCHANGED <<saved, edits>>

\* The texts that one change of a user makes of a text.
Typed(o, text) ==
    {[text EXCEPT !.body = b] : b \in Drafts \cup {ToEditText(o).body}}
    \cup {[text EXCEPT !.headers = RemoveAt(@, i)] : i \in DOMAIN text.headers}
    \cup {[text EXCEPT !.headers = Append(@, f)] : f \in Fields}
    \cup {[text EXCEPT !.headers[i] = f] : i \in DOMAIN text.headers, f \in Fields}
    \cup {[text EXCEPT !.status = s] : s \in Statuses}
    \cup {[text EXCEPT !.ctype = Some(PlainText)], [text EXCEPT !.line.path = OtherPath],
          [text EXCEPT !.line.scheme = "ws"], [text EXCEPT !.line.method = "PUT"],
          [text EXCEPT !.kind = IF @ = "request" THEN "response" ELSE "request"],
          [text EXCEPT !.valid = FALSE]}

\* The input changes, and the preview with it.
Type ==
    /\ session # None /\ session[1].original # None /\ edits < MaxEdits
    /\ \E text \in Typed(session[1].original[1], session[1].text[1]) :
         /\ session' = Some([session[1] EXCEPT !.text = Some(text)])
         /\ preview' = Preview(session[1].original[1], text)
    /\ edits' = edits + 1
    /\ UNCHANGED <<popup, saved>>

\* What save_current and save_current_and_open_external ask before they save.
Refused ==
    IF session[1].original = None \/ Parse(session[1].text[1], session[1].original[1]) = None
    THEN "save failed"
    ELSE IF ~preview.changed THEN "nothing to save" ELSE "none"

\* save_generated with what it was made from; writing or validating it may fail.
SaveGenerated(done) ==
    LET s == session[1]
        o == s.original[1]
    IN IF preview.filter = None
       THEN popup' = "save failed" /\ UNCHANGED <<session, preview, saved>>
       ELSE \/ popup' = "save failed" /\ UNCHANGED <<session, preview, saved>>
            \/ /\ Len(saved) < MaxSaves
               /\ saved' = Append(saved, [flow |-> s.flow, original |-> o,
                                          edited |-> Parse(s.text[1], o)[1],
                                          filter |-> preview.filter[1]])
               /\ done

SaveCurrent ==
    /\ session # None
    /\ IF Refused # "none" THEN popup' = Refused /\ UNCHANGED <<session, preview, saved>>
       ELSE SaveGenerated(popup' = "saved" /\ UNCHANGED <<session, preview>>)
    /\ UNCHANGED edits

\* The panel closes once the external editor has been started.
SaveCurrentAndOpenExternal ==
    /\ session # None
    /\ IF Refused # "none" THEN popup' = Refused /\ UNCHANGED <<session, preview, saved>>
       ELSE IF ~HasCommand THEN popup' = "no command" /\ UNCHANGED <<session, preview, saved>>
       ELSE SaveGenerated(\/ popup' = "editor failed" /\ UNCHANGED <<session, preview>>
                          \/ popup' = "none" /\ session' = None /\ preview' = NoPreview)
    /\ UNCHANGED edits

Close ==
    /\ session # None /\ session' = None /\ preview' = NoPreview
    /\ UNCHANGED <<popup, saved, edits>>

Next ==
    \/ \E flow \in Flows, tab \in Sides \cup {"info"} : Open(flow, tab)
    \/ Type
    \/ SaveCurrent
    \/ SaveCurrentAndOpenExternal
    \/ Close

Spec == Init /\ [][Next]_vars

-----------------------------------------------------------------------------
(* A saved filter and the message it was made from. *)

Message(m) ==
    [status |-> IF m.status = None THEN 0 ELSE m.status[1], headers |-> m.headers,
     body |-> [text |-> m.body.text, coded |-> m.body.kind \in {"gzip", "image", "bytes"}]]

\* The trigger and the conditions of a generated filter, as the proxy evaluates them:
\* the content type of a message in small letters, without parameters.
Applies(filter, line, m) ==
    LET w     == filter.when
        ctype == ContentType(m.headers)
        text  == IF FilterText(m) = None THEN <<>> ELSE FilterText(m)[1]
    IN /\ line.host = filter.line.host /\ line.method = filter.line.method
       /\ IsPrefix(PathTrigger(filter.line.path), line.path)
       /\ w.path \in {None, Some(line.path)} /\ w.query \in {None, Some(line.query)}
       /\ w.method \in {None, Some(line.method)} /\ w.status \in {None, Some(m.status)}
       /\ w.ctype # None => /\ w.ctype[1] \notin Uppercase
                            /\ ctype # None /\ Media[ctype[1]] = Media[w.ctype[1]]
       /\ w.body # None => Occurs(w.body[1], text)

\* write_request_roto and write_response_roto: an action becomes the call of its name, a
\* JSON patch its operations alone; one of the other phase becomes a comment.
WriteRequestRoto(calls)  == Those(calls, {c \in ToSet(calls) : c.op # "set_status"})
WriteResponseRoto(calls) == Those(calls, {c \in ToSet(calls) : c.op # "synthetic_response"})

\* to_roto_source
ToRotoSource(filter) ==
    IF filter.phase = "request" THEN WriteRequestRoto(filter.calls)
    ELSE WriteResponseRoto(filter.calls)

\* What a saved filter makes of the message.
Replayed(s) ==
    LET m == Message(s.flow[s.original.kind])
        a == IF Applies(s.filter, s.flow.line, m)
             THEN IntoAction(Calls(s.filter.phase, ToRotoSource(s.filter)), FilterText(m)) ELSE Pass
    IN [drop |-> a.drop, message |-> IF a.patch = None THEN m ELSE ApplyPatch(m, a.patch[1])]

-----------------------------------------------------------------------------
(* Properties. *)

\* The proxy sees the body the editor shows, and the content type is written in small
\* letters, which the condition of a generated response filter compares it with.
Comparable(s) ==
    LET m == Message(s.flow[s.original.kind]) IN
    /\ s.original.body.kind = "text" => FilterText(m) = Some(s.original.body.text)
    /\ s.original.body.kind = "empty" => FilterText(m) = Some(<<>>)
    /\ s.original.body.ctype = None \/ s.original.body.ctype[1] \notin Uppercase

\* A text that was not changed, or was changed back, is read as the message it was made
\* from: to_edit_text and parse_edit_text are inverse, with or without a newline at the
\* end of the body, so that no filter is generated where nothing was edited.
UnchangedRoundTrip ==
    /\ session # None /\ session[1].original # None =>
         LET o == session[1].original[1] IN
         session[1].text[1] = ToEditText(o) => ~preview.changed /\ preview.changes = <<>>
    /\ \A i \in DOMAIN saved : saved[i].edited # saved[i].original

\* No two headers have the same name.
NamesDiffer(headers) ==
    \A i, j \in DOMAIN headers : headers[i][1] = headers[j][1] => i = j

\* out has the headers and the status of e, but for the headers that describe a new body.
\* What is no name is left out, and what is no value or no status leaves the message with
\* the one it had, if any.
HasHeadersOf(out, e, m) ==
    LET names  == {h[1] : h \in ToSet(e.headers)} \ {"invalid name"}
        kept   == {n \in names : HeaderValue(e.headers, n) = Some("invalid value")}
        exempt == IF out.message.body = m.body THEN {}
                  ELSE IntegrityHeaders \cup {"content-type"}
        headers == out.message.headers
    IN \/ out.drop /\ "host" \notin names
       \/ /\ ~out.drop
          /\ e.kind = "response" => out.message.status = SetStatus(m.status, e.status)
          /\ DOMAIN headers \ exempt = ((names \ kept) \cup (kept \cap DOMAIN m.headers)) \ exempt
          /\ \A n \in (names \ kept) \ exempt : Some(headers[n]) = HeaderValue(e.headers, n)
          /\ \A n \in (kept \cap DOMAIN m.headers) \ exempt : headers[n] = m.headers[n]

\* The saved filter gives the message it was made from the headers and the status of
\* the edited one, whatever becomes of the body: header actions and body actions do not
\* displace each other.  A new body takes the headers that describe it; a request that
\* lost its host header is dropped instead (extract_request_filter_from_edit).  The
\* editor takes any number of 16 bits for a status and any text for a value
\* (editor.rs:768): what HTTP does not have, the proxy leaves as it was
\* (filter_bridge.rs:282, 357).
HeadersReplayed ==
    \A i \in DOMAIN saved :
        LET s == saved[i]
            e == s.edited
        IN Comparable(s) /\ NamesDiffer(e.headers) =>
             HasHeadersOf(Replayed(s), e, Message(s.flow[s.original.kind]))

-----------------------------------------------------------------------------
(* The inductive invariant. *)

TextFields == {"valid", "kind", "line", "status", "ctype", "headers", "body"}

TextOK(text) == DOMAIN text = TextFields /\ IsText(text.headers) /\ IsText(text.body)

\* The preview is that of the text in the editor, and of the message it was opened with.
SessionInv ==
    session # None =>
        LET s == session[1]
        IN /\ session = Some(s) /\ DOMAIN s = {"flow", "original", "text"} /\ s.flow \in Flows
           /\ s.original # None =>
                /\ \E side \in Sides : s.original = Some(Editable(s.flow, side))
                /\ s.text = Some(s.text[1]) /\ TextOK(s.text[1])
                /\ preview = Preview(s.original[1], s.text[1])

\* A body is read back as it was, or as a text, which an empty one becomes only when
\* something was typed.
EditedBody(old, new) ==
    \/ new = old /\ old.kind # "text"
    \/ /\ new.kind = "text" /\ old.kind # "binary" /\ IsText(new.text)
       /\ old.kind = "empty" => new.text # <<>>

\* A saved filter is the one that is generated from what it is saved with.
SavedOK(s) ==
    /\ s.flow \in Flows /\ \E side \in Sides : s.original = Editable(s.flow, side)
    /\ IsText(s.edited.headers) /\ EditedBody(s.original.body, s.edited.body)
    /\ GenerateFilter(s.original, s.edited) = Some(s.filter)

SavedInv == IsText(saved) /\ \A s \in ToSet(saved) : SavedOK(s)

EditInv == SessionInv /\ SavedInv

=============================================================================
