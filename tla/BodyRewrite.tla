---------------------------- MODULE BodyRewrite ----------------------------
(***************************************************************************)
(* What the editor makes of an edited body: the events of a JSON diff and  *)
(* the patch they become (engine/json), or the one replacement of a text   *)
(* and the syntax node it lies in (engine/semantic).  Pure definitions,    *)
(* used by EditSession.                                                    *)
(*                                                                         *)
(* A JSON document is one character of a text; what it means is a constant *)
(* of the module.  So is what the tree-sitter library makes of a text.  A  *)
(* character is one byte long.                                             *)
(* The three walks over these trees are constants too: EditDocuments       *)
(* defines them, and what is proved about EditSession holds for any.       *)
(***************************************************************************)
EXTENDS FilterActions, FiniteSets

CONSTANTS
    Documents,      \* character -> the JSON value it is
    Pretty,         \* the documents with white space that means nothing
    Trees,          \* text -> root node of its syntax tree
    Media,          \* content type -> its language
    DiffJson(_, _, _),  \* diff_json_value: the events between two values, at a path
    PatchAt(_, _, _),   \* json_patch: a value after one operation at a path, if there is one
    Enclosing(_, _),    \* smallest_node_covering_range, with the nodes above it
    MaxSpan,        \* single_text_replacement: 4096
    MinAnchor,      \* common_text_anchor: 8
    MaxAnchor       \* common_text_anchor: 96

ASSUME RewriteAssumption ==
    /\ Pretty \subseteq DOMAIN Documents
    /\ MaxSpan \in Nat /\ MinAnchor \in Nat \ {0} /\ MaxAnchor \in Nat /\ MinAnchor <= MaxAnchor

Newline == "n"

Behind(s, n) == SubSeq(s, n + 1, Len(s))
Take(s, n)  == SubSeq(s, 1, IF n < Len(s) THEN n ELSE Len(s))

\* str::trim, with the newline for all white space.
Trim(text) ==
    LET solid == {i \in 1..Len(text) : text[i] # Newline}
        first == CHOOSE i \in solid : \A j \in solid : i <= j
        last  == CHOOSE i \in solid : \A j \in solid : i >= j
    IN IF solid = {} THEN <<>> ELSE SubSeq(text, first, last)

\* str::lines
Lines(text) ==
    FoldLeft(LAMBDA ls, c : IF c = Newline THEN Append(ls, <<>>)
                            ELSE [ls EXCEPT ![Len(ls)] = Append(@, c)], <<<<>>>>, text)

-----------------------------------------------------------------------------
(* JSON. *)

IsArray(v)  == "arr" \in DOMAIN v
IsObject(v) == "obj" \in DOMAIN v

\* serde_json::from_str
JsonOf(text) ==
    LET t == Trim(text)
    IN IF Len(t) = 1 /\ t[1] \in DOMAIN Documents THEN Some(Documents[t[1]]) ELSE None

\* serde_json::to_string; a value that is no document of the model is none that is looked for.
TextOf(v) ==
    LET ds == {d \in DOMAIN Documents \ Pretty : Documents[d] = v}
    IN IF ds = {} THEN <<"another document">> ELSE <<CHOOSE d \in ds : TRUE>>

Structured == {"{", "["} \cup {d \in DOMAIN Documents : IsArray(Documents[d]) \/ IsObject(Documents[d])}

LooksLikeJson(ctype, text) ==
    \/ ctype # None /\ Media[ctype[1]] = "json"
    \/ LET t == Trim(text) IN t # <<>> /\ t[1] \in Structured

Key(k)   == [key |-> k]
Index(i) == [index |-> i]

\* A DiffEvent; one of a JSON body holds the value it puts in.
Event(op, at, source)  == [op |-> op, at |-> at, source |-> source, value |-> None]
JsonEvent(op, at, new) == [op |-> op, at |-> at, source |-> "json", value |-> new]

\* push_json_body_diff_events, where both sides are JSON.
JsonDiffEvents(old, new, ctype) ==
    IF /\ LooksLikeJson(ctype, old) \/ LooksLikeJson(ctype, new)
       /\ JsonOf(old) # None /\ JsonOf(new) # None
    THEN Some(DiffJson(<<>>, JsonOf(old)[1], JsonOf(new)[1])) ELSE None

\* push_json_body_insert_event
JsonInsertEvent(new, ctype) ==
    IF LooksLikeJson(ctype, new) /\ JsonOf(new) # None
    THEN Some(<<JsonEvent("insert", <<>>, JsonOf(new))>>) ELSE None

\* push_body_diff_events: of JSON if it is JSON, else one event.
BodyEvents(old, new) ==
    LET ctype == IF old.ctype # None THEN old.ctype ELSE new.ctype
        json  == IF old.kind = "text" THEN JsonDiffEvents(old.text, new.text, ctype)
                 ELSE JsonInsertEvent(new.text, new.ctype)
    IN IF old = new THEN <<>>
       ELSE IF new.kind # "text" THEN <<Event("replace", <<>>, "binary")>>
       ELSE IF json # None THEN json[1]
       ELSE <<Event("replace", <<>>, "text")>>

\* json_patch_operations_from_diff_events
JsonPatchOperations(events) == Those(events, {e \in ToSet(events) : e.source = "json"})

\* apply_json_patch_rfc6902_json: all operations in order, or nothing.
ApplyJsonPatch(text, ops) ==
    LET v == FoldLeft(LAMBDA acc, e : IF acc = None THEN None ELSE PatchAt(acc[1], e.at, e),
                      JsonOf(text), ops)
    IN IF v = None THEN None ELSE Some(TextOf(v[1]))

\* validate_json_patch_operations
Validates(original, edited, ops) ==
    LET patched == ApplyJsonPatch(original, ops)
    IN patched # None /\ JsonOf(patched[1]) # None /\ JsonOf(patched[1]) = JsonOf(edited)

\* apply_json_patch as a filter calls it: what it makes of the documents it applies to.
JsonPatchCall(ops, ctype) ==
    LET texts == {t \in {<<d>> : d \in DOMAIN Documents} \cup {<<d, Newline>> : d \in DOMAIN Documents} :
                    ApplyJsonPatch(t, ops) # None}
    IN Rewriting([t \in texts |-> ApplyJsonPatch(t, ops)[1]], Some(ctype))

-----------------------------------------------------------------------------
(* Texts. *)

CommonPrefixLen(l, r) == Len(LongestCommonPrefix({l, r}))
CommonSuffixLen(l, r) == CommonPrefixLen(Reverse(l), Reverse(r))

\* What lies between a common prefix and a common suffix, from character start + 1 to
\* character end, unless it is too long.
Between(original, edited, start, suffix) ==
    LET old == SubSeq(original, start + 1, Len(original) - suffix)
        new == SubSeq(edited, start + 1, Len(edited) - suffix)
    IN IF (old = <<>> /\ new = <<>>) \/ Len(old) > MaxSpan \/ Len(new) > MaxSpan THEN None
       ELSE Some([start |-> start, end |-> Len(original) - suffix, old |-> old, new |-> new])

\* single_text_replacement: the suffix is common to what follows the prefix.
SingleTextReplacement(original, edited) ==
    LET start == CommonPrefixLen(original, edited)
    IN Between(original, edited, start,
               CommonSuffixLen(Behind(original, start), Behind(edited, start)))

Covers(node, r) == node.start <= r.start /\ r.end <= node.end

\* The innermost node of one of the kinds.
Nearest(nodes, kinds) ==
    LET i == SelectLastInSeq(nodes, LAMBDA node : node.kind \in kinds)
    IN IF i = 0 THEN None ELSE Some(nodes[i])

\* str::replacen(old, new, 1): an empty text is found at the start.
ReplaceOnce(text, old, new) ==
    IF old = <<>> THEN new \o text ELSE ReplaceFirstSubSeq(new, old, text)

\* expand_replacement_to_ancestor_kinds: to the whole of a string, if the change is in one.
Expanded(original, nodes, r) ==
    LET string == Nearest(nodes, {"string"})
        old    == SubSeq(original, string[1].start + 1, string[1].end)
    IN IF string = None \/ ReplaceOnce(old, r.old, r.new) = old THEN r
       ELSE [start |-> string[1].start, end |-> string[1].end,
             old |-> old, new |-> ReplaceOnce(old, r.old, r.new)]

\* ReplaceTextOnce, or a replacement that needs the names of the node, if it has any.
ReplacementIn(node, r) ==
    Replacement(IF node = None THEN {} ELSE node[1].names, r.old, r.new, FALSE)

\* The property, the declaration, or the attribute with its element, that a change is in.
\* A pair, an assignment or a declaration without the child that names it is passed over
\* like every other node, and has no such kind here; with names = {} the child is there
\* and is no name, which ends the walk.
JavascriptReplacement(original, nodes, r) ==
    LET property == Nearest(nodes, {"pair", "assignment"})
    IN ReplacementIn(property, IF property = None \/ property[1].names = {} THEN r
                               ELSE Expanded(original, nodes, r))

CssReplacement(nodes, r)  == ReplacementIn(Nearest(nodes, {"declaration"}), r)
HtmlReplacement(nodes, r) == ReplacementIn(Nearest(nodes, {"attribute"}), r)

\* extract_tree_sitter_anchor
AnchoredReplacement(language, original, r) ==
    LET nodes == Enclosing(Trees[original], r)
    IN CASE language = "javascript" -> JavascriptReplacement(original, nodes, r)
         [] language = "css"        -> CssReplacement(nodes, r)
         [] language = "html"       -> HtmlReplacement(nodes, r)

\* The action for a replacement, with an anchor where a syntax tree gives one.
ActionFromIntent(language, original, r) ==
    IF /\ language \in {"javascript", "css", "html"}
       /\ original \in DOMAIN Trees /\ Covers(Trees[original], r)
    THEN AnchoredReplacement(language, original, r)
    ELSE Replacement({}, r.old, r.new, FALSE)

\* extract_body_rewrite_intent and *_body_action_from_intent; a change too long for one
\* replacement gives no action.
BodyActionFromIntent(original, edited, ctype) ==
    LET r        == SingleTextReplacement(original, edited)
        language == IF ctype = None THEN "text" ELSE Media[ctype[1]]
    IN IF original = edited \/ r = None THEN None
       ELSE Some(ActionFromIntent(language, original, r[1]))

\* common_text_anchor: the first long line that is still there, or else how it started.
CommonTextAnchor(original, edited) ==
    LET lines == Those(Lines(original), {l \in ToSet(Lines(original)) :
                    Len(l) >= MinAnchor /\ Occurs(Take(l, MaxAnchor), edited)})
    IN IF lines # <<>> THEN Some(Take(lines[1], MaxAnchor))
       ELSE IF Len(original) >= MinAnchor THEN Some(Take(original, MaxAnchor)) ELSE None

\* response_body_rewrite_anchor
ResponseBodyRewriteAnchor(original, edited) ==
    LET o == Trim(original) e == Trim(edited)
    IN IF o = <<>> \/ o = e THEN None ELSE CommonTextAnchor(o, e)

=============================================================================
