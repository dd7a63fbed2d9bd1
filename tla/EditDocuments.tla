--------------------------- MODULE EditDocuments ---------------------------
(***************************************************************************)
(* EditSession with the walks over JSON values and syntax trees that it    *)
(* takes as constants, and what becomes of a body on the way through them. *)
(* The walks are recursive, so that this module is only model-checked.     *)
(***************************************************************************)
EXTENDS EditSession

-----------------------------------------------------------------------------
(* JSON values. *)

\* Fault: the added items are counted from the first added one.
AddedItems_Renumbered(at, common, items) ==
    [i \in 1..(Len(items) - common) |->
        JsonEvent("insert", Append(at, Index(i - 1)), Some(items[common + i]))]

AddedItems(at, common, items) ==
    [i \in 1..(Len(items) - common) |->
        JsonEvent("insert", Append(at, Index(common + i - 1)), Some(items[common + i]))]

\* The items behind the common ones, each removed at the index it had.
RemovedItems(at, common, items) ==
    [i \in 1..(Len(items) - common) |->
        JsonEvent("delete", Append(at, Index(common + i - 1)), None)]

RECURSIVE DiffJsonValue(_, _, _)
DiffJsonValue(at, a, b) ==
    IF a = b THEN <<>>
    ELSE IF IsObject(a) /\ IsObject(b) THEN
        LET old   == SetToSeq(DOMAIN a.obj)
            added == SetToSeq(DOMAIN b.obj \ DOMAIN a.obj)
        IN FlattenSeq([i \in DOMAIN old |->
                LET k == old[i] IN
                IF k \in DOMAIN b.obj THEN DiffJsonValue(Append(at, Key(k)), a.obj[k], b.obj[k])
                ELSE <<JsonEvent("delete", Append(at, Key(k)), None)>>])
           \o [i \in DOMAIN added |->
                JsonEvent("insert", Append(at, Key(added[i])), Some(b.obj[added[i]]))]
    ELSE IF IsArray(a) /\ IsArray(b) THEN
        LET common == IF Len(a.arr) < Len(b.arr) THEN Len(a.arr) ELSE Len(b.arr)
        IN FlattenSeq([i \in 1..common |->
                DiffJsonValue(Append(at, Index(i - 1)), a.arr[i], b.arr[i])])
           \o RemovedItems(at, common, a.arr) \o AddedItems(at, common, b.arr)
    ELSE <<JsonEvent("replace", at, Some(b))>>

\* One operation of the json_patch library on a value, if it can be carried out.
RECURSIVE PatchValue(_, _, _)
PatchValue(v, at, e) ==
    IF at = <<>> THEN IF e.op = "delete" THEN None ELSE e.value
    ELSE IF IsObject(v) /\ "key" \in DOMAIN at[1] THEN
        LET k    == at[1].key
            into(x) == Some([obj |-> [n \in DOMAIN v.obj \cup {k} |-> IF n = k THEN x ELSE v.obj[n]]])
        IN CASE Len(at) = 1 /\ e.op = "insert" -> into(e.value[1])
             [] Len(at) = 1 /\ e.op = "delete" /\ k \in DOMAIN v.obj ->
                    Some([obj |-> Without(v.obj, {k})])
             [] OTHER -> LET r == IF k \in DOMAIN v.obj THEN PatchValue(v.obj[k], Tail(at), e) ELSE None
                         IN IF r = None THEN None ELSE into(r[1])
    ELSE IF IsArray(v) /\ "index" \in DOMAIN at[1] THEN
        LET i == at[1].index + 1
        IN CASE Len(at) = 1 /\ e.op = "insert" /\ i <= Len(v.arr) + 1 ->
                    Some([arr |-> InsertAt(v.arr, i, e.value[1])])
             [] Len(at) = 1 /\ e.op = "delete" /\ i \in DOMAIN v.arr ->
                    Some([arr |-> RemoveAt(v.arr, i)])
             [] OTHER -> LET r == IF i \in DOMAIN v.arr THEN PatchValue(v.arr[i], Tail(at), e) ELSE None
                         IN IF r = None THEN None ELSE Some([arr |-> ReplaceAt(v.arr, i, r[1])])
    ELSE None

-----------------------------------------------------------------------------
(* Syntax trees. *)

\* smallest_node_covering_range, with the nodes above it.
RECURSIVE NodesCovering(_, _)
NodesCovering(node, r) ==
    LET i == SelectInSeq(node.children, LAMBDA child : Covers(child, r))
    IN <<node>> \o (IF i = 0 THEN <<>> ELSE NodesCovering(node.children[i], r))

-----------------------------------------------------------------------------
(* Properties. *)

\* No array loses more than one item.
RECURSIVE ShrinksByOne(_, _)
ShrinksByOne(a, b) ==
    CASE IsArray(a) /\ IsArray(b) ->
            /\ Len(a.arr) <= Len(b.arr) + 1
            /\ \A i \in DOMAIN a.arr \cap DOMAIN b.arr : ShrinksByOne(a.arr[i], b.arr[i])
      [] IsObject(a) /\ IsObject(b) ->
            \A k \in DOMAIN a.obj \cap DOMAIN b.obj : ShrinksByOne(a.obj[k], b.obj[k])
      [] OTHER -> TRUE

\* What is replaced is not empty and is found first where it was changed.
Unambiguous(original, edited) ==
    LET r == SingleTextReplacement(original, edited)
    IN r = None \/ (r[1].old # <<>> /\ IndexFirstSubSeq(r[1].old, original) = r[1].start + 1)

SameBody(text, edited) ==
    text = edited \/ (JsonOf(text) # None /\ JsonOf(text) = JsonOf(edited))

\* The saved filter gives the message it was made from the edited body, by a JSON patch,
\* a replacement of a text, or the body as a whole; where the body is JSON, up to white
\* space.  Not promised by the code are arrays that lose several items (diff_json_value
\* removes them at the indices they had), texts that were only inserted or that occur
\* before the change (replacen takes the first), and JSON typed into an empty body.
BodyReplayed ==
    \A i \in DOMAIN saved :
        LET s == saved[i]
            o == s.original.body
            e == s.edited.body
            json == JsonPatchOperations(SemanticDiff(s.original, s.edited)) # <<>>
        IN /\ Comparable(s) /\ e.kind = "text" /\ ~Replayed(s).drop
           /\ json => /\ o.kind = "text"
                      /\ ShrinksByOne(JsonOf(o.text)[1], JsonOf(e.text)[1])
           /\ ~json /\ o.kind = "text" => Unambiguous(o.text, e.text)
           => SameBody(Replayed(s).message.body.text, e.text)

\* A patch of a body that did not validate against the edited one is not relied on: the
\* filter sets the edited body, as the note that is written into it says.
FallsBackToBody ==
    \A i \in DOMAIN saved :
        LET s == saved[i]
        IN /\ Comparable(s) /\ ~Replayed(s).drop
           /\ s.original.body.kind = "text" /\ s.filter.note = "falling back"
           => SameBody(Replayed(s).message.body.text, s.edited.body.text)

=============================================================================
