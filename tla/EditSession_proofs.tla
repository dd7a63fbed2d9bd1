------------------------- MODULE EditSession_proofs -------------------------
(***************************************************************************)
(* Proofs about EditSession, for any captured messages and anything that   *)
(* is typed, and for any JSON diff, JSON patch and syntax tree.            *)
(***************************************************************************)
EXTENDS EditSession, FoldTheorems

-----------------------------------------------------------------------------
(* The elements of a sequence that are in a set. *)

Choosing == INSTANCE FoldTheorems WITH FoldOp <- Picked, FoldKept <- IsSeq

LEMMA TextIsSeq == \A t : IsText(t) <=> IsSeq(t)
BY DEF IsText, IsSeq

LEMMA ThoseFold ==
    ASSUME NEW s, NEW K
    PROVE  Those(s, K) = Choosing!FoldOf(K, <<>>, s)[DOMAIN s]
BY DEF Those, FoldLeft, MapThenFoldSet, Max, Choosing!FoldOf, Choosing!IsFold,
       Choosing!FoldTurn, Choosing!Max

LEMMA ThoseOfNone == \A K : Those(<<>>, K) = <<>>
<1> SUFFICES ASSUME NEW K PROVE Those(<<>>, K) = <<>>
  OBVIOUS
<1>1. DOMAIN <<>> = {}
  OBVIOUS
<1> QED BY <1>1, ThoseFold, Choosing!FoldNothing

LEMMA ThoseOfMore ==
    ASSUME NEW s, NEW x, NEW K, IsSeq(s)
    PROVE  Those(Append(s, x), K) = Picked(K, Those(s, K), x)
<1>1. Choosing!IsSeq(s)
  BY DEF IsSeq, Choosing!IsSeq, ToSet, Choosing!ToSet
<1>2. Choosing!FoldOf(K, <<>>, Append(s, x))[DOMAIN Append(s, x)]
        = Picked(K, Choosing!FoldOf(K, <<>>, s)[DOMAIN s], x)
  BY <1>1, Choosing!FoldAppended
<1> QED BY <1>2, ThoseFold

\* A sequence without elements is empty.
LEMMA NothingIn ==
    ASSUME NEW s, IsSeq(s), ToSet(s) = {}
    PROVE  s = <<>>
<1>1. s \in Seq({})
  BY DEF IsSeq
<1>2. Len(s) \in Nat /\ (Len(s) # 0 => s[1] \in {})
  BY <1>1, LenProperties, ElementOfSeq
<1> QED BY <1>1, <1>2, EmptySeq

LEMMA ThoseFacts ==
    ASSUME NEW s, NEW K, IsSeq(s)
    PROVE  IsSeq(Those(s, K)) /\ ToSet(Those(s, K)) = ToSet(s) \cap K
<1> DEFINE S == ToSet(s)
           Q == {t \in Seq(S) : IsSeq(Those(t, K)) /\ ToSet(Those(t, K)) = ToSet(t) \cap K}
<1> HIDE DEF S
<1>1. <<>> \in Q
  BY ThoseOfNone, EmptyIsSeq, EmptySeq
<1>2. Extends(Q, S)
  <2> SUFFICES ASSUME NEW t \in Q, NEW x \in S PROVE Append(t, x) \in Q
    BY DEF Extends
  <2>1. t \in Seq(S) /\ IsSeq(t) /\ IsSeq(Those(t, K)) /\ ToSet(Those(t, K)) = ToSet(t) \cap K
    BY OwnElements
  <2>2. Append(t, x) \in Seq(S) /\ ToSet(Append(t, x)) = ToSet(t) \cup {x}
    BY <2>1, AppendedSet, AppendProperties
  <2>3. Those(Append(t, x), K) = Picked(K, Those(t, K), x)
    BY <2>1, ThoseOfMore
  <2>4. CASE x \in K
    <3>1. Those(Append(t, x), K) = Append(Those(t, K), x)
      BY <2>3, <2>4 DEF Picked
    <3>2. IsSeq(Append(Those(t, K), x)) /\ ToSet(Append(Those(t, K), x)) = ToSet(Those(t, K)) \cup {x}
      BY <2>1, AppendedSeq, AppendedSet
    <3> QED BY <2>1, <2>2, <2>4, <3>1, <3>2
  <2>5. CASE x \notin K
    <3>1. Those(Append(t, x), K) = Those(t, K)
      BY <2>3, <2>5 DEF Picked
    <3> QED BY <2>1, <2>2, <2>5, <3>1
  <2> QED BY <2>4, <2>5
<1>3. Q = Seq(S)
  <2>1. Q \in SUBSET Seq(S)
    OBVIOUS
  <2> HIDE DEF Q
  <2> QED BY <1>1, <1>2, <2>1, SeqSetInduction
<1>4. s \in Seq(S)
  BY DEF IsSeq, S
<1> QED BY <1>3, <1>4

LEMMA ThoseEmpty ==
    ASSUME NEW s, NEW K, IsSeq(s), ToSet(s) \cap K = {}
    PROVE  Those(s, K) = <<>>
BY ThoseFacts, NothingIn

\* All of them are as they were.
LEMMA ThoseAll ==
    ASSUME NEW s, NEW K, IsSeq(s), ToSet(s) \subseteq K
    PROVE  Those(s, K) = s
<1> DEFINE S == ToSet(s)
           Q == {t \in Seq(S) : Those(t, K) = t}
<1>0. S \subseteq K
  OBVIOUS
<1> HIDE DEF S
<1>1. <<>> \in Q
  BY ThoseOfNone, EmptySeq
<1>2. Extends(Q, S)
  <2> SUFFICES ASSUME NEW t \in Q, NEW x \in S PROVE Append(t, x) \in Q
    BY DEF Extends
  <2>1. t \in Seq(S) /\ IsSeq(t) /\ Those(t, K) = t
    BY OwnElements
  <2>2. Append(t, x) \in Seq(S)
    BY <2>1, AppendProperties
  <2>3. Those(Append(t, x), K) = Picked(K, Those(t, K), x)
    BY <2>1, ThoseOfMore
  <2> QED BY <1>0, <2>1, <2>2, <2>3 DEF Picked
<1>3. Q = Seq(S)
  <2>1. Q \in SUBSET Seq(S)
    OBVIOUS
  <2> HIDE DEF Q
  <2> QED BY <1>1, <1>2, <2>1, SeqSetInduction
<1>4. s \in Seq(S)
  BY DEF IsSeq, S
<1> QED BY <1>3, <1>4

\* A function on 1..n is a sequence of its values.
LEMMA MappedSeq ==
    ASSUME NEW n \in Nat, NEW f, f = [i \in 1..n |-> f[i]]
    PROVE  IsSeq(f) /\ Len(f) = n /\ ToSet(f) = {f[i] : i \in 1..n}
<1> DEFINE S == {f[i] : i \in 1..n}
<1>1. f \in [1..n -> S] /\ DOMAIN f = 1..n
  OBVIOUS
<1>2. f \in Seq(S) /\ Len(f) = n
  <2> HIDE DEF S
  <2> QED BY <1>1, IsASeq, LenProperties
<1>3. IsSeq(f)
  BY <1>2, OwnElements
<1> QED BY <1>1, <1>2, <1>3 DEF ToSet

-----------------------------------------------------------------------------
(* Headers. *)

LEMMA SetToSeqFacts ==
    ASSUME NEW S, IsFiniteSet(S)
    PROVE  /\ Cardinality(S) \in Nat /\ SetToSeq(S) \in [1..Cardinality(S) -> S]
           /\ IsInjective(SetToSeq(S)) /\ \A x \in S : \E i \in 1..Cardinality(S) : SetToSeq(S)[i] = x
<1> DEFINE n == Cardinality(S)
           D == 1..n
           f == SetToSeq(S)
<1>1. n \in Nat /\ \E g \in [D -> S] : IsInjective(g)
  BY FS_CardinalityType DEF ExistsBijection, Bijection, Injection
<1>2. f \in [D -> S] /\ IsInjective(f)
  BY <1>1 DEF SetToSeq
<1>3. f \in Injection(D, S) /\ Cardinality(D) = n
  BY <1>1, <1>2, FS_Interval DEF Injection
<1>4. f \in Surjection(D, S)
  <2> HIDE DEF D, n, f
  <2> QED BY <1>3, FS_Injection DEF n
<1> QED BY <1>1, <1>2, <1>4 DEF Surjection

\* The headers in the editor: each of the captured ones, once.
LEMMA HeaderListFacts ==
    ASSUME NEW headers, IsFiniteSet(DOMAIN headers)
    PROVE  /\ IsSeq(HeaderList(headers)) /\ NamesDiffer(HeaderList(headers))
           /\ ToSet(HeaderList(headers)) = {<<n, headers[n]>> : n \in DOMAIN headers}
<1> DEFINE S == DOMAIN headers
           k == Cardinality(S)
           f == SetToSeq(S)
           hl == [i \in 1..k |-> <<f[i], headers[f[i]]>>]
<1>1. k \in Nat /\ f \in [1..k -> S] /\ IsInjective(f) /\ \A x \in S : \E i \in 1..k : f[i] = x
  BY SetToSeqFacts
<1>2. HeaderList(headers) = hl
  BY <1>1 DEF HeaderList
<1> HIDE DEF k, f
<1>3. DOMAIN hl = 1..k /\ \A i \in 1..k : hl[i] = <<f[i], headers[f[i]]>>
  OBVIOUS
<1>4. IsSeq(hl) /\ ToSet(hl) = {hl[i] : i \in 1..k}
  <2>1. hl = [i \in 1..k |-> hl[i]]
    OBVIOUS
  <2> HIDE DEF hl
  <2> QED BY <1>1, <2>1, MappedSeq
<1> HIDE DEF hl
<1>5. NamesDiffer(hl)
  BY <1>1, <1>3 DEF NamesDiffer, IsInjective
<1>6. ToSet(hl) = {<<n, headers[n]>> : n \in S}
  <2>1. \A i \in 1..k : f[i] \in S
    BY <1>1
  <2>2. ASSUME NEW h \in ToSet(hl) PROVE \E n \in S : h = <<n, headers[n]>>
    <3>1. PICK i \in 1..k : h = hl[i]
      BY <1>4
    <3> QED BY <1>3, <2>1, <3>1
  <2>3. ASSUME NEW n \in S PROVE <<n, headers[n]>> \in ToSet(hl)
    <3>1. PICK i \in 1..k : f[i] = n
      BY <1>1
    <3> QED BY <1>3, <1>4, <3>1
  <2> QED BY <2>2, <2>3
<1> QED BY <1>2, <1>4, <1>5, <1>6

\* The value of a header is that of one of that name, if there is one.
LEMMA HeaderValueFacts ==
    ASSUME NEW hs, IsSeq(hs), NEW name
    PROVE  \/ HeaderValue(hs, name) = None /\ \A h \in ToSet(hs) : h[1] # name
           \/ \E i \in DOMAIN hs : hs[i][1] = name /\ HeaderValue(hs, name) = Some(hs[i][2])
<1> DEFINE I == {i \in 1..Len(hs) : hs[i][1] = name}
           i0 == SelectInSeq(hs, LAMBDA h : h[1] = name)
<1>0. DOMAIN hs = 1..Len(hs) /\ Len(hs) \in Nat
  BY LenProperties DEF IsSeq
<1>1. i0 = IF I # {} THEN Min(I) ELSE 0
  BY DEF SelectInSeq
<1>2. HeaderValue(hs, name) = IF i0 = 0 THEN None ELSE Some(hs[i0][2])
  BY DEF HeaderValue
<1>3. CASE I = {}
  <2>1. \A i \in DOMAIN hs : hs[i][1] # name
    BY <1>0, <1>3
  <2>2. \A h \in ToSet(hs) : h[1] # name
    BY <2>1 DEF ToSet
  <2>3. HeaderValue(hs, name) = None
    <3> HIDE DEF i0, I
    <3> QED BY <1>1, <1>2, <1>3
  <2> QED BY <2>2, <2>3
<1>4. CASE I # {}
  <2>1. I \in SUBSET Nat
    BY <1>0
  <2>2. \E x \in I : \A y \in I : x <= y
    BY <1>4, <2>1, HasLeast
  <2>3. Min(I) \in I
    <3> HIDE DEF I
    <3> QED BY <2>2 DEF Min
  <2>4. i0 \in I
    <3> HIDE DEF I, i0
    <3> QED BY <1>1, <1>4, <2>3
  <2>5. i0 \in DOMAIN hs /\ i0 # 0 /\ hs[i0][1] = name
    BY <1>0, <2>4
  <2>6. HeaderValue(hs, name) = Some(hs[i0][2])
    BY <1>2, <2>5
  <2> HIDE DEF i0
  <2> QED BY <2>5, <2>6
<1> QED BY <1>3, <1>4

\* A name that there is has a value.
LEMMA NamedHasValue ==
    ASSUME NEW hs, IsSeq(hs), NEW h \in ToSet(hs)
    PROVE  HeaderValue(hs, h[1]) # None
BY HeaderValueFacts DEF None, Some

\* Where names are different, the value of a header is its own.
LEMMA OwnValue ==
    ASSUME NEW hs, IsSeq(hs), NamesDiffer(hs), NEW h \in ToSet(hs)
    PROVE  HeaderValue(hs, h[1]) = Some(h[2])
<1>1. PICK j \in DOMAIN hs : hs[j] = h
  BY DEF ToSet
<1>2. PICK i \in DOMAIN hs : hs[i][1] = h[1] /\ HeaderValue(hs, h[1]) = Some(hs[i][2])
  BY HeaderValueFacts
<1>3. i = j
  BY <1>1, <1>2 DEF NamesDiffer
<1> QED BY <1>1, <1>2, <1>3

-----------------------------------------------------------------------------
(* A message that is not edited. *)

\* Facts about what the editor shows of a message.
LEMMA EditableFacts ==
    ASSUME NEW flow \in Flows, NEW side \in Sides, NEW o, o = Editable(flow, side)
    PROVE  /\ o = [kind |-> side, line |-> flow.line, status |-> flow[side].status,
                   headers |-> HeaderList(flow[side].headers), body |-> o.body]
           /\ o.body = EditableBody(Shown(flow[side]), ContentType(flow[side].headers))
           /\ CapturedOK(flow[side]) /\ IsText(flow.line.path)
           /\ IsSeq(o.headers) /\ NamesDiffer(o.headers)
           /\ ToSet(o.headers) = {<<n, flow[side].headers[n]>> : n \in DOMAIN flow[side].headers}
<1>1. /\ o = [kind |-> side, line |-> flow.line, status |-> flow[side].status,
              headers |-> HeaderList(flow[side].headers), body |-> o.body]
      /\ o.body = EditableBody(Shown(flow[side]), ContentType(flow[side].headers))
  BY DEF Editable
<1>2. CapturedOK(flow[side]) /\ IsText(flow.line.path)
  BY EditAssumption
<1>3. IsFiniteSet(DOMAIN flow[side].headers) /\ o.headers = HeaderList(flow[side].headers)
  BY <1>2 DEF CapturedOK, Editable
<1> QED BY <1>1, <1>2, <1>3, HeaderListFacts

\* Nothing is different between a message and itself.
LEMMA NoHeaderChanges ==
    ASSUME NEW o, IsSeq(o.headers), NamesDiffer(o.headers)
    PROVE  RemovedHeaders(o, o) = <<>> /\ ChangedHeaders(o, o) = <<>> /\ AddedHeaders(o, o) = <<>>
<1> DEFINE hs == o.headers
           K == {h \in ToSet(hs) : HeaderValue(hs, h[1]) \notin {None, Some(h[2])}}
<1>1. Lacking(hs, hs) = {}
  BY NamedHasValue DEF Lacking
<1>2. K = {}
  BY OwnValue
<1>3. Those(hs, Lacking(hs, hs)) = <<>>
  BY <1>1, ThoseEmpty
<1>4. Those(hs, K) = <<>>
  <2> HIDE DEF K
  <2> QED BY <1>2, ThoseEmpty
<1> QED BY <1>3, <1>4 DEF RemovedHeaders, ChangedHeaders, AddedHeaders

LEMMA NoChanges ==
    ASSUME NEW o, IsSeq(o.headers), NamesDiffer(o.headers)
    PROVE  ~HasChanges(o, o)
BY NoHeaderChanges DEF HasChanges

LEMMA NoEvents ==
    ASSUME NEW o, IsSeq(o.headers), NamesDiffer(o.headers)
    PROVE  SemanticDiff(o, o) = <<>>
<1> DEFINE line == <<"method", "scheme", "host", "path", "query">>
           K == {p \in ToSet(line) : o.line[p] # o.line[p]}
<1>1. IsSeq(line)
  <2>1. line \in Seq({"method", "scheme", "host", "path", "query"})
    OBVIOUS
  <2> HIDE DEF line
  <2> QED BY <2>1, OwnElements
<1>2. Those(line, K) = <<>>
  <2> HIDE DEF line
  <2>1. K = {}
    OBVIOUS
  <2> HIDE DEF K
  <2> QED BY <1>1, <2>1, ThoseEmpty
<1>3. BodyEvents(o.body, o.body) = <<>>
  BY DEF BodyEvents
<1> DEFINE parts == Those(line, K)
           Part(p)    == Event("replace", <<Key(p)>>, "line")
           Of(op, hs) == [i \in DOMAIN hs |-> Event(op, <<Key(hs[i][1])>>, "header")]
<1>4. SemanticDiff(o, o) =
        [i \in DOMAIN parts |-> Part(parts[i])] \o <<>>
        \o Of("replace", ChangedHeaders(o, o)) \o Of("delete", RemovedHeaders(o, o))
        \o Of("insert", AddedHeaders(o, o)) \o BodyEvents(o.body, o.body)
  BY DEF SemanticDiff
<1>5. \A op : Of(op, <<>>) = <<>>
  OBVIOUS
<1>6. [i \in DOMAIN parts |-> Part(parts[i])] = <<>>
  <2> HIDE DEF Part, parts
  <2>1. DOMAIN parts = {}
    BY <1>2 DEF parts
  <2> QED BY <2>1
<1> HIDE DEF parts, Part, Of
<1>7. SemanticDiff(o, o) = <<>> \o <<>> \o <<>> \o <<>> \o <<>> \o <<>>
  BY <1>3, <1>4, <1>5, <1>6, NoHeaderChanges
<1> QED BY <1>7

\* What is shown is read back as it was: the newline that is added is taken away again.
LEMMA ParsedBack ==
    ASSUME NEW o, o = [kind |-> o.kind, line |-> o.line, status |-> o.status,
                       headers |-> o.headers, body |-> o.body],
           o.body = [kind |-> o.body.kind, text |-> o.body.text, ctype |-> o.body.ctype],
           o.body.kind \in {"text", "binary", "empty"},
           IsSeq(o.headers), \A h \in ToSet(o.headers) : h[1] # "# comment"
    PROVE  Parse(ToEditText(o), o) = Some(o)
<1> DEFINE t == ToEditText(o)
<1>1. /\ t.valid /\ t.kind = o.kind /\ t.line = o.line /\ t.status = o.status /\ t.ctype = None
      /\ t.headers = o.headers
  BY DEF ToEditText
<1>2. t.body = CASE o.body.kind = "text" -> IF EndsWithNewline(o.body.text) THEN o.body.text
                                           ELSE Append(o.body.text, Newline)
                [] o.body.kind = "binary" -> <<"#">>
                [] o.body.kind = "empty"  -> <<>>
  BY DEF ToEditText
<1> HIDE DEF t
<1>3. ParseBody(t, o) = o.body
  <2>1. CASE o.body.kind = "text"
    <3>1. CASE EndsWithNewline(o.body.text)
      BY <1>1, <1>2, <2>1, <3>1 DEF ParseBody
    <3>2. CASE ~EndsWithNewline(o.body.text)
      BY <1>1, <1>2, <2>1, <3>2 DEF ParseBody
    <3> QED BY <3>1, <3>2
  <2>2. CASE o.body.kind = "binary"
    BY <2>2 DEF ParseBody
  <2>3. CASE o.body.kind = "empty"
    BY <1>2, <2>3 DEF ParseBody
  <2> QED BY <2>1, <2>2, <2>3
<1>4. ParseHeaders(o.headers) = o.headers
  BY ThoseAll DEF ParseHeaders
<1> QED BY <1>1, <1>3, <1>4 DEF Parse, t

-----------------------------------------------------------------------------
(* The inductive invariant. *)

\* The body that the editor shows, and where it comes from.
LEMMA ShownBody ==
    ASSUME NEW flow \in Flows, NEW side \in Sides, NEW b, b = Editable(flow, side).body
    PROVE  /\ b = [kind |-> b.kind, text |-> b.text, ctype |-> b.ctype] /\ IsSeq(b.text)
           /\ b.kind \in {"text", "binary", "empty"} /\ (b.kind = "empty" => b.text = <<>>)
           /\ b.kind = "binary" => flow[side].body.kind \in {"gzip", "image", "bytes"}
           /\ b.ctype \in {None, ContentType(flow[side].headers)}
<1> DEFINE m == flow[side]
           d == DecodeBodyByHeaders(m)
           s == Shown(m)
           Kinds == {"no path", "read error", "gzip dump", "dump", "text"}
<1>1. b = EditableBody(s, ContentType(m.headers))
  BY DEF Editable
<1>2. DOMAIN m.body = {"kind", "text", "plain"} /\ IsSeq(m.body.plain)
  BY EditableFacts, TextIsSeq DEF CapturedOK
<1>3. \A x, y : IsSeq(<<x, y>> \o m.body.plain)
  <2> SUFFICES ASSUME NEW x, NEW y PROVE IsSeq(<<x, y>> \o m.body.plain)
    OBVIOUS
  <2>1. <<x, y>> \in Seq({x, y})
    OBVIOUS
  <2>2. IsSeq(<<x, y>>)
    <3> DEFINE two == <<x, y>>
    <3> HIDE DEF two
    <3>1. two \in Seq({x, y})
      BY <2>1 DEF two
    <3>2. IsSeq(two)
      BY <3>1, OwnElements
    <3> QED BY <3>2 DEF two
  <2> QED BY <1>2, <2>2, JoinedSeq
<1> HIDE DEF m
<1>4. /\ d.plain = m.body.plain
      /\ d.kind \in {"gzip", "image", "bytes"} => m.body.kind \in {"gzip", "image", "bytes"}
  BY <1>2 DEF DecodeBodyByHeaders
<1> HIDE DEF d
<1>5. /\ s.kind \in Kinds /\ IsSeq(s.text)
      /\ s.kind \in {"gzip dump", "dump"} => m.body.kind \in {"gzip", "image", "bytes"}
  <2>1. CASE m.body.kind \in {"absent", "unread"}
    BY <2>1, EmptyIsSeq DEF Shown
  <2>2. CASE m.body.kind = "events"
    <3>1. s = ReadSseBodyFiles(m.body)
      BY <2>2 DEF Shown
    <3>2. IsSeq(<<"<< SSE >>", Newline>> \o m.body.plain)
      BY <1>3
    <3>3. s.kind = "text" /\ s.text = <<"<< SSE >>", Newline>> \o m.body.plain
      <4> HIDE DEF s
      <4> QED BY <3>1 DEF ReadSseBodyFiles
    <3> QED BY <3>2, <3>3
  <2>4. CASE m.body.kind = "unread events"
    <3> DEFINE one == <<"<read SSE body error>">>
    <3>1. one \in Seq({"<read SSE body error>"})
      OBVIOUS
    <3>2. s = [kind |-> "text", text |-> one]
      BY <2>4 DEF Shown
    <3> HIDE DEF one, s
    <3>3. IsSeq(one) /\ s.kind = "text" /\ s.text = one
      BY <3>1, <3>2, OwnElements
    <3> QED BY <3>3
  <2>3. CASE m.body.kind \notin {"absent", "unread", "events", "unread events"}
    <3>1. s = FormatBodyForDisplay(d)
      BY <2>3 DEF Shown, d
    <3> HIDE DEF s
    <3>2. CASE d.kind = "gzip"
      BY <1>2, <1>4, <3>1, <3>2 DEF FormatBodyForDisplay
    <3>3. CASE d.kind \in {"image", "bytes"}
      BY <1>4, <3>1, <3>3, EmptyIsSeq DEF FormatBodyForDisplay
    <3>4. CASE d.kind = "base64"
      BY <1>3, <1>4, <3>1, <3>4 DEF FormatBodyForDisplay
    <3>5. CASE d.kind \notin {"gzip", "image", "bytes", "base64"}
      BY <1>2, <1>4, <3>1, <3>5 DEF FormatBodyForDisplay
    <3> QED BY <3>2, <3>3, <3>4, <3>5
  <2> QED BY <2>1, <2>2, <2>3, <2>4
<1> HIDE DEF s
<1>6. CASE s.kind \in {"no path", "read error"}
  <2>1. b = [kind |-> "empty", text |-> <<>>, ctype |-> None]
    BY <1>1, <1>6 DEF EditableBody
  <2> QED BY <2>1, EmptyIsSeq
<1>7. CASE s.kind \in {"gzip dump", "dump"}
  <2>1. b = IF Trim(s.text) = <<>> THEN [kind |-> "binary", text |-> <<>>, ctype |-> ContentType(m.headers)]
            ELSE [kind |-> "text", text |-> s.text, ctype |-> ContentType(m.headers)]
    BY <1>1, <1>7 DEF EditableBody
  <2>2. /\ b.kind \in {"binary", "text"} /\ b.text \in {<<>>, s.text} /\ b.ctype = ContentType(m.headers)
        /\ b = [kind |-> b.kind, text |-> b.text, ctype |-> b.ctype]
    <3>1. CASE Trim(s.text) = <<>>
      BY <2>1, <3>1
    <3>2. CASE Trim(s.text) # <<>>
      BY <2>1, <3>2
    <3> QED BY <3>1, <3>2
  <2> QED BY <1>5, <1>7, <2>2, EmptyIsSeq DEF m
<1>9. CASE s.kind = "text"
  BY <1>1, <1>5, <1>9, EmptyIsSeq DEF EditableBody, m
<1> QED BY <1>5, <1>6, <1>7, <1>9

\* The text of a message is a text.
LEMMA ShownText ==
    ASSUME NEW flow \in Flows, NEW side \in Sides, NEW o, o = Editable(flow, side)
    PROVE  TextOK(ToEditText(o)) /\ Parse(ToEditText(o), o) = Some(o)
<1> DEFINE b == o.body
           t == ToEditText(o)
<1>1. /\ b = [kind |-> b.kind, text |-> b.text, ctype |-> b.ctype] /\ IsSeq(b.text)
      /\ b.kind \in {"text", "binary", "empty"}
  BY ShownBody
<1>2. IsSeq(o.headers)
  BY EditableFacts
<1>3. o = [kind |-> o.kind, line |-> o.line, status |-> o.status, headers |-> o.headers, body |-> o.body]
  BY DEF Editable
<1>4. Parse(t, o) = Some(o)
  <2>1. ASSUME NEW h \in ToSet(o.headers) PROVE h[1] # "# comment"
    <3>1. PICK n \in DOMAIN flow[side].headers : h = <<n, flow[side].headers[n]>>
      BY EditableFacts
    <3>2. "# comment" \notin DOMAIN flow[side].headers
      BY EditableFacts DEF CapturedOK
    <3> QED BY <3>1, <3>2
  <2> QED BY <1>1, <1>2, <1>3, <2>1, ParsedBack
<1>5. IsSeq(t.body)
  <2>1. t.body = CASE b.kind = "text" -> IF EndsWithNewline(b.text) THEN b.text ELSE Append(b.text, Newline)
                   [] b.kind = "binary" -> <<"#">>
                   [] b.kind = "empty"  -> <<>>
    BY DEF ToEditText
  <2>2. IsSeq(Append(b.text, Newline)) /\ IsSeq(<<>>) /\ IsSeq(<<"#">>)
    <3> DEFINE one == <<"#">>
    <3>1. one \in Seq({"#"})
      OBVIOUS
    <3> HIDE DEF one
    <3>2. IsSeq(one)
      BY <3>1, OwnElements
    <3> QED BY <1>1, <3>2, AppendedSeq, EmptyIsSeq DEF one
  <2> HIDE DEF b, t
  <2> QED BY <1>1, <2>1, <2>2
<1>6. DOMAIN t = TextFields /\ t.headers = o.headers
  BY DEF ToEditText, TextFields
<1> QED BY <1>2, <1>4, <1>5, <1>6, TextIsSeq DEF TextOK

\* What is typed is a text.
LEMMA TypedText ==
    ASSUME NEW o, TextOK(ToEditText(o)), NEW text, TextOK(text), NEW t \in Typed(o, text)
    PROVE  TextOK(t)
<1>1. DOMAIN text = TextFields /\ IsSeq(text.headers) /\ IsSeq(text.body)
  BY TextIsSeq DEF TextOK
<1>2. \A b : IsSeq(b) => TextOK([text EXCEPT !.body = b])
  BY <1>1, TextIsSeq DEF TextOK, TextFields
<1>3. \A hs : IsSeq(hs) => TextOK([text EXCEPT !.headers = hs])
  BY <1>1, TextIsSeq DEF TextOK, TextFields
<1>4. \A f \in TextFields \ {"headers", "body"} : \A v : TextOK([text EXCEPT ![f] = v])
  BY <1>1, TextIsSeq DEF TextOK, TextFields
<1> DEFINE hs == text.headers
<1>5. \A i \in DOMAIN hs : IsSeq(RemoveAt(hs, i))
  <2> SUFFICES ASSUME NEW i \in DOMAIN hs PROVE IsSeq(RemoveAt(hs, i))
    OBVIOUS
  <2>1. hs \in Seq(ToSet(hs)) /\ Len(hs) \in Nat /\ DOMAIN hs = 1..Len(hs)
    BY <1>1, LenProperties DEF IsSeq
  <2> HIDE DEF hs
  <2>2. SubSeq(hs, 1, i - 1) \in Seq(ToSet(hs))
    <3>1. i - 1 \in Nat /\ 0 <= i - 1 /\ i - 1 <= Len(hs) /\ 0 \in Nat /\ 0 + 1 = 1
      BY <2>1
    <3>2. SubSeq(hs, 0 + 1, i - 1) \in Seq(ToSet(hs))
      BY <2>1, <3>1, SliceFacts
    <3> QED BY <3>2
  <2>3. SubSeq(hs, i + 1, Len(hs)) \in Seq(ToSet(hs))
    <3>1. i \in Nat /\ i <= Len(hs)
      BY <2>1
    <3> QED BY <2>1, <3>1, SliceFacts
  <2>4. SubSeq(hs, 1, i - 1) \o SubSeq(hs, i + 1, Len(hs)) \in Seq(ToSet(hs))
    BY <2>2, <2>3, ConcatProperties
  <2> QED BY <2>4, OwnElements DEF RemoveAt
<1>6. \A f : IsSeq(Append(hs, f)) /\ \A i \in DOMAIN hs : IsSeq([hs EXCEPT ![i] = f])
  <2> SUFFICES ASSUME NEW f PROVE IsSeq(Append(hs, f)) /\ \A i \in DOMAIN hs : IsSeq([hs EXCEPT ![i] = f])
    OBVIOUS
  <2> DEFINE S == ToSet(hs) \cup {f}
  <2>1. hs \in Seq(S) /\ f \in S /\ DOMAIN hs = 1..Len(hs)
    BY <1>1, SeqMonotonic, LenProperties DEF IsSeq
  <2> HIDE DEF S, hs
  <2>2. \A i \in DOMAIN hs : [hs EXCEPT ![i] = f] \in Seq(S)
    BY <2>1, ExceptSeq
  <2> QED BY <1>1, <2>2, AppendedSeq, OwnElements DEF hs
<1>7. \A b \in Drafts \cup {ToEditText(o).body} : IsSeq(b)
  BY EditAssumption, TextIsSeq DEF TextOK
<1>8. \/ \E b \in Drafts \cup {ToEditText(o).body} : t = [text EXCEPT !.body = b]
      \/ \E i \in DOMAIN hs : t = [text EXCEPT !.headers = RemoveAt(hs, i)]
      \/ \E f \in Fields : t = [text EXCEPT !.headers = Append(hs, f)]
      \/ \E i \in DOMAIN hs, f \in Fields : t = [text EXCEPT !.headers = [hs EXCEPT ![i] = f]]
      \/ \E f \in TextFields \ {"headers", "body"} : \E v : t = [text EXCEPT ![f] = v]
  <2>1. {"valid", "kind", "line", "status", "ctype"} = TextFields \ {"headers", "body"}
    BY DEF TextFields
  <2> DEFINE Plain == {"valid", "kind", "line", "status", "ctype"}
             Whole == \E f \in Plain : \E v : t = [text EXCEPT ![f] = v]
  <2>2. (\E s \in Statuses : t = [text EXCEPT !.status = s]) => Whole
    OBVIOUS
  <2>3. t = [text EXCEPT !.ctype = Some(PlainText)] => Whole
    OBVIOUS
  <2>4. \A v : t = [text EXCEPT !.line = v] => Whole
    OBVIOUS
  <2>5. \A v : t = [text EXCEPT !.kind = v] => Whole
    OBVIOUS
  <2>6. t = [text EXCEPT !.valid = FALSE] => Whole
    OBVIOUS
  <2> HIDE DEF Whole
  <2>7. \/ \E b \in Drafts \cup {ToEditText(o).body} : t = [text EXCEPT !.body = b]
        \/ \E i \in DOMAIN hs : t = [text EXCEPT !.headers = RemoveAt(hs, i)]
        \/ \E f \in Fields : t = [text EXCEPT !.headers = Append(hs, f)]
        \/ \E i \in DOMAIN hs, f \in Fields : t = [text EXCEPT !.headers = [hs EXCEPT ![i] = f]]
        \/ Whole
    <3>1. \/ t \in {[text EXCEPT !.body = b] : b \in Drafts \cup {ToEditText(o).body}}
          \/ t \in {[text EXCEPT !.headers = RemoveAt(@, i)] : i \in DOMAIN text.headers}
          \/ t \in {[text EXCEPT !.headers = Append(@, f)] : f \in Fields}
          \/ t \in {[text EXCEPT !.headers[i] = f] : i \in DOMAIN text.headers, f \in Fields}
          \/ t \in {[text EXCEPT !.status = s] : s \in Statuses}
          \/ t \in {[text EXCEPT !.ctype = Some(PlainText)], [text EXCEPT !.line.path = OtherPath],
                    [text EXCEPT !.line.scheme = "ws"], [text EXCEPT !.line.method = "PUT"],
                    [text EXCEPT !.kind = IF @ = "request" THEN "response" ELSE "request"],
                    [text EXCEPT !.valid = FALSE]}
      BY DEF Typed
    <3>2. t \in {[text EXCEPT !.headers = RemoveAt(@, i)] : i \in DOMAIN text.headers}
            => \E i \in DOMAIN hs : t = [text EXCEPT !.headers = RemoveAt(hs, i)]
      OBVIOUS
    <3>3. t \in {[text EXCEPT !.headers = Append(@, f)] : f \in Fields}
            => \E f \in Fields : t = [text EXCEPT !.headers = Append(hs, f)]
      OBVIOUS
    <3>4. t \in {[text EXCEPT !.headers[i] = f] : i \in DOMAIN text.headers, f \in Fields}
            => \E i \in DOMAIN hs, f \in Fields : t = [text EXCEPT !.headers = [hs EXCEPT ![i] = f]]
      OBVIOUS
    <3>5. t \in {[text EXCEPT !.status = s] : s \in Statuses} => Whole
      BY <2>2
    <3>6. t \in {[text EXCEPT !.ctype = Some(PlainText)], [text EXCEPT !.line.path = OtherPath],
                 [text EXCEPT !.line.scheme = "ws"], [text EXCEPT !.line.method = "PUT"],
                 [text EXCEPT !.kind = IF @ = "request" THEN "response" ELSE "request"],
                 [text EXCEPT !.valid = FALSE]} => Whole
      BY <2>3, <2>4, <2>5, <2>6
    <3>7. t \in {[text EXCEPT !.body = b] : b \in Drafts \cup {ToEditText(o).body}}
            => \E b \in Drafts \cup {ToEditText(o).body} : t = [text EXCEPT !.body = b]
      OBVIOUS
    <3> QED BY <3>1, <3>2, <3>3, <3>4, <3>5, <3>6, <3>7
  <2> QED BY <2>1, <2>7 DEF Whole
<1> HIDE DEF hs
<1> QED BY <1>2, <1>3, <1>4, <1>5, <1>6, <1>7, <1>8

\* What is read of a text.
LEMMA ParsedText ==
    ASSUME NEW flow \in Flows, NEW side \in Sides, NEW o, o = Editable(flow, side),
           NEW text, TextOK(text), NEW e, Parse(text, o) = Some(e)
    PROVE  IsText(e.headers) /\ EditedBody(o.body, e.body)
<1> DEFINE b == o.body
<1>1. IsSeq(b.text) /\ b.kind \in {"text", "binary", "empty"}
  BY ShownBody
<1>2. e.headers = ParseHeaders(text.headers) /\ e.body = ParseBody(text, o)
  BY DEF Parse, Some, None
<1>4. IsText(ParseHeaders(text.headers))
  BY TextIsSeq, ThoseFacts DEF TextOK, ParseHeaders
<1>3. EditedBody(b, ParseBody(text, o))
  <2>1. CASE b.kind = "text"
    BY <1>1, <2>1, TextIsSeq DEF ParseBody, EditedBody, TextOK
  <2>2. CASE b.kind = "binary"
    BY <2>2 DEF ParseBody, EditedBody
  <2>3. CASE b.kind = "empty"
    BY <2>3, TextIsSeq DEF ParseBody, EditedBody, TextOK
  <2> QED BY <1>1, <2>1, <2>2, <2>3
<1> QED BY <1>2, <1>3, <1>4

\* What SessionInv says of an open panel.
SessionOK(s, pv) ==
    /\ DOMAIN s = {"flow", "original", "text"} /\ s.flow \in Flows
    /\ s.original # None =>
         /\ \E side \in Sides : s.original = Some(Editable(s.flow, side))
         /\ s.text = Some(s.text[1]) /\ TextOK(s.text[1])
         /\ pv = Preview(s.original[1], s.text[1])

LEMMA SessionMeans ==
    SessionInv <=> (session # None => session = Some(session[1]) /\ SessionOK(session[1], preview))
BY DEF SessionInv, SessionOK

\* A panel that is opened.
LEMMA OpenedOK ==
    ASSUME NEW flow \in Flows, NEW tab \in Sides \cup {"info"}, Open(flow, tab)
    PROVE  session' = Some(session'[1]) /\ SessionOK(session'[1], preview')
<1> DEFINE o == IF tab = "info" THEN None ELSE Some(Editable(flow, tab))
           text == IF o = None THEN None ELSE Some(ToEditText(o[1]))
           s == [flow |-> flow, original |-> o, text |-> text]
<1>1. session' = Some(s) /\ preview' = (IF o = None THEN NoPreview ELSE Preview(o[1], text[1]))
  BY DEF Open
<1>2. DOMAIN s = {"flow", "original", "text"} /\ s.flow = flow /\ s.original = o /\ s.text = text
  OBVIOUS
<1>3. CASE tab = "info"
  <2>1. o = None
    BY <1>3
  <2> HIDE DEF o, text, s
  <2>2. SessionOK(s, preview')
    BY <1>2, <2>1 DEF SessionOK
  <2> QED BY <1>1, <2>2 DEF Some
<1>4. CASE tab # "info"
  <2> DEFINE e == Editable(flow, tab)
  <2>1. tab \in Sides /\ o = Some(e)
    BY <1>4
  <2> HIDE DEF e, o
  <2>2. o # None /\ o[1] = e
    BY <2>1 DEF Some, None
  <2>3. text = Some(ToEditText(e))
    BY <2>2
  <2>4. TextOK(ToEditText(e))
    BY <2>1, ShownText DEF e
  <2> HIDE DEF text, s
  <2>5. text[1] = ToEditText(e) /\ preview' = Preview(o[1], text[1])
    BY <1>1, <2>2, <2>3 DEF Some
  <2>6. \E side \in Sides : s.original = Some(Editable(s.flow, side))
    BY <1>2, <2>1 DEF e
  <2>7. SessionOK(s, preview')
    BY <1>2, <2>3, <2>4, <2>5, <2>6 DEF SessionOK
  <2> QED BY <1>1, <2>7 DEF Some
<1> QED BY <1>3, <1>4

\* A change of the text, and the preview with it.
LEMMA TypeOK ==
    ASSUME SessionInv, Type
    PROVE  session' = Some(session'[1]) /\ SessionOK(session'[1], preview')
<1> DEFINE s == session[1]
           o == s.original[1]
<1>1. session # None /\ s.original # None /\ SessionOK(s, preview)
  BY SessionMeans DEF Type
<1>2. PICK t \in Typed(o, s.text[1]) : /\ session' = Some([s EXCEPT !.text = Some(t)])
                                       /\ preview' = Preview(o, t)
  BY DEF Type
<1>3. PICK side \in Sides : s.original = Some(Editable(s.flow, side))
  BY <1>1 DEF SessionOK
<1>4. s.flow \in Flows /\ TextOK(s.text[1]) /\ DOMAIN s = {"flow", "original", "text"}
  BY <1>1 DEF SessionOK
<1>5. o = Editable(s.flow, side)
  BY <1>3 DEF Some
<1> HIDE DEF s, o
<1>6. TextOK(t)
  BY <1>2, <1>4, <1>5, ShownText, TypedText
<1> DEFINE n == [s EXCEPT !.text = Some(t)]
<1>7. DOMAIN n = {"flow", "original", "text"} /\ n.flow = s.flow /\ n.original = s.original /\ n.text = Some(t)
  BY <1>4
<1> HIDE DEF n
<1>8. n.text[1] = t /\ n.original[1] = o
  BY <1>7 DEF Some, o
<1>9. SessionOK(n, preview')
  BY <1>2, <1>3, <1>4, <1>6, <1>7, <1>8 DEF SessionOK
<1> QED BY <1>2, <1>9 DEF n, Some

\* The filter of the preview is the one that is generated from the text in the editor.
LEMMA PreviewFilter ==
    ASSUME NEW o, NEW text, NEW e, Parse(text, o) = Some(e), Preview(o, text).filter # None
    PROVE  GenerateFilter(o, e) = Some(Preview(o, text).filter[1])
<1>1. Parse(text, o) # None /\ Parse(text, o)[1] = e
  BY DEF Some, None
<1>2. Preview(o, text) = PreviewOf(HasChanges(o, e), SemanticDiff(o, e), GenerateFilter(o, e))
  BY <1>1 DEF Preview
<1>3. Preview(o, text).filter = GenerateFilter(o, e)
  BY <1>2 DEF PreviewOf
<1>4. \/ GenerateFilter(o, e) = None
      \/ \E x : GenerateFilter(o, e) = Some(x)
  BY DEF GenerateFilter
<1>5. PICK x : GenerateFilter(o, e) = Some(x)
  BY <1>3, <1>4
<1> QED BY <1>3, <1>5 DEF Some

\* What is saved of an open panel.
Made ==
    [flow |-> session[1].flow, original |-> session[1].original[1],
     edited |-> Parse(session[1].text[1], session[1].original[1])[1], filter |-> preview.filter[1]]

LEMMA MadeOK ==
    ASSUME SessionInv, session # None, Refused = "none", preview.filter # None
    PROVE  SavedOK(Made)
<1> DEFINE s == session[1]
           o == s.original[1]
           t == s.text[1]
           e == Parse(t, o)[1]
<1>1. SessionOK(s, preview)
  BY SessionMeans
<1>2. s.original # None /\ Parse(t, o) # None
  BY DEF Refused
<1>3. PICK side \in Sides : s.original = Some(Editable(s.flow, side))
  BY <1>1, <1>2 DEF SessionOK
<1>4. s.flow \in Flows /\ TextOK(t) /\ preview = Preview(o, t)
  BY <1>1, <1>2 DEF SessionOK
<1>5. o = Editable(s.flow, side)
  BY <1>3 DEF Some
<1>6. Parse(t, o) = Some(e)
  <2> HIDE DEF t, o
  <2>1. \E x : Parse(t, o) = Some(x)
    BY <1>2 DEF Parse
  <2> QED BY <2>1 DEF Some
<1>7. /\ Made.flow = s.flow /\ Made.original = o /\ Made.edited = e /\ Made.filter = preview.filter[1]
  BY DEF Made
<1> HIDE DEF e, t, o, s
<1>8. IsText(e.headers) /\ EditedBody(o.body, e.body)
  BY <1>4, <1>5, <1>6, ParsedText
<1>9. GenerateFilter(o, e) = Some(preview.filter[1])
  BY <1>4, <1>6, PreviewFilter
<1> QED BY <1>4, <1>5, <1>7, <1>8, <1>9 DEF SavedOK

\* Saving adds what was made, or nothing.
LEMMA SaveAdds ==
    ASSUME SessionInv, SaveCurrent \/ SaveCurrentAndOpenExternal
    PROVE  /\ saved' = saved \/ (saved' = Append(saved, Made) /\ SavedOK(Made))
           /\ session' = None \/ (UNCHANGED <<session, preview>>)
<1>1. session # None
  BY DEF SaveCurrent, SaveCurrentAndOpenExternal
<1>2. CASE UNCHANGED <<session, preview, saved>>
  BY <1>2
<1>3. CASE /\ Refused = "none" /\ preview.filter # None /\ saved' = Append(saved, Made)
           /\ session' = None \/ (UNCHANGED <<session, preview>>)
  BY <1>1, <1>3, MadeOK
<1>4. \A P : UNCHANGED <<session, preview, saved>> /\ P => UNCHANGED <<session, preview, saved>>
  OBVIOUS
<1>5. ASSUME SaveCurrent PROVE \/ UNCHANGED <<session, preview, saved>>
                               \/ /\ Refused = "none" /\ preview.filter # None /\ saved' = Append(saved, Made)
                                  /\ session' = None \/ (UNCHANGED <<session, preview>>)
  BY <1>5 DEF SaveCurrent, SaveGenerated, Made
<1>6. ASSUME SaveCurrentAndOpenExternal
      PROVE  \/ UNCHANGED <<session, preview, saved>>
             \/ /\ Refused = "none" /\ preview.filter # None /\ saved' = Append(saved, Made)
                /\ session' = None \/ (UNCHANGED <<session, preview>>)
  BY <1>6 DEF SaveCurrentAndOpenExternal, SaveGenerated, Made
<1> QED BY <1>2, <1>3, <1>5, <1>6

LEMMA InitOK == Init => EditInv
<1> SUFFICES ASSUME Init PROVE EditInv
  OBVIOUS
<1>1. session = None /\ saved = <<>>
  BY DEF Init
<1> QED BY <1>1, EmptyIsSeq, TextIsSeq DEF EditInv, SessionInv, SavedInv

LEMMA NextOK ==
    ASSUME EditInv, [Next]_vars
    PROVE  EditInv'
<1>1. SessionInv /\ IsSeq(saved) /\ \A s \in ToSet(saved) : SavedOK(s)
  BY TextIsSeq DEF EditInv, SavedInv
<1>2. (session' = None \/ (session' = Some(session'[1]) /\ SessionOK(session'[1], preview'))) => SessionInv'
  BY DEF SessionInv, SessionOK
<1>3. saved' = saved => SavedInv'
  BY <1>1, TextIsSeq DEF SavedInv
<1>4. saved' = Append(saved, Made) /\ SavedOK(Made) => SavedInv'
  <2> SUFFICES ASSUME saved' = Append(saved, Made), SavedOK(Made) PROVE SavedInv'
    OBVIOUS
  <2>1. IsSeq(saved') /\ ToSet(saved') = ToSet(saved) \cup {Made}
    BY <1>1, AppendedSeq, AppendedSet
  <2>2. \A s \in ToSet(saved') : SavedOK(s)
    BY <1>1, <2>1
  <2> QED BY <2>1, <2>2, TextIsSeq DEF SavedInv
<1>5. UNCHANGED <<session, preview>> => SessionInv'
  BY <1>1 DEF SessionInv
<1>6. ASSUME NEW flow \in Flows, NEW tab \in Sides \cup {"info"}, Open(flow, tab) PROVE EditInv'
  <2>1. saved' = saved
    BY <1>6 DEF Open
  <2> QED BY <1>2, <1>3, <1>6, <2>1, OpenedOK DEF EditInv
<1>7. CASE Type
  <2>1. saved' = saved
    BY <1>7 DEF Type
  <2> QED BY <1>1, <1>2, <1>3, <1>7, <2>1, TypeOK DEF EditInv
<1>8. CASE SaveCurrent \/ SaveCurrentAndOpenExternal
  BY <1>1, <1>2, <1>3, <1>4, <1>5, <1>8, SaveAdds DEF EditInv
<1>9. CASE Close
  BY <1>2, <1>3, <1>9 DEF Close, EditInv
<1>10. CASE UNCHANGED vars
  BY <1>3, <1>5, <1>10 DEF vars, EditInv
<1> QED BY <1>6, <1>7, <1>8, <1>9, <1>10 DEF Next

\* What is shown and what is saved is made from the message that was opened and the text
\* in the editor (open_edit_popup, save_generated), and is what the other proofs start from.
THEOREM EditingIsConsistent == Spec => []EditInv
BY InitOK, NextOK, PTL DEF Spec

-----------------------------------------------------------------------------
(* Nothing edited, no filter. *)

LEMMA RoundTrip == EditInv => UnchangedRoundTrip
<1> SUFFICES ASSUME EditInv PROVE UnchangedRoundTrip
  OBVIOUS
<1>1. ASSUME session # None, session[1].original # None,
             session[1].text[1] = ToEditText(session[1].original[1])
      PROVE  ~preview.changed /\ preview.changes = <<>>
  <2> DEFINE s == session[1]
             o == s.original[1]
  <2>1. SessionOK(s, preview)
    BY <1>1, SessionMeans DEF EditInv
  <2>2. PICK side \in Sides : s.original = Some(Editable(s.flow, side))
    BY <1>1, <2>1 DEF SessionOK
  <2>3. s.flow \in Flows /\ preview = Preview(o, ToEditText(o))
    BY <1>1, <2>1 DEF SessionOK
  <2>4. o = Editable(s.flow, side)
    BY <2>2 DEF Some
  <2> HIDE DEF o, s
  <2>5. Parse(ToEditText(o), o) = Some(o) /\ IsSeq(o.headers) /\ NamesDiffer(o.headers)
    BY <2>3, <2>4, ShownText, EditableFacts
  <2>6. preview = PreviewOf(HasChanges(o, o), SemanticDiff(o, o), GenerateFilter(o, o))
    BY <2>3, <2>5 DEF Preview, Some, None
  <2>7. HasChanges(o, o) = FALSE /\ SemanticDiff(o, o) = <<>>
    BY <2>5, NoChanges, NoEvents DEF HasChanges
  <2> QED BY <2>6, <2>7 DEF PreviewOf
<1>2. ASSUME NEW i \in DOMAIN saved PROVE saved[i].edited # saved[i].original
  <2> DEFINE s == saved[i]
             o == s.original
  <2>1. SavedOK(s)
    BY DEF EditInv, SavedInv, ToSet
  <2>2. IsSeq(o.headers) /\ NamesDiffer(o.headers)
    BY <2>1, EditableFacts DEF SavedOK
  <2>3. HasChanges(o, s.edited)
    BY <2>1 DEF SavedOK, GenerateFilter, Some, None
  <2> QED BY <2>2, <2>3, NoChanges
<1> QED BY <1>1, <1>2 DEF UnchangedRoundTrip

\* A text that was not changed, or was changed back, is read as the message it was made
\* from, and no filter is saved where nothing was edited (to_edit_text, parse_edit_text,
\* EditableHttpMessage::diff), whatever the message.
THEOREM UnchangedIsKept == Spec => []UnchangedRoundTrip
BY EditingIsConsistent, RoundTrip, PTL

-----------------------------------------------------------------------------
(* What the calls of a generated filter come to. *)

Calling == INSTANCE FoldTheorems WITH FoldOp <- Called, FoldKept <- IsSeq

LEMMA CallsFold ==
    ASSUME NEW phase, NEW s
    PROVE  Calls(phase, s) = Calling!FoldOf(phase, NoCalls, s)[DOMAIN s]
BY DEF Calls, FoldLeft, MapThenFoldSet, Max, Calling!FoldOf, Calling!IsFold,
       Calling!FoldTurn, Calling!Max

LEMMA CallsOfNone == \A phase : Calls(phase, <<>>) = NoCalls
<1> SUFFICES ASSUME NEW phase PROVE Calls(phase, <<>>) = NoCalls
  OBVIOUS
<1>1. DOMAIN <<>> = {}
  OBVIOUS
<1> QED BY <1>1, CallsFold, Calling!FoldNothing

LEMMA CallsOfMore ==
    ASSUME NEW phase, NEW s, NEW c, IsSeq(s)
    PROVE  Calls(phase, Append(s, c)) = Called(phase, Calls(phase, s), c)
<1>1. Calling!IsSeq(s)
  BY DEF IsSeq, Calling!IsSeq, ToSet, Calling!ToSet
<1>2. Calling!FoldOf(phase, NoCalls, Append(s, c))[DOMAIN Append(s, c)]
        = Called(phase, Calling!FoldOf(phase, NoCalls, s)[DOMAIN s], c)
  BY <1>1, Calling!FoldAppended
<1> QED BY <1>2, CallsFold

\* What a generated filter calls.
HeaderOps    == {"set_header", "remove_header"}
GeneratedOps == {"mark", "set_status", "drop", "set_body_text"} \cup HeaderOps \cup RewriteOps

SetBy(C)      == {<<c.name, c.value>> : c \in {x \in C : x.op = "set_header"}}
RemovedBy(C)  == {c.name : c \in {x \in C : x.op = "remove_header"}}
RewritesIn(C) == {c \in C : c.op \in RewriteOps}

LEMMA OneMore ==
    ASSUME NEW C, NEW c
    PROVE  /\ SetBy(C \cup {c}) = IF c.op = "set_header" THEN SetBy(C) \cup {<<c.name, c.value>>} ELSE SetBy(C)
           /\ RemovedBy(C \cup {c}) = IF c.op = "remove_header" THEN RemovedBy(C) \cup {c.name} ELSE RemovedBy(C)
           /\ RewritesIn(C \cup {c}) = IF c.op \in RewriteOps THEN RewritesIn(C) \cup {c} ELSE RewritesIn(C)
BY DEF SetBy, RemovedBy, RewritesIn

\* The last of the calls that set the status, or the body, is one of them.
StatusBy(v, C) ==
    IF v = None THEN \A c \in C : c.op # "set_status"
    ELSE \E c \in C : c.op = "set_status" /\ v = Some(c.status)

BodyBy(v, C) ==
    IF v = None THEN \A c \in C : c.op # "set_body_text"
    ELSE \E c \in C : c.op = "set_body_text" /\ v = Some(c.text)

DropsIn(C) == \E c \in C : c.op = "drop"

\* The data that a set of calls comes to, in whatever order.
DataOf(data, C) ==
    /\ DOMAIN data = DOMAIN NoCalls
    /\ IsSeq(data.set) /\ ToSet(data.set) = SetBy(C)
    /\ IsSeq(data.remove) /\ ToSet(data.remove) = RemovedBy(C)
    /\ IsSeq(data.rewrites) /\ ToSet(data.rewrites) = RewritesIn(C)
    /\ StatusBy(data.status, C) /\ BodyBy(data.body, C)
    /\ data.drop = DropsIn(C) /\ data.reject = None

LEMMA NoData == DataOf(NoCalls, {})
BY EmptyIsSeq DEF DataOf, NoCalls, SetBy, RemovedBy, RewritesIn, StatusBy, BodyBy, DropsIn, None

LEMMA OneMoreCall ==
    ASSUME NEW phase \in Sides, NEW c, c.op \in GeneratedOps,
           c.op = "set_status" => phase = "response", NEW data, NEW C, DataOf(data, C)
    PROVE  DataOf(Called(phase, data, c), C \cup {c})
<1> DEFINE D == C \cup {c}
           new == Called(phase, data, c)
<1>1. DOMAIN data = {"status", "set", "remove", "marks", "body", "ctype", "rewrites",
                     "synthetic", "reject", "jobs", "stop", "drop"}
  BY DEF DataOf, NoCalls
<1>2. /\ IsSeq(data.set) /\ ToSet(data.set) = SetBy(C)
      /\ IsSeq(data.remove) /\ ToSet(data.remove) = RemovedBy(C)
      /\ IsSeq(data.rewrites) /\ ToSet(data.rewrites) = RewritesIn(C)
      /\ StatusBy(data.status, C) /\ BodyBy(data.body, C)
      /\ data.drop = DropsIn(C) /\ data.reject = None
  BY DEF DataOf
<1>3. /\ SetBy(D) = IF c.op = "set_header" THEN SetBy(C) \cup {<<c.name, c.value>>} ELSE SetBy(C)
      /\ RemovedBy(D) = IF c.op = "remove_header" THEN RemovedBy(C) \cup {c.name} ELSE RemovedBy(C)
      /\ RewritesIn(D) = IF c.op \in RewriteOps THEN RewritesIn(C) \cup {c} ELSE RewritesIn(C)
  BY OneMore
<1>4. /\ c.op # "set_status" => StatusBy(data.status, D)
      /\ c.op # "set_body_text" => BodyBy(data.body, D)
      /\ c.op # "drop" => data.drop = DropsIn(D)
      /\ c.op = "drop" => DropsIn(D) = TRUE
      /\ c.op = "set_status" => StatusBy(Some(c.status), D)
      /\ c.op = "set_body_text" => BodyBy(Some(c.text), D)
  <2>1. c.op # "set_status" => StatusBy(data.status, D)
    BY <1>2 DEF StatusBy
  <2>2. c.op # "set_body_text" => BodyBy(data.body, D)
    BY <1>2 DEF BodyBy
  <2>3. c.op # "drop" => data.drop = DropsIn(D)
    BY <1>2 DEF DropsIn
  <2>4. c.op = "drop" => DropsIn(D) = TRUE
    BY DEF DropsIn
  <2>5. c.op = "set_status" => StatusBy(Some(c.status), D)
    BY DEF StatusBy, Some, None
  <2>6. c.op = "set_body_text" => BodyBy(Some(c.text), D)
    BY DEF BodyBy, Some, None
  <2> QED BY <2>1, <2>2, <2>3, <2>4, <2>5, <2>6
<1>5. DOMAIN NoCalls = DOMAIN data
  BY DEF DataOf
<1> HIDE DEF D
<1>6. CASE c.op \in RewriteOps
  <2>1. new = [data EXCEPT !.rewrites = Append(data.rewrites, c)]
    <3>1. CASE phase = "request"
      BY <1>6, <3>1 DEF Called, RequestCall, RewriteCall, RewriteOps
    <3>2. CASE phase = "response"
      BY <1>6, <3>2 DEF Called, ResponseCall, RewriteCall, RewriteOps
    <3> QED BY <3>1, <3>2 DEF Sides
  <2> HIDE DEF new
  <2>2. /\ DOMAIN new = DOMAIN data /\ new.rewrites = Append(data.rewrites, c)
        /\ \A f \in DOMAIN data \ {"rewrites"} : new[f] = data[f]
    BY <1>1, <2>1
  <2>3. c.op \notin {"set_header", "remove_header", "set_status", "set_body_text", "drop"}
    BY <1>6 DEF RewriteOps
  <2>4. IsSeq(new.rewrites) /\ ToSet(new.rewrites) = RewritesIn(C) \cup {c}
    BY <1>2, <2>2, AppendedSeq, AppendedSet
  <2>5. /\ new.set = data.set /\ new.remove = data.remove /\ new.status = data.status
        /\ new.body = data.body /\ new.drop = data.drop /\ new.reject = data.reject
    BY <1>1, <2>2
  <2>6. DataOf(new, D)
    BY <1>2, <1>3, <1>4, <1>5, <1>6, <2>2, <2>3, <2>4, <2>5 DEF DataOf
  <2> QED BY <2>6 DEF new, D
<1>7. CASE c.op = "set_status"
  <2>1. new = [data EXCEPT !.status = Some(c.status)]
    BY <1>7 DEF Called, ResponseCall, RewriteOps
  <2> HIDE DEF new
  <2>2. /\ DOMAIN new = DOMAIN data /\ new.status = Some(c.status)
        /\ new.set = data.set /\ new.remove = data.remove /\ new.rewrites = data.rewrites
        /\ new.body = data.body /\ new.drop = data.drop /\ new.reject = data.reject
    BY <1>1, <2>1
  <2>3. DataOf(new, D)
    BY <1>2, <1>3, <1>4, <1>5, <1>7, <2>2 DEF DataOf, RewriteOps
  <2> QED BY <2>3 DEF new, D
<1>8. CASE c.op \in {"mark", "drop", "set_header", "remove_header", "set_body_text"}
  <2>1. new = MessageCall(data, c)
    BY <1>8 DEF Called, RequestCall, ResponseCall, RewriteOps, Sides
  <2> HIDE DEF new
  <2>2. CASE c.op = "mark"
    <3>1. new = [data EXCEPT !.marks = Append(data.marks, c.label)]
      BY <2>1, <2>2 DEF MessageCall
    <3>2. /\ DOMAIN new = DOMAIN data /\ new.status = data.status
          /\ new.set = data.set /\ new.remove = data.remove /\ new.rewrites = data.rewrites
          /\ new.body = data.body /\ new.drop = data.drop /\ new.reject = data.reject
      BY <1>1, <3>1
    <3>3. DataOf(new, D)
      BY <1>2, <1>3, <1>4, <1>5, <2>2, <3>2 DEF DataOf, RewriteOps
    <3> QED BY <3>3 DEF new, D
  <2>3. CASE c.op = "drop"
    <3>1. new = [data EXCEPT !.stop = TRUE, !.drop = TRUE]
      BY <2>1, <2>3 DEF MessageCall
    <3>2. /\ DOMAIN new = DOMAIN data /\ new.status = data.status
          /\ new.set = data.set /\ new.remove = data.remove /\ new.rewrites = data.rewrites
          /\ new.body = data.body /\ new.drop = TRUE /\ new.reject = data.reject
      BY <1>1, <3>1
    <3>3. DataOf(new, D)
      BY <1>2, <1>3, <1>4, <1>5, <2>3, <3>2 DEF DataOf, RewriteOps
    <3> QED BY <3>3 DEF new, D
  <2>4. CASE c.op = "set_header"
    <3>1. new = [data EXCEPT !.set = Append(data.set, <<c.name, c.value>>)]
      BY <2>1, <2>4 DEF MessageCall
    <3>2. /\ DOMAIN new = DOMAIN data /\ new.status = data.status
          /\ new.set = Append(data.set, <<c.name, c.value>>)
          /\ new.remove = data.remove /\ new.rewrites = data.rewrites
          /\ new.body = data.body /\ new.drop = data.drop /\ new.reject = data.reject
      BY <1>1, <3>1
    <3>3. IsSeq(new.set) /\ ToSet(new.set) = SetBy(C) \cup {<<c.name, c.value>>}
      BY <1>2, <3>2, AppendedSeq, AppendedSet
    <3>4. DataOf(new, D)
      BY <1>2, <1>3, <1>4, <1>5, <2>4, <3>2, <3>3 DEF DataOf, RewriteOps
    <3> QED BY <3>4 DEF new, D
  <2>5. CASE c.op = "remove_header"
    <3>1. new = [data EXCEPT !.remove = Append(data.remove, c.name)]
      BY <2>1, <2>5 DEF MessageCall
    <3>2. /\ DOMAIN new = DOMAIN data /\ new.status = data.status
          /\ new.set = data.set /\ new.remove = Append(data.remove, c.name)
          /\ new.rewrites = data.rewrites
          /\ new.body = data.body /\ new.drop = data.drop /\ new.reject = data.reject
      BY <1>1, <3>1
    <3>3. IsSeq(new.remove) /\ ToSet(new.remove) = RemovedBy(C) \cup {c.name}
      BY <1>2, <3>2, AppendedSeq, AppendedSet
    <3>4. DataOf(new, D)
      BY <1>2, <1>3, <1>4, <1>5, <2>5, <3>2, <3>3 DEF DataOf, RewriteOps
    <3> QED BY <3>4 DEF new, D
  <2>6. CASE c.op = "set_body_text"
    <3>1. PICK y : new = [data EXCEPT !.body = Some(c.text), !.ctype = y]
      BY <2>1, <2>6 DEF MessageCall
    <3>2. /\ DOMAIN new = DOMAIN data /\ new.status = data.status
          /\ new.set = data.set /\ new.remove = data.remove /\ new.rewrites = data.rewrites
          /\ new.body = Some(c.text) /\ new.drop = data.drop /\ new.reject = data.reject
      BY <1>1, <3>1
    <3>3. DataOf(new, D)
      BY <1>2, <1>3, <1>4, <1>5, <2>6, <3>2 DEF DataOf, RewriteOps
    <3> QED BY <3>3 DEF new, D
  <2> QED BY <1>8, <2>2, <2>3, <2>4, <2>5, <2>6
<1> QED BY <1>6, <1>7, <1>8 DEF GeneratedOps, HeaderOps

\* The calls that a generated filter may make in a phase.
Callable(C, phase) == \A c \in C : c.op \in GeneratedOps /\ (c.op = "set_status" => phase = "response")

LEMMA CallsComeTo ==
    ASSUME NEW phase \in Sides, NEW s, IsSeq(s), Callable(ToSet(s), phase)
    PROVE  DataOf(Calls(phase, s), ToSet(s))
<1> DEFINE S == ToSet(s)
           Q == {t \in Seq(S) : DataOf(Calls(phase, t), ToSet(t))}
<1>0. Callable(S, phase)
  OBVIOUS
<1> HIDE DEF S
<1>1. <<>> \in Q
  BY CallsOfNone, NoData, EmptyIsSeq, EmptySeq
<1>2. Extends(Q, S)
  <2> SUFFICES ASSUME NEW t \in Q, NEW x \in S PROVE Append(t, x) \in Q
    BY DEF Extends
  <2>1. t \in Seq(S) /\ IsSeq(t) /\ DataOf(Calls(phase, t), ToSet(t))
    BY OwnElements
  <2>2. Append(t, x) \in Seq(S) /\ ToSet(Append(t, x)) = ToSet(t) \cup {x}
    BY <2>1, AppendedSet, AppendProperties
  <2>3. Calls(phase, Append(t, x)) = Called(phase, Calls(phase, t), x)
    BY <2>1, CallsOfMore
  <2>4. x.op \in GeneratedOps /\ (x.op = "set_status" => phase = "response")
    BY <1>0 DEF Callable
  <2>5. DataOf(Called(phase, Calls(phase, t), x), ToSet(t) \cup {x})
    BY <2>1, <2>4, OneMoreCall
  <2> QED BY <2>2, <2>3, <2>5
<1>3. Q = Seq(S)
  <2>1. Q \in SUBSET Seq(S)
    OBVIOUS
  <2> HIDE DEF Q
  <2> QED BY <1>1, <1>2, <2>1, SeqSetInduction
<1>4. s \in Seq(S)
  BY DEF IsSeq, S
<1> QED BY <1>3, <1>4

-----------------------------------------------------------------------------
(* The headers that a patch leaves. *)

\* SetHeader as an operation of a fold; the first argument is not used.
HeaderSet(p, headers, h) == SetHeader(headers, h)

Setting == INSTANCE FoldTheorems WITH FoldOp <- HeaderSet, FoldKept <- IsSeq

SetAll(headers, set) == FoldLeft(SetHeader, headers, set)

LEMMA SetAllFold ==
    ASSUME NEW headers, NEW s
    PROVE  SetAll(headers, s) = Setting!FoldOf(0, headers, s)[DOMAIN s]
BY DEF SetAll, FoldLeft, MapThenFoldSet, Max, Setting!FoldOf, Setting!IsFold,
       Setting!FoldTurn, Setting!Max, HeaderSet

LEMMA SetAllOfNone == \A headers : SetAll(headers, <<>>) = headers
<1> SUFFICES ASSUME NEW headers PROVE SetAll(headers, <<>>) = headers
  OBVIOUS
<1>1. DOMAIN <<>> = {}
  OBVIOUS
<1> QED BY <1>1, SetAllFold, Setting!FoldNothing

LEMMA SetAllOfMore ==
    ASSUME NEW headers, NEW s, NEW h, IsSeq(s)
    PROVE  SetAll(headers, Append(s, h)) = SetHeader(SetAll(headers, s), h)
<1>1. Setting!IsSeq(s)
  BY DEF IsSeq, Setting!IsSeq, ToSet, Setting!ToSet
<1>2. Setting!FoldOf(0, headers, Append(s, h))[DOMAIN Append(s, h)]
        = HeaderSet(0, Setting!FoldOf(0, headers, s)[DOMAIN s], h)
  BY <1>1, Setting!FoldAppended
<1> QED BY <1>2, SetAllFold DEF HeaderSet

\* A header with a name and a value.
Settable(h) == h[1] # "invalid name" /\ h[2] # "invalid value"

SetNames(set) == {h[1] : h \in {x \in set : Settable(x)}}

\* new has the headers of old and those that are set, with a value that was set.
HasSet(new, old, set) ==
    /\ DOMAIN new = DOMAIN old \cup SetNames(set)
    /\ \A n \in DOMAIN new :
         \/ \E h \in set : Settable(h) /\ h[1] = n /\ new[n] = h[2]
         \/ n \in DOMAIN old /\ new[n] = old[n] /\ n \notin SetNames(set)

LEMMA HasSetMore ==
    ASSUME NEW new, NEW old, NEW set, HasSet(new, old, set), NEW h
    PROVE  HasSet(SetHeader(new, h), old, set \cup {h})
<1> DEFINE out == SetHeader(new, h)
           more == set \cup {h}
<1>1. CASE ~Settable(h)
  <2>1. out = new
    BY <1>1 DEF SetHeader, Settable
  <2>2. SetNames(more) = SetNames(set)
    BY <1>1 DEF SetNames
  <2> HIDE DEF out
  <2>3. \A x \in set : x \in more
    OBVIOUS
  <2> QED BY <2>1, <2>2, <2>3 DEF HasSet, out
<1>2. CASE Settable(h)
  <2>1. /\ DOMAIN out = DOMAIN new \cup {h[1]}
        /\ \A n \in DOMAIN out : out[n] = IF n = h[1] THEN h[2] ELSE new[n]
    BY <1>2 DEF SetHeader, With, Settable
  <2> HIDE DEF out
  <2>2. SetNames(more) = SetNames(set) \cup {h[1]}
    BY <1>2 DEF SetNames
  <2>3. DOMAIN out = DOMAIN old \cup SetNames(more)
    BY <2>1, <2>2 DEF HasSet
  <2>4. ASSUME NEW n \in DOMAIN out
        PROVE  \/ \E x \in more : Settable(x) /\ x[1] = n /\ out[n] = x[2]
               \/ n \in DOMAIN old /\ out[n] = old[n] /\ n \notin SetNames(more)
    <3>1. CASE n = h[1]
      BY <1>2, <2>1, <3>1
    <3>2. CASE n # h[1]
      BY <2>1, <2>2, <3>2 DEF HasSet
    <3> QED BY <3>1, <3>2
  <2>5. HasSet(out, old, more)
    <3> HIDE DEF more
    <3> QED BY <2>3, <2>4 DEF HasSet
  <2> QED BY <2>5 DEF out
<1> QED BY <1>1, <1>2

LEMMA SetAllFacts ==
    ASSUME NEW headers, NEW s, IsSeq(s)
    PROVE  HasSet(SetAll(headers, s), headers, ToSet(s))
<1> DEFINE S == ToSet(s)
           Q == {t \in Seq(S) : HasSet(SetAll(headers, t), headers, ToSet(t))}
<1> HIDE DEF S
<1>1. <<>> \in Q
  <2>1. HasSet(headers, headers, {})
    BY DEF HasSet, SetNames
  <2> QED BY <2>1, SetAllOfNone, EmptyIsSeq, EmptySeq
<1>2. Extends(Q, S)
  <2> SUFFICES ASSUME NEW t \in Q, NEW x \in S PROVE Append(t, x) \in Q
    BY DEF Extends
  <2>1. t \in Seq(S) /\ IsSeq(t) /\ HasSet(SetAll(headers, t), headers, ToSet(t))
    BY OwnElements
  <2>2. Append(t, x) \in Seq(S) /\ ToSet(Append(t, x)) = ToSet(t) \cup {x}
    BY <2>1, AppendedSet, AppendProperties
  <2>3. SetAll(headers, Append(t, x)) = SetHeader(SetAll(headers, t), x)
    BY <2>1, SetAllOfMore
  <2>4. HasSet(SetHeader(SetAll(headers, t), x), headers, ToSet(t) \cup {x})
    BY <2>1, HasSetMore
  <2> QED BY <2>2, <2>3, <2>4
<1>3. Q = Seq(S)
  <2>1. Q \in SUBSET Seq(S)
    OBVIOUS
  <2> HIDE DEF Q
  <2> QED BY <1>1, <1>2, <2>1, SeqSetInduction
<1>4. s \in Seq(S)
  BY DEF IsSeq, S
<1> QED BY <1>3, <1>4

\* The calls set the headers that are added or have another value, and remove those
\* that are gone.
TellsHeaders(C, old, new) ==
    /\ \A c \in C : c.op = "set_header" => HeaderValue(new, c.name) = Some(c.value)
    /\ \A c \in C : c.op = "remove_header" => HeaderValue(new, c.name) = None
    /\ \A n : \A v : HeaderValue(new, n) = Some(v) /\ HeaderValue(old, n) # Some(v)
                 => \E c \in C : c.op = "set_header" /\ c.name = n
    /\ \A n : HeaderValue(old, n) # None /\ HeaderValue(new, n) = None
                 => \E c \in C : c.op = "remove_header" /\ c.name = n

NamesOf(hs) == {h[1] : h \in ToSet(hs)}

\* A name has a value where there is one of that name.
LEMMA NamesHaveValues ==
    ASSUME NEW hs, IsSeq(hs), NEW n
    PROVE  IF n \in NamesOf(hs) THEN \E h \in ToSet(hs) : h[1] = n /\ HeaderValue(hs, n) = Some(h[2])
           ELSE HeaderValue(hs, n) = None
<1>1. CASE n \in NamesOf(hs)
  <2>1. PICK h \in ToSet(hs) : h[1] = n
    BY <1>1 DEF NamesOf
  <2>2. PICK i \in DOMAIN hs : hs[i][1] = n /\ HeaderValue(hs, n) = Some(hs[i][2])
    BY <2>1, HeaderValueFacts
  <2>3. hs[i] \in ToSet(hs)
    BY DEF ToSet
  <2> QED BY <1>1, <2>2, <2>3
<1>2. CASE n \notin NamesOf(hs)
  <2>1. \A i \in DOMAIN hs : hs[i][1] # n
    BY <1>2 DEF NamesOf, ToSet
  <2> QED BY <1>2, <2>1, HeaderValueFacts
<1> QED BY <1>1, <1>2

PatchedBy(set, remove, C) == IsSeq(set) /\ ToSet(set) = SetBy(C) /\ ToSet(remove) = RemovedBy(C)

ValidNames(new) == NamesOf(new) \ {"invalid name"}

\* The names whose new value is none, which keep the one they had.
KeptNames(new) == {n \in ValidNames(new) : HeaderValue(new, n) = Some("invalid value")}

HeadersAre(out, old, new) ==
    /\ DOMAIN out = (ValidNames(new) \ KeptNames(new)) \cup (KeptNames(new) \cap DOMAIN old)
    /\ \A n \in ValidNames(new) \ KeptNames(new) : HeaderValue(new, n) = Some(out[n])
    /\ \A n \in KeptNames(new) \cap DOMAIN old : out[n] = old[n]

\* So they make the new headers of the old ones.
LEMMA HeadersComeTo ==
    ASSUME NEW headers, IsFiniteSet(DOMAIN headers), "invalid name" \notin DOMAIN headers,
           NEW new, IsSeq(new), NEW C, TellsHeaders(C, HeaderList(headers), new),
           NEW set, NEW remove, PatchedBy(set, remove, C),
           NEW out, out = ApplyHeaderPatch(headers, set, remove)
    PROVE  HeadersAre(out, headers, new)
<1> DEFINE old == HeaderList(headers)
           W == Without(headers, ToSet(remove))
<1>0. IsSeq(set) /\ ToSet(set) = SetBy(C) /\ ToSet(remove) = RemovedBy(C)
  BY DEF PatchedBy
<1>1. IsSeq(old) /\ NamesDiffer(old) /\ ToSet(old) = {<<n, headers[n]>> : n \in DOMAIN headers}
  BY HeaderListFacts
<1> HIDE DEF old
<1>2. /\ \A n \in DOMAIN headers : HeaderValue(old, n) = Some(headers[n])
      /\ \A n : n \notin DOMAIN headers => HeaderValue(old, n) = None
  <2>1. ASSUME NEW n \in DOMAIN headers PROVE HeaderValue(old, n) = Some(headers[n])
    <3> DEFINE h == <<n, headers[n]>>
    <3>1. h \in ToSet(old) /\ h[1] = n /\ h[2] = headers[n]
      BY <1>1
    <3> HIDE DEF h
    <3>2. HeaderValue(old, h[1]) = Some(h[2])
      BY <1>1, <3>1, OwnValue
    <3> QED BY <3>1, <3>2
  <2>2. ASSUME NEW n, n \notin DOMAIN headers PROVE HeaderValue(old, n) = None
    <3>1. ASSUME NEW h \in ToSet(old) PROVE h[1] \in DOMAIN headers
      <4>1. PICK k \in DOMAIN headers : h = <<k, headers[k]>>
        BY <1>1
      <4> QED BY <4>1
    <3>2. n \notin NamesOf(old)
      BY <2>2, <3>1 DEF NamesOf
    <3> QED BY <1>1, <3>2, NamesHaveValues
  <2> QED BY <2>1, <2>2
<1>3. /\ DOMAIN W = DOMAIN headers \ RemovedBy(C)
      /\ \A n \in DOMAIN W : W[n] = headers[n]
  BY <1>0 DEF Without
<1>4. HasSet(out, W, SetBy(C))
  <2>1. out = SetAll(W, set)
    BY DEF ApplyHeaderPatch, SetAll
  <2> HIDE DEF W
  <2> QED BY <1>0, <2>1, SetAllFacts
<1> HIDE DEF W
<1>5. /\ \A h \in SetBy(C) : HeaderValue(new, h[1]) = Some(h[2])
      /\ \A n \in RemovedBy(C) : HeaderValue(new, n) = None
      /\ \A n : \A v : HeaderValue(new, n) = Some(v) /\ HeaderValue(old, n) # Some(v)
                   => \E h \in SetBy(C) : h[1] = n
      /\ \A n : HeaderValue(old, n) # None /\ HeaderValue(new, n) = None => n \in RemovedBy(C)
  <2>1. TellsHeaders(C, old, new)
    BY DEF old
  <2>2. \A h \in SetBy(C) : HeaderValue(new, h[1]) = Some(h[2])
    <3> SUFFICES ASSUME NEW h \in SetBy(C) PROVE HeaderValue(new, h[1]) = Some(h[2])
      OBVIOUS
    <3>1. PICK c \in C : c.op = "set_header" /\ h = <<c.name, c.value>>
      BY DEF SetBy
    <3>2. HeaderValue(new, c.name) = Some(c.value)
      BY <2>1, <3>1 DEF TellsHeaders
    <3> QED BY <3>1, <3>2
  <2>3. \A n \in RemovedBy(C) : HeaderValue(new, n) = None
    <3> SUFFICES ASSUME NEW n \in RemovedBy(C) PROVE HeaderValue(new, n) = None
      OBVIOUS
    <3>1. PICK c \in C : c.op = "remove_header" /\ n = c.name
      BY DEF RemovedBy
    <3> QED BY <2>1, <3>1 DEF TellsHeaders
  <2>4. ASSUME NEW n, NEW v, HeaderValue(new, n) = Some(v), HeaderValue(old, n) # Some(v)
        PROVE  \E h \in SetBy(C) : h[1] = n
    <3>1. PICK c \in C : c.op = "set_header" /\ c.name = n
      BY <2>1, <2>4 DEF TellsHeaders
    <3>2. <<c.name, c.value>> \in SetBy(C)
      BY <3>1 DEF SetBy
    <3> QED BY <3>1, <3>2
  <2>5. ASSUME NEW n, HeaderValue(old, n) # None, HeaderValue(new, n) = None PROVE n \in RemovedBy(C)
    <3>1. PICK c \in C : c.op = "remove_header" /\ c.name = n
      BY <2>1, <2>5 DEF TellsHeaders
    <3> QED BY <3>1 DEF RemovedBy
  <2> QED BY <2>2, <2>3, <2>4, <2>5
<1>6. \A n : n \in NamesOf(new) <=> HeaderValue(new, n) # None
  <2>1. \A n \in NamesOf(new) : \E h \in ToSet(new) : HeaderValue(new, n) = Some(h[2])
    BY NamesHaveValues
  <2>2. \A n : n \notin NamesOf(new) => HeaderValue(new, n) = None
    BY NamesHaveValues
  <2>3. \A x : Some(x) # None
    BY DEF Some, None
  <2> QED BY <2>1, <2>2, <2>3
<1>7. \A x, y : Some(x) # None /\ (Some(x) = Some(y) => x = y)
  BY DEF Some, None
<1> DEFINE V == ValidNames(new) K == KeptNames(new)
<1>8. ASSUME NEW n \in DOMAIN out
      PROVE  \/ n \in V \ K /\ HeaderValue(new, n) = Some(out[n])
             \/ n \in K \cap DOMAIN headers /\ out[n] = headers[n]
  <2>1. CASE \E h \in SetBy(C) : Settable(h) /\ h[1] = n /\ out[n] = h[2]
    <3>1. PICK h \in SetBy(C) : Settable(h) /\ h[1] = n /\ out[n] = h[2]
      BY <2>1
    <3>2. HeaderValue(new, n) = Some(out[n]) /\ out[n] # "invalid value" /\ n # "invalid name"
      BY <1>5, <3>1 DEF Settable
    <3> QED BY <1>6, <1>7, <3>2 DEF ValidNames, KeptNames
  <2>2. CASE n \in DOMAIN W /\ out[n] = W[n] /\ n \notin SetNames(SetBy(C))
    <3>1. n \in DOMAIN headers /\ n # "invalid name" /\ n \notin RemovedBy(C) /\ out[n] = headers[n]
      BY <1>3, <2>2
    <3>2. HeaderValue(old, n) = Some(headers[n])
      BY <1>2, <3>1
    <3>3. HeaderValue(new, n) # None
      BY <1>5, <1>7, <3>1, <3>2
    <3>4. PICK v : HeaderValue(new, n) = Some(v)
      BY <1>6, <3>3, NamesHaveValues
    <3>5. n \in V
      BY <1>6, <3>1, <3>3 DEF ValidNames
    <3>6. CASE v = "invalid value"
      BY <3>1, <3>4, <3>5, <3>6 DEF KeptNames
    <3>7. CASE v # "invalid value"
      <4>1. v = headers[n]
        <5> SUFFICES ASSUME v # headers[n] PROVE FALSE
          OBVIOUS
        <5>1. PICK h \in SetBy(C) : h[1] = n
          BY <1>5, <1>7, <3>2, <3>4
        <5>2. h[2] = v
          BY <1>5, <1>7, <3>4, <5>1
        <5>3. Settable(h)
          BY <3>1, <3>7, <5>1, <5>2 DEF Settable
        <5> QED BY <2>2, <5>1, <5>3 DEF SetNames
      <4>2. n \notin K
        BY <1>7, <3>4, <3>7 DEF KeptNames
      <4> QED BY <3>1, <3>4, <3>5, <4>1, <4>2
    <3> QED BY <3>6, <3>7
  <2> QED BY <1>4, <2>1, <2>2 DEF HasSet
<1>9. ASSUME NEW n \in (V \ K) \cup (K \cap DOMAIN headers) PROVE n \in DOMAIN out
  <2>0. n \in NamesOf(new) /\ n # "invalid name"
    BY DEF ValidNames, KeptNames
  <2>1. PICK v : HeaderValue(new, n) = Some(v)
    BY <2>0, NamesHaveValues
  <2>2. CASE n \in DOMAIN headers
    <3>1. n \notin RemovedBy(C)
      BY <1>5, <1>7, <2>1
    <3> QED BY <1>3, <1>4, <2>2, <3>1 DEF HasSet
  <2>3. CASE n \notin DOMAIN headers
    <3>1. v # "invalid value"
      BY <2>1, <2>3 DEF KeptNames
    <3>2. HeaderValue(old, n) # Some(v)
      BY <1>2, <1>7, <2>3
    <3>3. PICK h \in SetBy(C) : h[1] = n
      BY <1>5, <2>1, <3>2
    <3>4. h[2] = v
      BY <1>5, <1>7, <2>1, <3>3
    <3>5. n \in SetNames(SetBy(C))
      BY <2>0, <3>1, <3>3, <3>4 DEF Settable, SetNames
    <3> QED BY <1>4, <3>5 DEF HasSet
  <2> QED BY <2>2, <2>3
<1>10. V \cap K = K /\ (V \ K) \cap K = {}
  BY DEF KeptNames
<1> HIDE DEF V, K
<1>11. /\ DOMAIN out = (V \ K) \cup (K \cap DOMAIN headers)
       /\ \A n \in V \ K : HeaderValue(new, n) = Some(out[n])
       /\ \A n \in K \cap DOMAIN headers : out[n] = headers[n]
  <2> HIDE DEF HasSet
  <2> QED BY <1>8, <1>9, <1>10
<1> QED BY <1>11 DEF HeadersAre, V, K

-----------------------------------------------------------------------------
(* Where a text is in another. *)

\* w is in s behind the first a characters.
SliceAt(w, s, a) == a + Len(w) <= Len(s) /\ \A k \in 1..Len(w) : w[k] = s[a + k]

\* A text that occurs somewhere.
LEMMA OccursMeans ==
    ASSUME NEW S, NEW s \in Seq(S), NEW w, w \in SubSeqs(s)
    PROVE  w \in Seq(S) /\ \E a \in Nat : SliceAt(w, s, a)
<1>0. Len(s) \in Nat
  BY LenProperties
<1>1. PICK i \in 0..Len(s) : \E j \in 0..Len(s) : w = SubSeq(s, i + 1, j)
  BY DEF SubSeqs
<1>2. PICK j \in 0..Len(s) : w = SubSeq(s, i + 1, j)
  BY <1>1
<1>3. i \in Nat /\ j \in Nat /\ j <= Len(s) /\ i <= Len(s)
  BY <1>0
<1>4. CASE i <= j
  <2>1. /\ w \in Seq(S) /\ Len(w) = j - i /\ \A k \in 1..(j - i) : w[k] = s[i + k]
    BY <1>2, <1>3, <1>4, SliceFacts
  <2>2. i + (j - i) <= Len(s)
    BY <1>0, <1>3
  <2>3. SliceAt(w, s, i)
    BY <2>1, <2>2 DEF SliceAt
  <2> QED BY <1>3, <2>1, <2>3
<1>5. CASE ~(i <= j)
  <2>1. w = <<>>
    BY <1>2, <1>3, <1>5, SubSeqEmpty
  <2>2. w \in Seq(S) /\ Len(w) = 0
    BY <2>1, EmptySeq
  <2>3. SliceAt(w, s, 0)
    BY <1>0, <2>2 DEF SliceAt
  <2> QED BY <2>2, <2>3
<1> QED BY <1>4, <1>5

LEMMA SliceOccurs ==
    ASSUME NEW S, NEW s \in Seq(S), NEW w \in Seq(S), NEW a \in Nat, SliceAt(w, s, a)
    PROVE  w \in SubSeqs(s) /\ w = SubSeq(s, a + 1, a + Len(w))
<1> DEFINE b == a + Len(w)
           u == SubSeq(s, a + 1, b)
<1>1. /\ Len(s) \in Nat /\ Len(w) \in Nat /\ b \in Nat /\ a <= b /\ b <= Len(s) /\ b - a = Len(w)
  BY LenProperties DEF SliceAt
<1> HIDE DEF b
<1>2. u \in Seq(S) /\ Len(u) = b - a /\ \A k \in 1..(b - a) : u[k] = s[a + k]
  BY <1>1, SliceFacts
<1> HIDE DEF u
<1>3. \A k \in 1..Len(w) : w[k] = s[a + k]
  BY DEF SliceAt
<1>4. w = u
  BY <1>1, <1>2, <1>3, SeqEqual
<1>5. a \in 0..Len(s) /\ b \in 0..Len(s)
  BY <1>1
<1>6. u \in SubSeqs(s)
  BY <1>5 DEF SubSeqs, u
<1> QED BY <1>4, <1>6 DEF u, b

LEMMA SliceOfSlice ==
    ASSUME NEW S, NEW t \in Seq(S), NEW s \in Seq(S), NEW w \in Seq(S), NEW a \in Nat, NEW b \in Nat,
           SliceAt(w, s, a), SliceAt(s, t, b)
    PROVE  SliceAt(w, t, b + a)
<1>1. Len(s) \in Nat /\ Len(w) \in Nat /\ Len(t) \in Nat
  BY LenProperties
<1>2. a + Len(w) <= Len(s) /\ b + Len(s) <= Len(t)
  BY DEF SliceAt
<1>3. ASSUME NEW k \in 1..Len(w) PROVE w[k] = t[(b + a) + k]
  <2>1. a + k \in 1..Len(s) /\ b + (a + k) = (b + a) + k
    BY <1>1, <1>2
  <2>2. w[k] = s[a + k] /\ s[a + k] = t[b + (a + k)]
    BY <2>1 DEF SliceAt
  <2> QED BY <2>1, <2>2
<1>4. (b + a) + Len(w) <= Len(t)
  BY <1>1, <1>2
<1> QED BY <1>3, <1>4 DEF SliceAt

LEMMA OccursWithin ==
    ASSUME NEW S, NEW t \in Seq(S), NEW s, s \in SubSeqs(t), NEW w, w \in SubSeqs(s)
    PROVE  w \in SubSeqs(t)
<1>1. s \in Seq(S)
  BY OccursMeans
<1>2. PICK b \in Nat : SliceAt(s, t, b)
  BY OccursMeans
<1>3. w \in Seq(S)
  BY <1>1, OccursMeans
<1>4. PICK a \in Nat : SliceAt(w, s, a)
  BY <1>1, OccursMeans
<1>5. SliceAt(w, t, b + a) /\ b + a \in Nat
  BY <1>1, <1>2, <1>3, <1>4, SliceOfSlice
<1> QED BY <1>3, <1>5, SliceOccurs

\* How a text starts.
LEMMA StartFacts ==
    ASSUME NEW S, NEW t \in Seq(S), NEW n \in Nat, n <= Len(t)
    PROVE  /\ SubSeq(t, 1, n) \in Seq(S) /\ Len(SubSeq(t, 1, n)) = n
           /\ \A k \in 1..n : SubSeq(t, 1, n)[k] = t[k]
           /\ SliceAt(SubSeq(t, 1, n), t, 0)
<1> DEFINE u == SubSeq(t, 1, n)
<1>1. u = SubSeq(t, 0 + 1, n) /\ n - 0 = n /\ 0 <= n /\ \A k \in 1..n : 0 + k = k
  OBVIOUS
<1>2. u \in Seq(S) /\ Len(u) = n - 0 /\ \A k \in 1..(n - 0) : u[k] = t[0 + k]
  <2> HIDE DEF u
  <2> QED BY <1>1, SliceFacts
<1> HIDE DEF u
<1>3. Len(u) = n /\ \A k \in 1..n : u[k] = t[k]
  BY <1>1, <1>2
<1>4. SliceAt(u, t, 0)
  BY <1>1, <1>3 DEF SliceAt
<1> QED BY <1>2, <1>3, <1>4 DEF u

LEMMA WithinStart ==
    ASSUME NEW S, NEW t \in Seq(S), NEW n \in Nat, n <= Len(t), NEW w
    PROVE  w \in SubSeqs(SubSeq(t, 1, n)) <=>
             w \in Seq(S) /\ \E a \in Nat : a + Len(w) <= n /\ SliceAt(w, t, a)
<1> DEFINE u == SubSeq(t, 1, n)
<1>1. u \in Seq(S) /\ Len(u) = n /\ \A k \in 1..n : u[k] = t[k]
  BY StartFacts
<1>2. Len(t) \in Nat
  BY LenProperties
<1> HIDE DEF u
<1>3. ASSUME w \in Seq(S), NEW a \in Nat
      PROVE  SliceAt(w, u, a) <=> (a + Len(w) <= n /\ SliceAt(w, t, a))
  <2>1. Len(w) \in Nat
    BY <1>3, LenProperties
  <2>2. a + Len(w) <= n => (a + Len(w) <= Len(t) /\ \A k \in 1..Len(w) : a + k \in 1..n)
    BY <1>2, <2>1
  <2>3. a + Len(w) <= n => \A k \in 1..Len(w) : u[a + k] = t[a + k]
    BY <1>1, <2>2
  <2> QED BY <1>1, <2>2, <2>3 DEF SliceAt
<1>4. ASSUME w \in SubSeqs(u) PROVE w \in Seq(S) /\ \E a \in Nat : a + Len(w) <= n /\ SliceAt(w, t, a)
  BY <1>1, <1>3, <1>4, OccursMeans
<1>5. ASSUME w \in Seq(S), NEW a \in Nat, a + Len(w) <= n, SliceAt(w, t, a) PROVE w \in SubSeqs(u)
  BY <1>1, <1>3, <1>5, SliceOccurs
<1> QED BY <1>4, <1>5 DEF u

-----------------------------------------------------------------------------
(* Replacing a text. *)

\* The first occurrence is one.
LEMMA FirstOccurs ==
    ASSUME NEW S, NEW t \in Seq(S), NEW w, w \in SubSeqs(t)
    PROVE  w \in Seq(S) /\ \E a \in Nat : SliceAt(w, t, a) /\ IndexFirstSubSeq(w, t) = a + 1
<1> DEFINE L == Len(t)
           T == {i \in 0..L : w \in SubSeqs(SubSeq(t, 1, i))}
           First(i) == w \in SubSeqs(SubSeq(t, 1, i)) /\ \A j \in 0..i-1 : w \notin SubSeqs(SubSeq(t, 1, j))
           last == CHOOSE i \in 0..L : First(i)
<1>0. L \in Nat /\ w \in Seq(S) /\ Len(w) \in Nat
  BY LenProperties, OccursMeans
<1>1. L \in T
  <2>1. SubSeq(t, 1, L) = t
    BY SubSeqFull
  <2>2. w \in SubSeqs(SubSeq(t, 1, L))
    BY <2>1
  <2> QED BY <1>0, <2>2
<1>2. T \in SUBSET Nat /\ T # {}
  BY <1>0, <1>1
<1>3. PICK i \in T : \A j \in T : i <= j
  <2> HIDE DEF T
  <2> QED BY <1>2, HasLeast
<1>4. First(i)
  <2>1. i \in 0..L /\ w \in SubSeqs(SubSeq(t, 1, i))
    OBVIOUS
  <2>2. ASSUME NEW j \in 0..i-1, w \in SubSeqs(SubSeq(t, 1, j)) PROVE FALSE
    <3>1. j \in 0..L /\ ~(i <= j)
      BY <1>0, <2>1
    <3>2. j \in T
      BY <2>2, <3>1
    <3> QED BY <1>3, <3>1, <3>2
  <2> QED BY <2>1, <2>2
<1>5. last \in 0..L /\ First(last)
  <2>1. i \in 0..L
    OBVIOUS
  <2> HIDE DEF First, L, T
  <2> QED BY <1>4, <2>1
<1>6. IndexFirstSubSeq(w, t) = last - (Len(w) - 1)
  BY DEF IndexFirstSubSeq
<1> HIDE DEF last
<1>7. last \in Nat /\ last <= Len(t)
  BY <1>0, <1>5
<1>8. PICK a \in Nat : a + Len(w) <= last /\ SliceAt(w, t, a)
  BY <1>5, <1>7, WithinStart
<1>9. last = a + Len(w)
  <2> SUFFICES ASSUME last # a + Len(w) PROVE FALSE
    OBVIOUS
  <2> DEFINE j == a + Len(w)
  <2>1. j \in Nat /\ j \in 0..last-1 /\ j <= Len(t) /\ a + Len(w) <= j
    BY <1>0, <1>7, <1>8
  <2> HIDE DEF j
  <2>2. w \in SubSeqs(SubSeq(t, 1, j))
    BY <1>0, <1>8, <2>1, WithinStart
  <2> QED BY <1>5, <2>1, <2>2
<1>10. IndexFirstSubSeq(w, t) = a + 1
  BY <1>0, <1>6, <1>9
<1> QED BY <1>0, <1>8, <1>10

\* To replace a text by another one makes a difference.
LEMMA ReplacedDiffers ==
    ASSUME NEW S, NEW t \in Seq(S), NEW w, w \in SubSeqs(t), NEW r \in Seq(S)
    PROVE  /\ ReplaceFirstSubSeq(r, w, t) \in Seq(S)
           /\ r # w => ReplaceFirstSubSeq(r, w, t) # t
<1>0. w \in Seq(S)
  BY FirstOccurs
<1>1. PICK a \in Nat : SliceAt(w, t, a) /\ IndexFirstSubSeq(w, t) = a + 1
  BY FirstOccurs
<1> DEFINE L == Len(t)
           x == Len(w)
           y == Len(r)
           b == a + x
           p == SubSeq(t, 1, a)
           q == SubSeq(t, b + 1, L)
           u == (p \o r) \o q
<1>2. /\ L \in Nat /\ x \in Nat /\ y \in Nat /\ b \in Nat /\ b <= L /\ a <= L /\ a <= b
      /\ \A k \in 1..x : w[k] = t[a + k]
  BY <1>0, <1>1, LenProperties DEF SliceAt
<1>3. ReplaceFirstSubSeq(r, w, t) = u
  <2>1. (a + 1) - 1 = a /\ (a + 1) + x = b + 1
    BY <1>2
  <2> QED BY <1>1, <2>1 DEF ReplaceFirstSubSeq, ReplaceSubSeqAt
<1>4. p \in Seq(S) /\ Len(p) = a
  BY <1>2, StartFacts
<1> HIDE DEF b
<1>5. q \in Seq(S) /\ Len(q) = L - b
  BY <1>2, SliceFacts
<1> HIDE DEF p, q
<1>6. /\ p \o r \in Seq(S) /\ Len(p \o r) = a + y
      /\ \A k \in 1..(a + y) : (p \o r)[k] = IF k <= a THEN p[k] ELSE r[k - a]
  BY <1>4, ConcatProperties
<1>7. /\ u \in Seq(S) /\ Len(u) = (a + y) + (L - b)
      /\ \A k \in 1..((a + y) + (L - b)) : u[k] = IF k <= a + y THEN (p \o r)[k] ELSE q[k - (a + y)]
  <2> DEFINE pr == p \o r
  <2>1. pr \in Seq(S) /\ Len(pr) = a + y
    BY <1>6
  <2> HIDE DEF pr
  <2>2. /\ pr \o q \in Seq(S) /\ Len(pr \o q) = Len(pr) + Len(q)
        /\ \A k \in 1..(Len(pr) + Len(q)) : (pr \o q)[k] = IF k <= Len(pr) THEN pr[k] ELSE q[k - Len(pr)]
    BY <1>5, <2>1, ConcatProperties
  <2> QED BY <1>5, <2>1, <2>2 DEF pr
<1> HIDE DEF u
<1>8. ASSUME u = t PROVE r = w
  <2>1. x = y
    BY <1>2, <1>7, <1>8 DEF b
  <2>2. ASSUME NEW k \in 1..y PROVE r[k] = w[k]
    <3>1. /\ a + k \in 1..((a + y) + (L - b)) /\ a + k <= a + y /\ a + k \in 1..(a + y)
          /\ ~(a + k <= a) /\ (a + k) - a = k /\ k \in 1..x
      BY <1>2, <2>1
    <3>2. u[a + k] = (p \o r)[a + k]
      BY <1>7, <3>1
    <3>3. (p \o r)[a + k] = r[(a + k) - a]
      BY <1>6, <3>1
    <3> QED BY <1>2, <1>8, <3>1, <3>2, <3>3
  <2> QED BY <1>0, <2>1, <2>2, SeqEqual
<1> QED BY <1>3, <1>7, <1>8

-----------------------------------------------------------------------------
(* The anchor of a generated filter is found in the body it was made from. *)

LEMMA TakeOccurs ==
    ASSUME NEW S, NEW s \in Seq(S), NEW n \in Nat
    PROVE  Take(s, n) \in SubSeqs(s) /\ IsPrefix(Take(s, n), s)
<1> DEFINE k == IF n < Len(s) THEN n ELSE Len(s)
           u == SubSeq(s, 1, k)
<1>1. k \in Nat /\ k <= Len(s) /\ Len(s) \in Nat
  BY LenProperties
<1> HIDE DEF k
<1>2. u \in Seq(S) /\ Len(u) = k /\ SliceAt(u, s, 0)
  BY <1>1, StartFacts
<1>3. SubSeq(u, 1, Len(u)) = u
  BY <1>2, SubSeqFull
<1>4. IsPrefix(u, s)
  BY <1>1, <1>2, <1>3 DEF IsPrefix
<1>5. u \in SubSeqs(s)
  BY <1>2, SliceOccurs
<1> QED BY <1>4, <1>5 DEF Take, k

LEMMA TrimOccurs ==
    ASSUME NEW S, NEW s \in Seq(S)
    PROVE  Trim(s) \in SubSeqs(s)
<1> DEFINE solid == {i \in 1..Len(s) : s[i] # Newline}
           first == CHOOSE i \in solid : \A j \in solid : i <= j
           last  == CHOOSE i \in solid : \A j \in solid : i >= j
<1>0. Len(s) \in Nat
  BY LenProperties
<1>1. CASE solid = {}
  <2>1. Trim(s) = <<>>
    BY <1>1 DEF Trim
  <2>2. Trim(s) = SubSeq(s, 0 + 1, 0)
    BY <2>1, SubSeqEmpty
  <2>3. 0 \in 0..Len(s)
    BY <1>0
  <2> QED BY <2>2, <2>3 DEF SubSeqs
<1>2. CASE solid # {}
  <2>1. \E i \in solid : \A j \in solid : i <= j
    <3>1. solid \in SUBSET Nat
      BY <1>0
    <3> HIDE DEF solid
    <3> QED BY <1>2, <3>1, HasLeast
  <2>2. first \in solid
    <3> HIDE DEF solid
    <3> QED BY <2>1
  <2>3. last \in solid
    <3>1. solid \in SUBSET (1..Len(s))
      OBVIOUS
    <3> HIDE DEF solid
    <3>2. Max(solid) \in solid /\ \A j \in solid : j <= Max(solid)
      BY <1>0, <1>2, <3>1, MaxFacts
    <3>3. \A j \in solid : Max(solid) >= j
      BY <1>0, <3>1, <3>2
    <3> QED BY <3>2, <3>3
  <2>4. Trim(s) = SubSeq(s, first, last)
    BY <1>2 DEF Trim
  <2> HIDE DEF first, last
  <2> DEFINE f == first - 1
  <2>5. f \in 0..Len(s) /\ last \in 0..Len(s) /\ f + 1 = first
    BY <1>0, <2>2, <2>3
  <2> HIDE DEF f
  <2>6. SubSeq(s, f + 1, last) \in SubSeqs(s)
    BY <2>5 DEF SubSeqs
  <2> QED BY <2>4, <2>5, <2>6
<1> QED BY <1>1, <1>2

\* One character of Lines, as an operation of a fold; the first argument is not used.
LineRead(p, ls, c) == IF c = Newline THEN Append(ls, <<>>) ELSE [ls EXCEPT ![Len(ls)] = Append(@, c)]

Reading == INSTANCE FoldTheorems WITH FoldOp <- LineRead, FoldKept <- IsSeq

LEMMA LinesFold ==
    ASSUME NEW s
    PROVE  Lines(s) = Reading!FoldOf(0, <<<<>>>>, s)[DOMAIN s]
BY DEF Lines, FoldLeft, MapThenFoldSet, Max, Reading!FoldOf, Reading!IsFold,
       Reading!FoldTurn, Reading!Max, LineRead

LEMMA LinesOfNone == Lines(<<>>) = <<<<>>>>
<1>1. DOMAIN <<>> = {}
  OBVIOUS
<1> QED BY <1>1, LinesFold, Reading!FoldNothing

LEMMA LinesOfMore ==
    ASSUME NEW s, NEW c, IsSeq(s)
    PROVE  Lines(Append(s, c)) = LineRead(0, Lines(s), c)
<1>1. Reading!IsSeq(s)
  BY DEF IsSeq, Reading!IsSeq, ToSet, Reading!ToSet
<1>2. Reading!FoldOf(0, <<<<>>>>, Append(s, c))[DOMAIN Append(s, c)]
        = LineRead(0, Reading!FoldOf(0, <<<<>>>>, s)[DOMAIN s], c)
  BY <1>1, Reading!FoldAppended
<1> QED BY <1>2, LinesFold

\* The lines read so far are in the text, the last one at its end.
LinesIn(ls, t, S) ==
    /\ ls \in Seq(Seq(S)) /\ Len(ls) \in Nat \ {0}
    /\ \A i \in 1..Len(ls) : ls[i] \in SubSeqs(t)
    /\ SliceAt(ls[Len(ls)], t, Len(t) - Len(ls[Len(ls)]))
    /\ Len(ls[Len(ls)]) <= Len(t)

LEMMA NoLines == \A S : LinesIn(<<<<>>>>, <<>>, S)
<1> SUFFICES ASSUME NEW S PROVE LinesIn(<<<<>>>>, <<>>, S)
  OBVIOUS
<1> DEFINE ls == <<<<>>>>
<1>1. <<>> \in Seq(S) /\ Len(<<>>) = 0
  BY EmptySeq
<1>2. ls \in Seq(Seq(S)) /\ Len(ls) = 1 /\ ls[1] = <<>>
  BY <1>1
<1>3. SliceAt(<<>>, <<>>, 0)
  BY <1>1 DEF SliceAt
<1>4. <<>> \in SubSeqs(<<>>)
  BY <1>1, <1>3, SliceOccurs
<1> HIDE DEF ls
<1>5. \A i \in 1..Len(ls) : ls[i] \in SubSeqs(<<>>)
  BY <1>2, <1>4
<1>6. LinesIn(ls, <<>>, S)
  BY <1>1, <1>2, <1>3, <1>5 DEF LinesIn
<1> QED BY <1>6 DEF ls

LEMMA OneMoreCharacter ==
    ASSUME NEW S, NEW t \in Seq(S), NEW c \in S, NEW ls, LinesIn(ls, t, S)
    PROVE  LinesIn(LineRead(0, ls, c), Append(t, c), S)
<1> DEFINE n == Len(ls)
           l == ls[n]
           x == Len(l)
           u == Append(t, c)
           L == Len(t)
           new == LineRead(0, ls, c)
<1>1. /\ ls \in Seq(Seq(S)) /\ n \in Nat \ {0} /\ \A i \in 1..n : ls[i] \in SubSeqs(t)
      /\ SliceAt(l, t, L - x) /\ x <= L
  BY DEF LinesIn
<1>2. n \in 1..n /\ l \in Seq(S)
  BY <1>1, ElementOfSeq
<1>3. /\ u \in Seq(S) /\ Len(u) = L + 1 /\ \A i \in 1..L : u[i] = t[i]
      /\ u[L + 1] = c /\ L \in Nat /\ x \in Nat
  BY <1>2, AppendProperties, LenProperties
<1> HIDE DEF n, l, u, L, x
<1>4. t \in SubSeqs(u)
  <2>1. SliceAt(t, u, 0)
    BY <1>3 DEF SliceAt, L
  <2> QED BY <1>3, <2>1, SliceOccurs
<1>5. \A i \in 1..n : ls[i] \in SubSeqs(u)
  BY <1>1, <1>3, <1>4, OccursWithin
<1>6. CASE c = Newline
  <2> DEFINE z == <<>>
             T == Seq(S)
  <2>1. new = Append(ls, z)
    BY <1>6 DEF LineRead
  <2>2. z \in T /\ Len(z) = 0
    BY EmptySeq
  <2> HIDE DEF z, new, T
  <2>3. /\ new \in Seq(T) /\ Len(new) = n + 1 /\ new[n + 1] = z /\ \A i \in 1..n : new[i] = ls[i]
    <3>1. ls \in Seq(T)
      BY <1>1 DEF T
    <3> QED BY <2>1, <2>2, <3>1, AppendProperties DEF n
  <2>4. SliceAt(z, u, Len(u)) /\ Len(u) \in Nat
    BY <1>3, <2>2 DEF SliceAt
  <2>5. z \in SubSeqs(u)
    BY <1>3, <2>2, <2>4, SliceOccurs DEF T
  <2>6. \A i \in 1..(n + 1) : new[i] \in SubSeqs(u)
    <3>1. \A i \in 1..(n + 1) : i \in 1..n \/ i = n + 1
      BY <1>1
    <3> QED BY <1>5, <2>3, <2>5, <3>1
  <2>7. n + 1 \in Nat \ {0} /\ Len(u) - 0 = Len(u) /\ 0 <= Len(u)
    BY <1>1, <1>3
  <2>8. LinesIn(new, u, S)
    BY <2>2, <2>3, <2>4, <2>6, <2>7 DEF LinesIn, T
  <2> QED BY <2>8 DEF new, u
<1>7. CASE c # Newline
  <2> DEFINE m == Append(l, c)
  <2>1. new = [ls EXCEPT ![n] = m]
    BY <1>7 DEF LineRead, n, l
  <2>2. /\ m \in Seq(S) /\ Len(m) = x + 1 /\ \A i \in 1..x : m[i] = l[i]
        /\ m[x + 1] = c
    BY <1>2, AppendProperties DEF x
  <2> HIDE DEF m
  <2>3. /\ new \in Seq(Seq(S)) /\ Len(new) = n
        /\ \A i \in 1..n : new[i] = IF i = n THEN m ELSE ls[i]
    <3> DEFINE T == Seq(S)
    <3>1. ls \in Seq(T) /\ n \in 1..Len(ls) /\ m \in T
      BY <1>1, <1>2, <2>2 DEF n
    <3> HIDE DEF T
    <3>2. /\ [ls EXCEPT ![n] = m] \in Seq(T) /\ Len([ls EXCEPT ![n] = m]) = Len(ls)
          /\ \A j \in 1..Len(ls) : [ls EXCEPT ![n] = m][j] = IF j = n THEN m ELSE ls[j]
      BY <3>1, ExceptSeq
    <3> QED BY <2>1, <3>2 DEF n, T
  <2> HIDE DEF new
  <2> DEFINE a == L - x
  <2>4. a \in Nat /\ a + x = L /\ a + (x + 1) = L + 1 /\ Len(u) - Len(m) = a /\ Len(m) <= Len(u)
    BY <1>1, <1>3, <2>2
  <2>5. \A k \in 1..x : l[k] = t[a + k]
    BY <1>1 DEF SliceAt, x
  <2> HIDE DEF a
  <2>6. ASSUME NEW k \in 1..(x + 1) PROVE m[k] = u[a + k]
    <3>1. CASE k = x + 1
      BY <1>3, <2>2, <2>4, <3>1
    <3>2. CASE k # x + 1
      <4>1. k \in 1..x /\ a + k \in 1..L
        BY <1>3, <2>4, <3>2
      <4> QED BY <1>3, <2>2, <2>5, <4>1
    <3> QED BY <3>1, <3>2
  <2>7. SliceAt(m, u, a)
    BY <1>3, <2>2, <2>4, <2>6 DEF SliceAt
  <2>8. m \in SubSeqs(u)
    BY <1>3, <2>2, <2>4, <2>7, SliceOccurs
  <2>9. \A i \in 1..n : new[i] \in SubSeqs(u)
    BY <1>5, <2>3, <2>8
  <2>10. LinesIn(new, u, S)
    BY <1>1, <1>2, <2>3, <2>4, <2>7, <2>9 DEF LinesIn
  <2> QED BY <2>10 DEF new, u
<1> QED BY <1>6, <1>7

LEMMA LinesOccur ==
    ASSUME NEW S, NEW s \in Seq(S)
    PROVE  IsSeq(Lines(s)) /\ \A l \in ToSet(Lines(s)) : l \in SubSeqs(s)
<1> DEFINE Q == {t \in Seq(S) : LinesIn(Lines(t), t, S)}
<1>1. <<>> \in Q
  BY LinesOfNone, NoLines, EmptySeq
<1>2. Extends(Q, S)
  <2> SUFFICES ASSUME NEW t \in Q, NEW x \in S PROVE Append(t, x) \in Q
    BY DEF Extends
  <2>1. t \in Seq(S) /\ IsSeq(t) /\ LinesIn(Lines(t), t, S)
    BY OwnElements
  <2>2. Append(t, x) \in Seq(S) /\ Lines(Append(t, x)) = LineRead(0, Lines(t), x)
    BY <2>1, AppendProperties, LinesOfMore
  <2>3. LinesIn(LineRead(0, Lines(t), x), Append(t, x), S)
    BY <2>1, OneMoreCharacter
  <2> QED BY <2>2, <2>3
<1>3. Q = Seq(S)
  <2>1. Q \in SUBSET Seq(S)
    OBVIOUS
  <2> HIDE DEF Q
  <2> QED BY <1>1, <1>2, <2>1, SeqSetInduction
<1>4. LinesIn(Lines(s), s, S)
  BY <1>3
<1>5. Lines(s) \in Seq(Seq(S)) /\ \A i \in 1..Len(Lines(s)) : Lines(s)[i] \in SubSeqs(s)
  BY <1>4 DEF LinesIn
<1>6. IsSeq(Lines(s)) /\ DOMAIN Lines(s) = 1..Len(Lines(s))
  BY <1>5, OwnElements
<1> QED BY <1>5, <1>6 DEF ToSet

LEMMA AnchorOccurs ==
    ASSUME NEW o, NEW e, IsSeq(o), NEW a, ResponseBodyRewriteAnchor(o, e) = Some(a)
    PROVE  Occurs(a, o)
<1> DEFINE S == ToSet(o)
           w == Trim(o)
           f == Trim(e)
           ls == Lines(w)
           K == {l \in ToSet(ls) : Len(l) >= MinAnchor /\ Occurs(Take(l, MaxAnchor), f)}
           kept == Those(ls, K)
<1>1. o \in Seq(S) /\ w \in SubSeqs(o) /\ w \in Seq(S)
  <2>1. o \in Seq(S)
    BY DEF IsSeq
  <2> HIDE DEF S
  <2> QED BY <2>1, TrimOccurs, OccursMeans
<1> HIDE DEF S
<1>2. MaxAnchor \in Nat /\ \A x : Some(x) # None
  BY RewriteAssumption DEF Some, None
<1>3. CommonTextAnchor(w, f) = Some(a)
  BY <1>2 DEF ResponseBodyRewriteAnchor
<1>4. /\ kept # <<>> => a = Take(kept[1], MaxAnchor)
      /\ kept = <<>> => a = Take(w, MaxAnchor)
  BY <1>2, <1>3 DEF CommonTextAnchor, Some
<1> HIDE DEF w, f
<1>5. IsSeq(ls) /\ \A l \in ToSet(ls) : l \in SubSeqs(w)
  BY <1>1, LinesOccur
<1> HIDE DEF ls
<1>6. CASE kept # <<>>
  <2>1. IsSeq(kept) /\ ToSet(kept) \subseteq ToSet(ls)
    BY <1>5, ThoseFacts
  <2> HIDE DEF kept
  <2>2. 1 \in DOMAIN kept
    <3>1. kept \in Seq(ToSet(kept)) /\ Len(kept) \in Nat \ {0} /\ DOMAIN kept = 1..Len(kept)
      BY <1>6, <2>1, EmptySeq, LenProperties DEF IsSeq
    <3> QED BY <3>1
  <2>3. kept[1] \in SubSeqs(w)
    BY <1>5, <2>1, <2>2 DEF ToSet
  <2>4. kept[1] \in Seq(S) /\ kept[1] \in SubSeqs(o)
    BY <1>1, <2>3, OccursMeans, OccursWithin
  <2>5. Take(kept[1], MaxAnchor) \in SubSeqs(kept[1])
    BY <1>2, <2>4, TakeOccurs
  <2> QED BY <1>1, <1>4, <1>6, <2>4, <2>5, OccursWithin DEF Occurs
<1>7. CASE kept = <<>>
  <2>1. Take(w, MaxAnchor) \in SubSeqs(w)
    BY <1>1, <1>2, TakeOccurs
  <2> QED BY <1>1, <1>4, <1>7, <2>1, OccursWithin DEF Occurs
<1> QED BY <1>6, <1>7

-----------------------------------------------------------------------------
(* What a replacement is made of is different. *)

\* A common prefix, as long as it is said to be.
LEMMA CommonPrefixFacts ==
    ASSUME NEW S, NEW l \in Seq(S), NEW r \in Seq(S)
    PROVE  /\ CommonPrefixLen(l, r) \in Nat /\ CommonPrefixLen(l, r) <= Len(l)
           /\ CommonPrefixLen(l, r) <= Len(r)
           /\ \A k \in 1..CommonPrefixLen(l, r) : l[k] = r[k]
<1> DEFINE P == CommonPrefixes({l, r})
           Longest(x) == \A y \in P : Len(y) <= Len(x)
           p == LongestCommonPrefix({l, r})
<1>0. Len(l) \in Nat /\ Len(r) \in Nat
  BY LenProperties
<1>1. \A x \in P : x \in Seq(S) /\ IsPrefix(x, l) /\ IsPrefix(x, r)
  <2> SUFFICES ASSUME NEW x \in P PROVE x \in Seq(S) /\ IsPrefix(x, l) /\ IsPrefix(x, r)
    OBVIOUS
  <2>1. /\ IsPrefix(x, l) /\ IsPrefix(x, r)
        /\ \E s \in {l, r} : x \in Prefixes(s)
    BY DEF CommonPrefixes
  <2>2. PICK s \in {l, r} : x \in Prefixes(s)
    BY <2>1
  <2>3. PICK n \in 0..Len(s) : x = SubSeq(s, 1, n)
    BY <2>2 DEF Prefixes
  <2>4. s \in Seq(S) /\ n \in Nat /\ n <= Len(s)
    BY <1>0
  <2>5. SubSeq(s, 1, n) \in Seq(S)
    BY <2>4, StartFacts
  <2> QED BY <2>1, <2>3, <2>5
<1>2. <<>> \in P
  <2>1. SubSeq(l, 1, 0) = <<>> /\ SubSeq(r, 1, 0) = <<>> /\ SubSeq(<<>>, 1, 0) = <<>> /\ Len(<<>>) = 0
    BY SubSeqEmpty, EmptySeq
  <2>2. 0 \in 0..Len(l)
    BY <1>0
  <2>3. <<>> \in Prefixes(l)
    BY <2>1, <2>2 DEF Prefixes
  <2>4. IsPrefix(<<>>, l) /\ IsPrefix(<<>>, r)
    BY <1>0, <2>1 DEF IsPrefix
  <2>5. <<>> \in UNION {Prefixes(s) : s \in {l, r}}
    BY <2>3
  <2>6. \A s \in {l, r} : IsPrefix(<<>>, s)
    BY <2>4
  <2> QED BY <2>5, <2>6 DEF CommonPrefixes
<1> HIDE DEF P
<1>3. \A x \in P : Len(x) \in Nat /\ Len(x) <= Len(l)
  BY <1>1, LenProperties DEF IsPrefix
<1>4. \E x \in P : Longest(x)
  <2> DEFINE T == {Len(l) - Len(x) : x \in P}
  <2>1. T \in SUBSET Nat /\ T # {}
    BY <1>0, <1>2, <1>3
  <2>2. PICK n \in T : \A m \in T : n <= m
    <3> HIDE DEF T
    <3> QED BY <2>1, HasLeast
  <2>3. PICK x \in P : n = Len(l) - Len(x)
    OBVIOUS
  <2>4. ASSUME NEW y \in P PROVE Len(y) <= Len(x)
    <3>1. Len(l) - Len(x) <= Len(l) - Len(y)
      BY <2>2, <2>3
    <3> QED BY <1>0, <1>3, <3>1
  <2> QED BY <2>4
<1>5. p \in P
  <2>1. p = CHOOSE x \in P : Longest(x)
    BY DEF LongestCommonPrefix, P
  <2> HIDE DEF p, Longest
  <2> QED BY <1>4, <2>1
<1> DEFINE n == Len(p)
<1>6. CommonPrefixLen(l, r) = n
  BY DEF CommonPrefixLen
<1> HIDE DEF p
<1>7. n \in Nat /\ n <= Len(l) /\ n <= Len(r) /\ SubSeq(l, 1, n) = SubSeq(r, 1, n)
  BY <1>1, <1>3, <1>5 DEF IsPrefix
<1> HIDE DEF n
<1>8. \A k \in 1..n : SubSeq(l, 1, n)[k] = l[k] /\ SubSeq(r, 1, n)[k] = r[k]
  BY <1>7, StartFacts
<1>9. \A k \in 1..n : l[k] = r[k]
  BY <1>7, <1>8
<1> QED BY <1>6, <1>7, <1>9

LEMMA CommonSuffixFacts ==
    ASSUME NEW S, NEW l \in Seq(S), NEW r \in Seq(S)
    PROVE  /\ CommonSuffixLen(l, r) \in Nat /\ CommonSuffixLen(l, r) <= Len(l)
           /\ CommonSuffixLen(l, r) <= Len(r)
           /\ \A k \in 1..CommonSuffixLen(l, r) : l[(Len(l) - k) + 1] = r[(Len(r) - k) + 1]
<1>1. \A s \in Seq(S) : /\ Reverse(s) \in Seq(S) /\ Len(Reverse(s)) = Len(s)
                        /\ \A k \in 1..Len(s) : Reverse(s)[k] = s[(Len(s) - k) + 1]
  <2> SUFFICES ASSUME NEW s \in Seq(S)
               PROVE  /\ Reverse(s) \in Seq(S) /\ Len(Reverse(s)) = Len(s)
                      /\ \A k \in 1..Len(s) : Reverse(s)[k] = s[(Len(s) - k) + 1]
    OBVIOUS
  <2> DEFINE n == Len(s)
             u == [i \in 1..n |-> s[(n - i) + 1]]
  <2>1. n \in Nat /\ \A i \in 1..n : s[i] \in S
    BY ElementOfSeq, LenProperties
  <2> HIDE DEF n
  <2>2. \A i \in 1..n : (n - i) + 1 \in 1..n
    BY <2>1
  <2>3. u \in [1..n -> S]
    BY <2>1, <2>2
  <2>4. u \in Seq(S) /\ Len(u) = n
    <3>1. DOMAIN u = 1..n
      OBVIOUS
    <3> HIDE DEF u
    <3>2. u \in Seq(S)
      BY <2>1, <2>3, SeqDef
    <3> QED BY <2>1, <3>1, <3>2, LenProperties
  <2> QED BY <2>4 DEF Reverse, n
<1> DEFINE n == CommonPrefixLen(Reverse(l), Reverse(r))
<1>2. /\ n \in Nat /\ n <= Len(l) /\ n <= Len(r)
      /\ \A k \in 1..n : Reverse(l)[k] = Reverse(r)[k]
  BY <1>1, CommonPrefixFacts
<1>3. CommonSuffixLen(l, r) = n
  BY DEF CommonSuffixLen
<1> HIDE DEF n
<1>4. \A k \in 1..n : k \in 1..Len(l) /\ k \in 1..Len(r)
  BY <1>2, LenProperties
<1> QED BY <1>1, <1>2, <1>3, <1>4

\* Where two texts differ there is something to replace, by something else.
LEMMA ReplacementDiffers ==
    ASSUME NEW S, NEW x \in Seq(S), NEW y \in Seq(S), x # y, NEW q,
           SingleTextReplacement(x, y) = Some(q)
    PROVE  q.old \in Seq(S) /\ q.new \in Seq(S) /\ q.old # q.new
<1> DEFINE a == CommonPrefixLen(x, y)
           xb == Behind(x, a)
           yb == Behind(y, a)
           z == CommonSuffixLen(xb, yb)
           L == Len(x)
           M == Len(y)
           old == SubSeq(x, a + 1, L - z)
           new == SubSeq(y, a + 1, M - z)
<1>1. /\ a \in Nat /\ a <= L /\ a <= M /\ L \in Nat /\ M \in Nat
      /\ \A k \in 1..a : x[k] = y[k]
  BY CommonPrefixFacts, LenProperties
<1>2. q.old = old /\ q.new = new
  <2>1. Between(x, y, a, z) = Some(q)
    BY DEF SingleTextReplacement
  <2> HIDE DEF a, z
  <2> QED BY <2>1 DEF Between, Some, None
<1> HIDE DEF a
<1>3. /\ xb \in Seq(S) /\ Len(xb) = L - a /\ \A k \in 1..(L - a) : xb[k] = x[a + k]
      /\ yb \in Seq(S) /\ Len(yb) = M - a /\ \A k \in 1..(M - a) : yb[k] = y[a + k]
  BY <1>1, SliceFacts DEF Behind
<1> HIDE DEF xb, yb
<1>4. /\ z \in Nat /\ z <= L - a /\ z <= M - a
      /\ \A k \in 1..z : xb[((L - a) - k) + 1] = yb[((M - a) - k) + 1]
  <2>1. /\ z \in Nat /\ z <= Len(xb) /\ z <= Len(yb)
        /\ \A k \in 1..z : xb[(Len(xb) - k) + 1] = yb[(Len(yb) - k) + 1]
    <3>1. xb \in Seq(S) /\ yb \in Seq(S)
      BY <1>3
    <3> QED BY <3>1, CommonSuffixFacts
  <2> HIDE DEF z, L, M
  <2> QED BY <1>3, <2>1
<1> HIDE DEF z
<1> DEFINE b == L - z
           c == M - z
<1>5. b \in Nat /\ c \in Nat /\ a <= b /\ a <= c /\ b <= L /\ c <= M
  BY <1>1, <1>4
<1>6. /\ old \in Seq(S) /\ Len(old) = b - a /\ \A k \in 1..(b - a) : old[k] = x[a + k]
      /\ new \in Seq(S) /\ Len(new) = c - a /\ \A k \in 1..(c - a) : new[k] = y[a + k]
  <2> HIDE DEF b, c
  <2>1. old = SubSeq(x, a + 1, b) /\ new = SubSeq(y, a + 1, c)
    BY DEF b, c
  <2> HIDE DEF old, new
  <2> QED BY <1>1, <1>5, <2>1, SliceFacts
<1> HIDE DEF old, new
<1>7. ASSUME old = new PROVE FALSE
  <2>1. L = M /\ b = c
    BY <1>1, <1>4, <1>5, <1>6, <1>7
  <2>2. ASSUME NEW k \in 1..L PROVE x[k] = y[k]
    <3>1. CASE k <= a
      BY <1>1, <2>2, <3>1
    <3>2. CASE a < k /\ k <= b
      <4> DEFINE j == k - a
      <4>1. j \in 1..(b - a) /\ j \in 1..(c - a) /\ a + j = k
        BY <1>1, <1>5, <2>1, <3>2
      <4> HIDE DEF j
      <4> QED BY <1>6, <1>7, <4>1
    <3>3. CASE b < k
      <4> DEFINE j == (L - k) + 1
                 i == k - a
      <4>1. /\ j \in 1..z /\ ((L - a) - j) + 1 = i /\ i \in 1..(L - a) /\ a + i = k
        BY <1>1, <1>4, <1>5, <3>3
      <4> HIDE DEF j, i
      <4>2. xb[i] = yb[i]
        BY <1>4, <2>1, <4>1
      <4> QED BY <1>3, <2>1, <4>1, <4>2
    <3> QED BY <1>1, <1>5, <3>1, <3>2, <3>3
  <2>3. x = y
    BY <2>1, <2>2, SeqEqual
  <2> QED BY <2>3
<1> QED BY <1>2, <1>6, <1>7

\* A replacement of a generated filter in a body: by something else, once.
GoodReplacement(call, body) ==
    /\ call.op = "replace" /\ call.all = FALSE /\ call.old # call.new
    /\ Occurs(call.old, body) => IsSeq(call.new)

LEMMA ReplacedOnce ==
    ASSUME NEW S, NEW s \in Seq(S), NEW old, NEW new \in Seq(S)
    PROVE  ReplaceOnce(s, old, new) \in Seq(S)
<1>1. CASE old = <<>>
  BY <1>1, ConcatProperties DEF ReplaceOnce
<1>2. CASE old # <<>> /\ old \in SubSeqs(s)
  BY <1>2, ReplacedDiffers DEF ReplaceOnce
<1>3. CASE old # <<>> /\ old \notin SubSeqs(s)
  BY <1>3 DEF ReplaceOnce, ReplaceFirstSubSeq
<1> QED BY <1>1, <1>2, <1>3

LEMMA IntentIsGood ==
    ASSUME NEW x, NEW y, IsSeq(x), IsSeq(y), NEW ctype, NEW call,
           BodyActionFromIntent(x, y, ctype) = Some(call)
    PROVE  GoodReplacement(call, x)
<1> DEFINE S == ToSet(x) \cup ToSet(y)
           r == SingleTextReplacement(x, y)
           q == r[1]
           language == IF ctype = None THEN "text" ELSE Media[ctype[1]]
           nodes == Enclosing(Trees[x], q)
           Good(v) == /\ v.old # v.new
                      /\ Occurs(v.old, x) => v.new \in Seq(S)
<1>1. x \in Seq(S) /\ y \in Seq(S)
  BY SeqMonotonic DEF IsSeq
<1>2. x # y /\ r # None /\ call = ActionFromIntent(language, x, q)
  BY DEF BodyActionFromIntent, Some, None
<1>3. r = Some(q)
  <2>1. \E v : r = Some(v)
    BY <1>2 DEF SingleTextReplacement, Between
  <2> HIDE DEF r
  <2> QED BY <2>1 DEF Some
<1> HIDE DEF S
<1>4. q.old \in Seq(S) /\ q.new \in Seq(S) /\ q.old # q.new
  BY <1>1, <1>2, <1>3, ReplacementDiffers
<1>5. Good(q)
  BY <1>4
<1> HIDE DEF r, q, language
<1>6. Good(Expanded(x, nodes, q))
  <2> DEFINE string == Nearest(nodes, {"string"})
             old == SubSeq(x, string[1].start + 1, string[1].end)
             new == ReplaceOnce(old, q.old, q.new)
  <2>1. CASE Expanded(x, nodes, q) = q
    BY <1>5, <2>1
  <2>2. CASE Expanded(x, nodes, q) # q
    <3>1. /\ new # old
          /\ Expanded(x, nodes, q) = [start |-> string[1].start, end |-> string[1].end, old |-> old, new |-> new]
      BY <2>2 DEF Expanded
    <3>2. ASSUME Occurs(old, x) PROVE new \in Seq(S)
      <4>1. old \in Seq(S)
        BY <1>1, <3>2, OccursMeans DEF Occurs
      <4> HIDE DEF old
      <4> QED BY <1>4, <4>1, ReplacedOnce
    <3> HIDE DEF old, new
    <3> QED BY <3>1, <3>2
  <2> QED BY <2>1, <2>2
<1> HIDE DEF nodes
<1>7. \E v : Good(v) /\ \E needs : call = Replacement(needs, v.old, v.new, FALSE)
  <2> HIDE DEF Good
  <2>1. CASE call = Replacement({}, q.old, q.new, FALSE)
    BY <1>5, <2>1
  <2>2. CASE language = "javascript" /\ call = AnchoredReplacement(language, x, q)
    <3>1. call = JavascriptReplacement(x, nodes, q)
      BY <2>2 DEF AnchoredReplacement, nodes
    <3> QED BY <1>5, <1>6, <3>1 DEF JavascriptReplacement, ReplacementIn
  <2>3. CASE language \in {"css", "html"} /\ call = AnchoredReplacement(language, x, q)
    <3>1. call = CssReplacement(nodes, q) \/ call = HtmlReplacement(nodes, q)
      BY <2>3 DEF AnchoredReplacement, nodes
    <3> QED BY <1>5, <3>1 DEF CssReplacement, HtmlReplacement, ReplacementIn
  <2> QED BY <1>2, <2>1, <2>2, <2>3 DEF ActionFromIntent
<1>8. PICK v : Good(v) /\ \E needs : call = Replacement(needs, v.old, v.new, FALSE)
  BY <1>7
<1>9. call.op = "replace" /\ call.all = FALSE /\ call.old = v.old /\ call.new = v.new
  BY <1>8 DEF Replacement
<1>10. Occurs(v.old, x) => IsSeq(v.new)
  BY <1>8, OwnElements
<1> QED BY <1>8, <1>9, <1>10 DEF GoodReplacement

-----------------------------------------------------------------------------
(* The calls that a generated filter makes. *)

\* The actions for the headers tell what became of them.
LEMMA HeaderActionsTell ==
    ASSUME NEW o, NEW e, IsSeq(o.headers), IsSeq(e.headers), NamesDiffer(e.headers)
    PROVE  /\ IsSeq(HeaderActions(o, e)) /\ \A c \in ToSet(HeaderActions(o, e)) : c.op \in HeaderOps
           /\ TellsHeaders(ToSet(HeaderActions(o, e)), o.headers, e.headers)
<1> DEFINE old == o.headers
           new == e.headers
           V(hs, n) == HeaderValue(hs, n)
           K == {h \in ToSet(old) : V(new, h[1]) \notin {None, Some(h[2])}}
           removed == RemovedHeaders(o, e)
           changed == ChangedHeaders(o, e)
           added == AddedHeaders(o, e)
           R(h) == [op |-> "remove_header", name |-> h[1]]
           G(h) == [op |-> "set_header", name |-> h[1], value |-> V(new, h[1])[1]]
           A(h) == [op |-> "set_header", name |-> h[1], value |-> h[2]]
           fr == [i \in DOMAIN removed |-> R(removed[i])]
           fg == [i \in DOMAIN changed |-> G(changed[i])]
           fa == [i \in DOMAIN added |-> A(added[i])]
<1>1. /\ IsSeq(removed) /\ ToSet(removed) = Lacking(old, new)
      /\ IsSeq(changed) /\ ToSet(changed) = K
      /\ IsSeq(added) /\ ToSet(added) = Lacking(new, old)
  <2>1. /\ Lacking(old, new) \subseteq ToSet(old) /\ K \subseteq ToSet(old)
        /\ Lacking(new, old) \subseteq ToSet(new)
    BY DEF Lacking
  <2>2. removed = Those(old, Lacking(old, new)) /\ changed = Those(old, K) /\ added = Those(new, Lacking(new, old))
    BY DEF RemovedHeaders, ChangedHeaders, AddedHeaders
  <2>3. IsSeq(old) /\ IsSeq(new)
    OBVIOUS
  <2> HIDE DEF K, old, new, removed, changed, added
  <2>4. \A s, t : s \subseteq t => t \cap s = s
    OBVIOUS
  <2>5. IsSeq(removed) /\ ToSet(removed) = ToSet(old) \cap Lacking(old, new)
    BY <2>2, <2>3, ThoseFacts
  <2>6. IsSeq(changed) /\ ToSet(changed) = ToSet(old) \cap K
    BY <2>2, <2>3, ThoseFacts
  <2>7. IsSeq(added) /\ ToSet(added) = ToSet(new) \cap Lacking(new, old)
    BY <2>2, <2>3, ThoseFacts
  <2> QED BY <2>1, <2>4, <2>5, <2>6, <2>7
<1>2. HeaderActions(o, e) = (fr \o fg) \o fa
  BY DEF HeaderActions
<1> HIDE DEF removed, changed, added, old, new, V
<1>3. /\ IsSeq(fr) /\ ToSet(fr) = {R(h) : h \in Lacking(old, new)}
      /\ IsSeq(fg) /\ ToSet(fg) = {G(h) : h \in K}
      /\ IsSeq(fa) /\ ToSet(fa) = {A(h) : h \in Lacking(new, old)}
  <2>1. \A s : IsSeq(s) => DOMAIN s = 1..Len(s) /\ Len(s) \in Nat
    BY LenProperties DEF IsSeq
  <2>2. IsSeq(fr) /\ ToSet(fr) = {R(h) : h \in ToSet(removed)}
    <3>1. DOMAIN fr = 1..Len(removed) /\ fr = [i \in 1..Len(removed) |-> fr[i]]
      BY <1>1, <2>1
    <3>2. ToSet(fr) = {R(h) : h \in ToSet(removed)}
      BY DEF ToSet
    <3> HIDE DEF fr, R
    <3> QED BY <1>1, <2>1, <3>1, <3>2, MappedSeq
  <2>3. IsSeq(fg) /\ ToSet(fg) = {G(h) : h \in ToSet(changed)}
    <3>1. DOMAIN fg = 1..Len(changed) /\ fg = [i \in 1..Len(changed) |-> fg[i]]
      BY <1>1, <2>1
    <3>2. ToSet(fg) = {G(h) : h \in ToSet(changed)}
      BY DEF ToSet
    <3> HIDE DEF fg, G
    <3> QED BY <1>1, <2>1, <3>1, <3>2, MappedSeq
  <2>4. IsSeq(fa) /\ ToSet(fa) = {A(h) : h \in ToSet(added)}
    <3>1. DOMAIN fa = 1..Len(added) /\ fa = [i \in 1..Len(added) |-> fa[i]]
      BY <1>1, <2>1
    <3>2. ToSet(fa) = {A(h) : h \in ToSet(added)}
      BY DEF ToSet
    <3> HIDE DEF fa, A
    <3> QED BY <1>1, <2>1, <3>1, <3>2, MappedSeq
  <2> HIDE DEF fr, fg, fa, R, G, A, K
  <2> QED BY <1>1, <2>2, <2>3, <2>4
<1> HIDE DEF fr, fg, fa
<1> DEFINE C == ToSet(HeaderActions(o, e))
<1>4. IsSeq(HeaderActions(o, e)) /\ C = (ToSet(fr) \cup ToSet(fg)) \cup ToSet(fa)
  <2>1. IsSeq(fr \o fg) /\ ToSet(fr \o fg) = ToSet(fr) \cup ToSet(fg)
    BY <1>3, JoinedSeq, JoinedSet
  <2> DEFINE u == fr \o fg
  <2> HIDE DEF u
  <2>2. IsSeq(u \o fa) /\ ToSet(u \o fa) = ToSet(u) \cup ToSet(fa)
    BY <1>3, <2>1, JoinedSeq, JoinedSet DEF u
  <2> QED BY <1>2, <2>1, <2>2 DEF u
<1> HIDE DEF C
<1>5. ASSUME NEW c \in C
      PROVE  \/ \E h \in Lacking(old, new) : c = R(h)
             \/ \E h \in K : c = G(h)
             \/ \E h \in Lacking(new, old) : c = A(h)
  BY <1>3, <1>4
<1>6. /\ \A h \in Lacking(old, new) : R(h) \in C
      /\ \A h \in K : G(h) \in C
      /\ \A h \in Lacking(new, old) : A(h) \in C
  BY <1>3, <1>4
<1>7. \A h : /\ R(h).op = "remove_header" /\ R(h).name = h[1]
             /\ G(h).op = "set_header" /\ G(h).name = h[1] /\ G(h).value = V(new, h[1])[1]
             /\ A(h).op = "set_header" /\ A(h).name = h[1] /\ A(h).value = h[2]
  OBVIOUS
<1> HIDE DEF R, G, A
<1>8. /\ \A n : V(new, n) = None \/ \E h \in ToSet(new) : h[1] = n /\ V(new, n) = Some(h[2])
      /\ \A n : V(old, n) = None \/ \E h \in ToSet(old) : h[1] = n /\ V(old, n) = Some(h[2])
  BY NamesHaveValues DEF V, old, new
<1>9. \A x, y : Some(x) # None /\ Some(x)[1] = x /\ (Some(x) = Some(y) => x = y)
  BY DEF Some, None
<1>10. \A c \in C : c.op \in HeaderOps
  BY <1>5, <1>7 DEF HeaderOps
<1>11. \A h \in Lacking(new, old) : V(new, h[1]) = Some(h[2])
  BY OwnValue DEF Lacking, V, new
<1>12. \A c \in C : c.op = "set_header" => V(new, c.name) = Some(c.value)
  <2> SUFFICES ASSUME NEW c \in C, c.op = "set_header" PROVE V(new, c.name) = Some(c.value)
    OBVIOUS
  <2>1. CASE \E h \in K : c = G(h)
    <3>1. PICK h \in K : c = G(h)
      BY <2>1
    <3>2. V(new, h[1]) # None
      OBVIOUS
    <3> HIDE DEF K
    <3>3. PICK g \in ToSet(new) : V(new, h[1]) = Some(g[2])
      BY <1>8, <3>2
    <3>4. c.name = h[1] /\ c.value = V(new, h[1])[1]
      BY <1>7, <3>1
    <3> QED BY <1>9, <3>3, <3>4
  <2>2. CASE \E h \in Lacking(new, old) : c = A(h)
    BY <1>7, <1>11, <2>2
  <2> QED BY <1>5, <1>7, <2>1, <2>2
<1>13. \A c \in C : c.op = "remove_header" => V(new, c.name) = None
  <2>1. \A h \in Lacking(old, new) : V(new, h[1]) = None
    BY DEF Lacking, V
  <2> QED BY <1>5, <1>7, <2>1
<1>14. ASSUME NEW n, NEW v, V(new, n) = Some(v), V(old, n) # Some(v)
       PROVE  \E c \in C : c.op = "set_header" /\ c.name = n
  <2>1. CASE V(old, n) = None
    <3>1. PICK h \in ToSet(new) : h[1] = n
      BY <1>8, <1>9, <1>14
    <3>2. h \in Lacking(new, old)
      BY <2>1, <3>1 DEF Lacking, V
    <3> QED BY <1>6, <1>7, <3>1, <3>2
  <2>2. CASE V(old, n) # None
    <3>1. PICK h \in ToSet(old) : h[1] = n /\ V(old, n) = Some(h[2])
      BY <1>8, <2>2
    <3>2. h \in K
      BY <1>9, <1>14, <3>1
    <3> HIDE DEF K
    <3> QED BY <1>6, <1>7, <3>1, <3>2
  <2> QED BY <2>1, <2>2
<1>15. ASSUME NEW n, V(old, n) # None, V(new, n) = None
       PROVE  \E c \in C : c.op = "remove_header" /\ c.name = n
  <2>1. PICK h \in ToSet(old) : h[1] = n
    BY <1>8, <1>15
  <2>2. h \in Lacking(old, new)
    BY <1>15, <2>1 DEF Lacking, V
  <2> QED BY <1>6, <1>7, <2>1, <2>2
<1>16. TellsHeaders(C, old, new)
  BY <1>12, <1>13, <1>14, <1>15 DEF TellsHeaders, V
<1> QED BY <1>4, <1>10, <1>16 DEF C, old, new

LEMMA OneSeq == \A x : IsSeq(<<x>>) /\ ToSet(<<x>>) = {x}
<1> SUFFICES ASSUME NEW x PROVE IsSeq(<<x>>) /\ ToSet(<<x>>) = {x}
  OBVIOUS
<1> DEFINE s == <<x>>
<1>1. s \in Seq({x}) /\ DOMAIN s = {1} /\ s[1] = x
  OBVIOUS
<1> HIDE DEF s
<1>2. IsSeq(s)
  BY <1>1, OwnElements
<1>3. ToSet(s) = {x}
  BY <1>1 DEF ToSet
<1> QED BY <1>2, <1>3 DEF s

\* A request that has no host any more.
LosesHost(o, e) ==
    /\ o.kind = "request"
    /\ HeaderValue(o.headers, "host") # None /\ HeaderValue(e.headers, "host") = None

SetsBody(c, o, e) == c.text = e.body.text /\ BodyText(e) # None /\ BodyText(o) # BodyText(e)

\* What the calls of a generated filter are for.
Describes(C, o, e) ==
    /\ TellsHeaders(C, o.headers, e.headers) /\ Callable(C, o.kind)
    /\ \A c \in C : c.op = "set_status" => c.status = e.status[1]
    /\ o.kind = "response" /\ o.status # e.status => \E c \in C : c.op = "set_status"
    /\ DropsIn(C) <=> LosesHost(o, e)
    /\ \A c \in C : c.op = "set_body_text" => SetsBody(c, o, e)

\* They say the same when those for the body are replaced.
LEMMA DescribesKept ==
    ASSUME NEW C, NEW D, NEW o, NEW e, Describes(C, o, e),
           \A c \in D : c \in C \/ c.op \in RewriteOps,
           \A c \in C : c \in D \/ c.op \in RewriteOps \cup {"set_body_text"}
    PROVE  Describes(D, o, e)
<1>0. RewriteOps = {"replace", "rewrite"}
  BY DEF RewriteOps
<1>1. \A c : c.op \notin RewriteOps \cup {"set_body_text"} => (c \in C <=> c \in D)
  OBVIOUS
<1>2. TellsHeaders(D, o.headers, e.headers)
  <2>1. \A c : c.op \in HeaderOps => (c \in C <=> c \in D)
    BY <1>0, <1>1 DEF HeaderOps
  <2>2. TellsHeaders(C, o.headers, e.headers)
    BY DEF Describes
  <2>3. \A c \in D : c.op = "set_header" => HeaderValue(e.headers, c.name) = Some(c.value)
    BY <2>1, <2>2 DEF TellsHeaders, HeaderOps
  <2>4. \A c \in D : c.op = "remove_header" => HeaderValue(e.headers, c.name) = None
    BY <2>1, <2>2 DEF TellsHeaders, HeaderOps
  <2>5. ASSUME NEW n, NEW v, HeaderValue(e.headers, n) = Some(v), HeaderValue(o.headers, n) # Some(v)
        PROVE  \E c \in D : c.op = "set_header" /\ c.name = n
    <3>1. PICK c \in C : c.op = "set_header" /\ c.name = n
      BY <2>2, <2>5 DEF TellsHeaders
    <3> QED BY <2>1, <3>1 DEF HeaderOps
  <2>6. ASSUME NEW n, HeaderValue(o.headers, n) # None, HeaderValue(e.headers, n) = None
        PROVE  \E c \in D : c.op = "remove_header" /\ c.name = n
    <3>1. PICK c \in C : c.op = "remove_header" /\ c.name = n
      BY <2>2, <2>6 DEF TellsHeaders
    <3> QED BY <2>1, <3>1 DEF HeaderOps
  <2> QED BY <2>3, <2>4, <2>5, <2>6 DEF TellsHeaders
<1>3. Callable(D, o.kind)
  BY <1>0 DEF Describes, Callable, GeneratedOps
<1>4. DropsIn(D) <=> DropsIn(C)
  BY <1>0, <1>1 DEF DropsIn
<1>5. /\ \A c \in D : c.op = "set_status" => c.status = e.status[1]
      /\ \A c \in D : c.op = "set_body_text" => SetsBody(c, o, e)
  BY <1>0 DEF Describes
<1>6. o.kind = "response" /\ o.status # e.status => \E c \in D : c.op = "set_status"
  BY <1>0, <1>1 DEF Describes
<1>7. DropsIn(C) <=> LosesHost(o, e)
  BY DEF Describes
<1> QED BY <1>2, <1>3, <1>4, <1>5, <1>6, <1>7 DEF Describes

Drafted(o, e) ==
    WithHeaders(IF o.kind = "request" THEN RequestDraft(o, e) ELSE ResponseDraft(o, e), o, e)

\* A draft for a message.
DraftOf(d, o) ==
    d = [phase |-> o.kind, line |-> o.line, note |-> "", when |-> d.when, calls |-> d.calls]

LEMMA DraftChanged ==
    ASSUME NEW d, NEW o, DraftOf(d, o), NEW w, NEW f, f = [d EXCEPT !.calls = w]
    PROVE  d.phase = o.kind /\ d.line = o.line /\ DraftOf(f, o) /\ f.when = d.when /\ f.calls = w
<1> DEFINE when == d.when
           calls == d.calls
<1>1. d = [phase |-> o.kind, line |-> o.line, note |-> "", when |-> when, calls |-> calls]
  BY DEF DraftOf
<1> HIDE DEF when, calls
<1>2. d.phase = o.kind /\ d.line = o.line
  BY <1>1
<1>3. f = [phase |-> o.kind, line |-> o.line, note |-> "", when |-> when, calls |-> w]
  BY <1>1
<1>4. f.when = when /\ f.calls = w
  BY ONLY <1>3
<1>5. DraftOf(f, o)
  BY <1>3, <1>4 DEF DraftOf
<1> QED BY <1>2, <1>4, <1>5 DEF when

\* What a draft calls before it calls for the headers.
LEMMA LeadFacts ==
    ASSUME NEW o, NEW e, o.kind \in Sides,
           NEW d, d = (IF o.kind = "request" THEN RequestDraft(o, e) ELSE ResponseDraft(o, e))
    PROVE  /\ DraftOf(d, o)
           /\ IsSeq(d.calls)
           /\ \A c \in ToSet(d.calls) :
                \/ c.op = "mark"
                \/ c.op = "set_status" /\ c.status = e.status[1] /\ o.kind = "response"
                \/ c.op = "set_body_text" /\ SetsBody(c, o, e)
           /\ o.kind = "response" /\ o.status # e.status => \E c \in ToSet(d.calls) : c.op = "set_status"
<1> DEFINE mark == [op |-> "mark", label |-> "generated"]
           one == <<mark>>
           status == [op |-> "set_status", status |-> e.status[1]]
           st == IF o.status = e.status THEN <<>> ELSE <<status>>
           ctype == IF e.body.ctype # None THEN e.body.ctype ELSE o.body.ctype
           text(ct) == [op |-> "set_body_text", text |-> e.body.text, ctype |-> Some(ct)]
           ctype2 == IF ctype = None THEN PlainText ELSE ctype[1]
<1>1. IsSeq(one) /\ ToSet(one) = {mark} /\ mark.op = "mark"
  BY OneSeq
<1>2. /\ IsSeq(st) /\ \A c \in ToSet(st) : c.op = "set_status" /\ c.status = e.status[1]
      /\ o.status # e.status => \E c \in ToSet(st) : c.op = "set_status"
  <2>1. status.op = "set_status" /\ status.status = e.status[1]
    OBVIOUS
  <2> HIDE DEF status
  <2> QED BY <2>1, OneSeq, EmptyIsSeq
<1>3. ASSUME NEW ct
      PROVE  /\ IsSeq(SetBody(o, e, ct))
             /\ \A c \in ToSet(SetBody(o, e, ct)) : c.op = "set_body_text" /\ SetsBody(c, o, e)
  <2>1. text(ct).op = "set_body_text" /\ text(ct).text = e.body.text
    OBVIOUS
  <2>2. SetBody(o, e, ct) = IF BodyText(e) = None \/ BodyText(o) = BodyText(e) THEN <<>> ELSE <<text(ct)>>
    BY DEF SetBody
  <2> HIDE DEF text
  <2>3. CASE BodyText(e) = None \/ BodyText(o) = BodyText(e)
    BY <2>2, <2>3, EmptyIsSeq
  <2>4. CASE ~(BodyText(e) = None \/ BodyText(o) = BodyText(e))
    BY <2>1, <2>2, <2>4, OneSeq DEF SetsBody
  <2> QED BY <2>3, <2>4
<1>4. CASE o.kind = "request"
  <2> DEFINE sb == SetBody(o, e, PlainText)
  <2>1. DraftOf(d, o) /\ d.calls = one \o sb
    BY <1>4 DEF RequestDraft, DraftOf
  <2>2. IsSeq(sb) /\ \A c \in ToSet(sb) : c.op = "set_body_text" /\ SetsBody(c, o, e)
    BY <1>3
  <2> HIDE DEF one, mark, sb
  <2>3. IsSeq(d.calls) /\ ToSet(d.calls) = ToSet(one) \cup ToSet(sb)
    <3>1. IsSeq(one \o sb) /\ ToSet(one \o sb) = ToSet(one) \cup ToSet(sb)
      BY <1>1, <2>2, JoinedSeq, JoinedSet
    <3> QED BY <2>1, <3>1
  <2>4. \A c \in ToSet(d.calls) : c.op = "mark" \/ (c.op = "set_body_text" /\ SetsBody(c, o, e))
    BY <1>1, <2>2, <2>3
  <2> QED BY <1>4, <2>1, <2>3, <2>4
<1>5. CASE o.kind = "response"
  <2> DEFINE sb == SetBody(o, e, ctype2)
             u == one \o st
  <2>1. DraftOf(d, o) /\ d.calls = u \o sb
    BY <1>5 DEF ResponseDraft, DraftOf
  <2>2. IsSeq(sb) /\ \A c \in ToSet(sb) : c.op = "set_body_text" /\ SetsBody(c, o, e)
    BY <1>3
  <2> HIDE DEF one, mark, st, sb
  <2>3. IsSeq(u) /\ ToSet(u) = ToSet(one) \cup ToSet(st)
    BY <1>1, <1>2, JoinedSeq, JoinedSet
  <2> HIDE DEF u
  <2>4. IsSeq(d.calls) /\ ToSet(d.calls) = ToSet(u) \cup ToSet(sb)
    BY <2>1, <2>2, <2>3, JoinedSeq, JoinedSet
  <2>5. \A c \in ToSet(d.calls) :
                \/ c.op = "mark"
                \/ c.op = "set_status" /\ c.status = e.status[1]
                \/ c.op = "set_body_text" /\ SetsBody(c, o, e)
    BY <1>1, <1>2, <2>2, <2>3, <2>4
  <2>6. o.status # e.status => \E c \in ToSet(d.calls) : c.op = "set_status"
    BY <1>2, <2>3, <2>4
  <2> QED BY <1>5, <2>1, <2>4, <2>5, <2>6
<1> QED BY <1>4, <1>5 DEF Sides

\* A draft with its header actions describes the change, and rewrites nothing.
LEMMA DraftDescribes ==
    ASSUME NEW o, NEW e, o.kind \in Sides,
           IsSeq(o.headers), IsSeq(e.headers), NamesDiffer(e.headers), NEW d, d = Drafted(o, e)
    PROVE  /\ DraftOf(d, o)
           /\ d.when = (IF o.kind = "request" THEN RequestDraft(o, e) ELSE ResponseDraft(o, e)).when
           /\ IsSeq(d.calls) /\ Describes(ToSet(d.calls), o, e)
           /\ \A c \in ToSet(d.calls) : c.op \notin RewriteOps \cup {"synthetic_response"}
<1> DEFINE b == IF o.kind = "request" THEN RequestDraft(o, e) ELSE ResponseDraft(o, e)
           ha == HeaderActions(o, e)
           gone == [op |-> "drop"]
           dr == IF LosesHost(o, e) THEN <<gone>> ELSE <<>>
           lead == b.calls
           u == lead \o ha
<1>1. /\ DraftOf(b, o) /\ IsSeq(lead)
      /\ \A c \in ToSet(lead) :
           \/ c.op = "mark"
           \/ c.op = "set_status" /\ c.status = e.status[1] /\ o.kind = "response"
           \/ c.op = "set_body_text" /\ SetsBody(c, o, e)
      /\ o.kind = "response" /\ o.status # e.status => \E c \in ToSet(lead) : c.op = "set_status"
  <2>1. b = IF o.kind = "request" THEN RequestDraft(o, e) ELSE ResponseDraft(o, e)
    OBVIOUS
  <2> HIDE DEF b
  <2> QED BY <2>1, LeadFacts
<1>2. d = [b EXCEPT !.calls = u \o dr]
  <2>1. d = WithHeaders(b, o, e)
    BY DEF Drafted
  <2> HIDE DEF b, ha
  <2>2. b.phase = o.kind
    BY <1>1, DraftChanged
  <2> QED BY <2>1, <2>2 DEF WithHeaders, LosesHost, ha
<1>3. /\ IsSeq(ha) /\ \A c \in ToSet(ha) : c.op \in HeaderOps
      /\ TellsHeaders(ToSet(ha), o.headers, e.headers)
  BY HeaderActionsTell
<1>4. IsSeq(dr) /\ (\A c \in ToSet(dr) : c.op = "drop") /\ (LosesHost(o, e) <=> \E c \in ToSet(dr) : c.op = "drop")
  <2>1. gone.op = "drop"
    OBVIOUS
  <2> HIDE DEF gone
  <2> QED BY <2>1, OneSeq, EmptyIsSeq
<1> HIDE DEF b, lead, ha, dr
<1>5. DraftOf(d, o) /\ d.when = b.when /\ d.calls = u \o dr
  <2> DEFINE w == u \o dr
  <2>1. d = [b EXCEPT !.calls = w]
    BY <1>2
  <2> HIDE DEF w
  <2>2. d.when = b.when /\ d.calls = w /\ DraftOf(d, o)
    BY <1>1, <2>1, DraftChanged
  <2> QED BY <2>2 DEF w
<1>6. IsSeq(u) /\ ToSet(u) = ToSet(lead) \cup ToSet(ha)
  BY <1>1, <1>3, JoinedSeq, JoinedSet
<1> HIDE DEF u
<1> DEFINE C == ToSet(d.calls)
<1>7. IsSeq(d.calls) /\ C = (ToSet(lead) \cup ToSet(ha)) \cup ToSet(dr)
  <2>1. IsSeq(u \o dr) /\ ToSet(u \o dr) = ToSet(u) \cup ToSet(dr)
    BY <1>4, <1>6, JoinedSeq, JoinedSet
  <2> QED BY <1>5, <1>6, <2>1
<1> HIDE DEF C
<1>8. \A c \in ToSet(ha) : c.op \in {"set_header", "remove_header"}
  BY <1>3 DEF HeaderOps
<1>9. \A c \in C : c.op \in {"mark", "set_status", "set_body_text", "set_header", "remove_header", "drop"}
  BY <1>1, <1>4, <1>7, <1>8
<1>10. \A c \in C : c.op \in HeaderOps => c \in ToSet(ha)
  BY <1>1, <1>4, <1>7 DEF HeaderOps
<1>11. TellsHeaders(C, o.headers, e.headers)
  <2>1. \A c \in C : c.op = "set_header" => HeaderValue(e.headers, c.name) = Some(c.value)
    BY <1>3, <1>10 DEF TellsHeaders, HeaderOps
  <2>2. \A c \in C : c.op = "remove_header" => HeaderValue(e.headers, c.name) = None
    BY <1>3, <1>10 DEF TellsHeaders, HeaderOps
  <2>3. ASSUME NEW n, NEW v, HeaderValue(e.headers, n) = Some(v), HeaderValue(o.headers, n) # Some(v)
        PROVE  \E c \in C : c.op = "set_header" /\ c.name = n
    <3>1. PICK c \in ToSet(ha) : c.op = "set_header" /\ c.name = n
      BY <1>3, <2>3 DEF TellsHeaders
    <3> QED BY <1>7, <3>1
  <2>4. ASSUME NEW n, HeaderValue(o.headers, n) # None, HeaderValue(e.headers, n) = None
        PROVE  \E c \in C : c.op = "remove_header" /\ c.name = n
    <3>1. PICK c \in ToSet(ha) : c.op = "remove_header" /\ c.name = n
      BY <1>3, <2>4 DEF TellsHeaders
    <3> QED BY <1>7, <3>1
  <2> QED BY <2>1, <2>2, <2>3, <2>4 DEF TellsHeaders
<1>12. \A c \in C : /\ c.op = "set_status" => c.status = e.status[1] /\ o.kind = "response"
                    /\ c.op = "set_body_text" => SetsBody(c, o, e)
  BY <1>1, <1>4, <1>7, <1>8
<1>13. Callable(C, o.kind)
  BY <1>9, <1>12 DEF Callable, GeneratedOps, HeaderOps
<1>14. DropsIn(C) <=> LosesHost(o, e)
  BY <1>1, <1>4, <1>7, <1>8 DEF DropsIn
<1>15. o.kind = "response" /\ o.status # e.status => \E c \in C : c.op = "set_status"
  BY <1>1, <1>7
<1>16. Describes(C, o, e)
  BY <1>11, <1>12, <1>13, <1>14, <1>15 DEF Describes
<1>17. \A c \in C : c.op \notin RewriteOps \cup {"synthetic_response"}
  BY <1>9 DEF RewriteOps
<1> QED BY <1>5, <1>7, <1>16, <1>17 DEF C, b

\* What a generated filter rewrites the body with makes a difference where it applies.
GoodRewrite(call, o) ==
    call.op = "rewrite" \/ (GoodReplacement(call, o.body.text) /\ o.body.kind = "text")

LEMMA BodyActionFacts ==
    ASSUME NEW d, d = [phase |-> d.phase, line |-> d.line, note |-> d.note, when |-> d.when, calls |-> d.calls],
           NEW o, NEW e, IsSeq(o.body.text), BodyText(e) # None => IsSeq(e.body.text),
           NEW f, f = WithBody(d, o, e)
    PROVE  /\ f.phase = d.phase /\ f.line = d.line /\ f.when = d.when
           /\ \/ f.calls = d.calls
              \/ \E call : GoodRewrite(call, o) /\ f.calls = ReplaceBodyAction(d.calls, call)
<1> DEFINE ops == JsonPatchOperations(SemanticDiff(o, e))
           ctype == IF o.body.ctype # None THEN o.body.ctype ELSE e.body.ctype
           intent == BodyActionFromIntent(o.body.text, e.body.text, ctype)
           json == IF e.body.ctype = None THEN JsonText ELSE e.body.ctype[1]
           patch == JsonPatchCall(ops, json)
<1>1. f = WithBodyAction(d, o, e, ops, intent)
  BY DEF WithBody
<1>2. patch.op = "rewrite"
  BY DEF JsonPatchCall, Rewriting
<1>3. intent # None => \E v : intent = Some(v)
  BY DEF BodyActionFromIntent
<1> HIDE DEF ops, json
<1>4. CASE ops # <<>> /\ BodyText(e) # None
  <2>1. \E note : f = [d EXCEPT !.calls = ReplaceBodyAction(@, patch), !.note = note]
    BY <1>1, <1>4 DEF WithBodyAction, json
  <2>2. f.phase = d.phase /\ f.line = d.line /\ f.when = d.when /\ f.calls = ReplaceBodyAction(d.calls, patch)
    <3> HIDE DEF patch
    <3> QED BY <2>1
  <2> QED BY <1>2, <2>2 DEF GoodRewrite
<1>5. CASE ops = <<>> /\ BodyText(o) # None /\ BodyText(e) # None /\ intent # None
  <2>1. f = [d EXCEPT !.calls = ReplaceBodyAction(@, intent[1])]
    <3> HIDE DEF intent
    <3> QED BY <1>1, <1>5 DEF WithBodyAction
  <2>2. intent = Some(intent[1])
    <3>1. PICK v : intent = Some(v)
      BY <1>3, <1>5
    <3> HIDE DEF intent
    <3> QED BY <3>1 DEF Some
  <2>3. GoodReplacement(intent[1], o.body.text)
    <3> HIDE DEF ctype
    <3> QED BY <1>5, <2>2, IntentIsGood
  <2>4. o.body.kind = "text"
    BY <1>5 DEF BodyText
  <2> HIDE DEF intent
  <2>5. f.phase = d.phase /\ f.line = d.line /\ f.when = d.when /\ f.calls = ReplaceBodyAction(d.calls, intent[1])
    BY <2>1
  <2> QED BY <2>3, <2>4, <2>5 DEF GoodRewrite
<1>6. CASE ~(ops # <<>> /\ BodyText(e) # None)
           /\ ~(ops = <<>> /\ BodyText(o) # None /\ BodyText(e) # None /\ intent # None)
  <2> HIDE DEF intent
  <2> QED BY <1>1, <1>6 DEF WithBodyAction
<1> QED BY <1>4, <1>5, <1>6

LEMMA DraftFields ==
    ASSUME NEW d, NEW o, DraftOf(d, o)
    PROVE  /\ d.phase = o.kind /\ d.line = o.line
           /\ d = [phase |-> d.phase, line |-> d.line, note |-> d.note, when |-> d.when, calls |-> d.calls]
<1> DEFINE when == d.when
           calls == d.calls
<1>1. d = [phase |-> o.kind, line |-> o.line, note |-> "", when |-> when, calls |-> calls]
  BY DEF DraftOf
<1> HIDE DEF when, calls
<1>2. d.phase = o.kind /\ d.line = o.line /\ d.note = "" /\ d.when = when /\ d.calls = calls
  BY ONLY <1>1
<1> QED BY <1>1, <1>2

\* What the script of a generated filter comes to: it describes the change, and rewrites
\* the body at most once, unless it sets it.
LEMMA ScriptFacts ==
    ASSUME NEW o, NEW e, o.kind \in Sides,
           IsSeq(o.headers), IsSeq(e.headers), NamesDiffer(e.headers),
           IsSeq(o.body.text), BodyText(e) # None => IsSeq(e.body.text),
           NEW f, f = WithBody(Drafted(o, e), o, e),
           NEW data, data = Calls(f.phase, ToRotoSource(f))
    PROVE  /\ f.phase = o.kind /\ f.line = o.line /\ f.when = Drafted(o, e).when
           /\ \E C : DataOf(data, C) /\ Describes(C, o, e)
           /\ \/ data.rewrites = <<>>
              \/ data.body = None /\ \E call : GoodRewrite(call, o) /\ data.rewrites = <<call>>
<1> DEFINE d == Drafted(o, e)
           B == ToSet(d.calls)
           banned == IF o.kind = "request" THEN "set_status" ELSE "synthetic_response"
           Kept(s) == {c \in ToSet(s) : c.op # banned}
           script == ToRotoSource(f)
<1>1. DraftOf(d, o) /\ IsSeq(d.calls) /\ Describes(B, o, e) /\ \A c \in B : c.op \notin RewriteOps \cup {"synthetic_response"}
  BY DraftDescribes
<1> HIDE DEF d
<1>2. d.phase = o.kind /\ d.line = o.line
  BY <1>1, DraftFields
<1>3. /\ f.phase = o.kind /\ f.line = o.line /\ f.when = d.when
      /\ \/ f.calls = d.calls
         \/ \E call : GoodRewrite(call, o) /\ f.calls = ReplaceBodyAction(d.calls, call)
  <2>1. f = WithBody(d, o, e)
    BY DEF d
  <2>2. d = [phase |-> d.phase, line |-> d.line, note |-> d.note, when |-> d.when, calls |-> d.calls]
    BY <1>1, DraftFields
  <2> QED BY <1>2, <2>1, <2>2, BodyActionFacts
<1> HIDE DEF B
<1>4. \A c \in B : c.op # banned
  BY <1>1 DEF Describes, Callable, Sides
<1>5. banned \notin RewriteOps
  BY DEF RewriteOps
<1>6. script = Those(f.calls, Kept(f.calls))
  BY <1>3 DEF ToRotoSource, WriteRequestRoto, WriteResponseRoto, Sides
<1> HIDE DEF banned, script
<1>7. data = Calls(o.kind, script)
  BY <1>3 DEF script
<1>8. ASSUME NEW C, IsSeq(script), ToSet(script) = C, Describes(C, o, e)
      PROVE  DataOf(data, C)
  BY <1>7, <1>8, CallsComeTo DEF Describes
<1>9. CASE f.calls = d.calls
  <2>1. IsSeq(script) /\ ToSet(script) = B
    <3>1. Kept(d.calls) = B /\ B \cap B = B
      BY <1>4 DEF B
    <3>2. script = Those(d.calls, B)
      BY <1>6, <1>9, <3>1
    <3> QED BY <1>1, <3>1, <3>2, ThoseFacts DEF B
  <2>2. DataOf(data, B)
    BY <1>1, <1>8, <2>1
  <2>3. RewritesIn(B) = {}
    BY <1>1 DEF RewritesIn
  <2>4. data.rewrites = <<>>
    BY <2>2, <2>3, NothingIn DEF DataOf
  <2> QED BY <1>1, <1>3, <2>2, <2>4 DEF d
<1>10. CASE \E call : GoodRewrite(call, o) /\ f.calls = ReplaceBodyAction(d.calls, call)
  <2>1. PICK call : GoodRewrite(call, o) /\ f.calls = ReplaceBodyAction(d.calls, call)
    BY <1>10
  <2>2. call.op \in RewriteOps
    BY <2>1 DEF GoodRewrite, GoodReplacement, RewriteOps
  <2> DEFINE N == {c \in B : c.op \notin RewriteOps \cup {"set_body_text"}}
             P == Those(d.calls, N)
             Q == Those(P, Kept(f.calls))
  <2>3. IsSeq(P) /\ ToSet(P) = N
    <3>1. B \cap N = N
      OBVIOUS
    <3> HIDE DEF N
    <3> QED BY <1>1, <3>1, ThoseFacts DEF B
  <2>4. f.calls = Append(P, call)
    BY <2>1 DEF ReplaceBodyAction, B
  <2> HIDE DEF P
  <2>5. ToSet(f.calls) = N \cup {call}
    BY <2>3, <2>4, AppendedSet
  <2>6. Kept(f.calls) = N \cup {call}
    BY <1>4, <1>5, <2>2, <2>5
  <2> HIDE DEF Kept
  <2>7. IsSeq(Q) /\ ToSet(Q) = N
    <3>1. N \cap (N \cup {call}) = N
      OBVIOUS
    <3> HIDE DEF N
    <3> QED BY <2>3, <2>6, <3>1, ThoseFacts
  <2>8. script = Append(Q, call)
    <3>1. Those(Append(P, call), Kept(f.calls)) = Picked(Kept(f.calls), Those(P, Kept(f.calls)), call)
      BY <2>3, ThoseOfMore
    <3>2. call \in Kept(f.calls)
      BY <2>6
    <3> QED BY <1>6, <2>4, <3>1, <3>2 DEF Picked
  <2> HIDE DEF Q
  <2> DEFINE C == N \cup {call}
  <2>9. IsSeq(script) /\ ToSet(script) = C
    BY <2>7, <2>8, AppendedSeq, AppendedSet
  <2>10. Describes(C, o, e)
    <3>1. \A c \in C : c \in B \/ c.op \in RewriteOps
      BY <2>2
    <3>2. \A c \in B : c \in C \/ c.op \in RewriteOps \cup {"set_body_text"}
      OBVIOUS
    <3> HIDE DEF C
    <3> QED BY <1>1, <3>1, <3>2, DescribesKept
  <2>11. DataOf(data, C)
    BY <1>8, <2>9, <2>10
  <2>12. data.body = None
    <3>1. \A c \in C : c.op # "set_body_text"
      BY <2>2 DEF RewriteOps
    <3> HIDE DEF C
    <3> QED BY <2>11, <3>1 DEF DataOf, BodyBy
  <2> DEFINE before == Calls(o.kind, Q)
  <2>13. DataOf(before, N)
    <3>1. Callable(N, o.kind)
      BY <1>1 DEF Describes, Callable
    <3> HIDE DEF N
    <3> QED BY <2>7, <3>1, CallsComeTo
  <2>14. before.rewrites = <<>>
    <3>1. RewritesIn(N) = {}
      BY DEF RewritesIn
    <3> HIDE DEF N, before
    <3> QED BY <2>13, <3>1, NothingIn DEF DataOf
  <2>15. data = RewriteCall(before, call)
    <3>1. data = Called(o.kind, before, call)
      BY <1>7, <2>7, <2>8, CallsOfMore
    <3> HIDE DEF before
    <3>2. call.op \notin {"synthetic_response", "set_status", "post"}
      BY <2>2 DEF RewriteOps
    <3>3. CASE o.kind = "request"
      <4>1. data = RequestCall(before, call)
        BY <3>1, <3>3 DEF Called
      <4> QED BY <2>2, <3>2, <4>1 DEF RequestCall
    <3>4. CASE o.kind = "response"
      <4>1. data = ResponseCall(before, call)
        BY <3>1, <3>4 DEF Called
      <4> QED BY <2>2, <3>2, <4>1 DEF ResponseCall
    <3> QED BY <3>3, <3>4 DEF Sides
  <2>16. data.rewrites = <<call>>
    <3>1. DOMAIN before = DOMAIN NoCalls
      BY <2>13 DEF DataOf
    <3>2. "rewrites" \in DOMAIN before
      BY <3>1 DEF NoCalls
    <3> HIDE DEF before
    <3>3. data.rewrites = Append(before.rewrites, call)
      BY <2>15, <3>2 DEF RewriteCall
    <3> QED BY <2>14, <3>3
  <2> HIDE DEF C
  <2> QED BY <1>3, <2>1, <2>10, <2>11, <2>12, <2>16 DEF d
<1> QED BY <1>3, <1>9, <1>10

-----------------------------------------------------------------------------
(* A generated filter applies to the message it was made from. *)

\* What is known of a filter that was saved.
LEMMA SavedFacts ==
    ASSUME NEW s, SavedOK(s)
    PROVE  LET o == s.original
               e == s.edited
               m == s.flow[o.kind]
           IN /\ s.flow \in Flows /\ o.kind \in Sides /\ o = Editable(s.flow, o.kind)
              /\ e.kind = o.kind /\ IsSeq(e.headers) /\ EditedBody(o.body, e.body)
              /\ BodyText(e) # None => IsSeq(e.body.text)
              /\ s.filter = WithBody(Drafted(o, e), o, e)
              /\ o.kind = "response" => o.status # None /\ e.status # None
<1> DEFINE o == s.original
           e == s.edited
<1>1. PICK side \in Sides : s.flow \in Flows /\ o = Editable(s.flow, side)
  BY DEF SavedOK
<1>2. o.kind = side
  BY <1>1 DEF Editable
<1>3. /\ IsSeq(e.headers) /\ EditedBody(o.body, e.body) /\ GenerateFilter(o, e) = Some(s.filter)
  BY TextIsSeq DEF SavedOK
<1>4. BodyText(e) # None => IsSeq(e.body.text)
  <2> SUFFICES ASSUME e.body.kind = "text" PROVE IsSeq(e.body.text)
    BY DEF BodyText
  <2> QED BY <1>3, TextIsSeq DEF EditedBody
<1> HIDE DEF o, e
<1>5. /\ e.kind = o.kind /\ (o.kind = "response" => o.status # None /\ e.status # None)
      /\ s.filter = IF o.kind = "request" THEN RequestFilter(o, e) ELSE ResponseFilter(o, e)
  <2>1. \A x, y : Some(x) # None /\ (Some(x) = Some(y) => x = y)
    BY DEF Some, None
  <2> QED BY <1>3, <2>1 DEF GenerateFilter
<1>6. s.filter = WithBody(Drafted(o, e), o, e)
  BY <1>5 DEF RequestFilter, ResponseFilter, Drafted
<1> QED BY <1>1, <1>2, <1>3, <1>4, <1>5, <1>6 DEF o, e

LEMMA TriggerFits ==
    ASSUME NEW path, IsSeq(path)
    PROVE  IsPrefix(PathTrigger(path), path)
<1> DEFINE S == ToSet(path)
           I == {i \in 1..Len(path) : path[i] = "/"}
           k == SelectLastInSeq(path, LAMBDA c : c = "/")
<1>1. path \in Seq(S) /\ Len(path) \in Nat
  BY LenProperties DEF IsSeq
<1>2. k = IF I # {} THEN Max(I) ELSE 0
  BY DEF SelectLastInSeq
<1>3. k \in Nat
  <2>1. I \in SUBSET (1..Len(path))
    OBVIOUS
  <2> HIDE DEF I, k
  <2>2. CASE I # {}
    <3>1. Max(I) \in I
      BY <1>1, <2>1, <2>2, MaxFacts
    <3>2. k \in 1..Len(path)
      BY <1>2, <2>1, <2>2, <3>1
    <3> QED BY <1>1, <3>2
  <2> QED BY <1>2, <2>2
<1> HIDE DEF S, k
<1>4. IsPrefix(Take(path, k), path)
  BY <1>1, <1>3, TakeOccurs
<1>5. IsPrefix(<<>>, path)
  <2>1. Take(path, 0) = <<>>
    <3>1. Len(path) > 0 \/ Len(path) = 0
      BY <1>1
    <3>2. Take(path, 0) = SubSeq(path, 1, 0)
      BY <1>1, <3>1 DEF Take
    <3> QED BY <1>1, <3>2, StartFacts, EmptySeq
  <2> QED BY <1>1, <2>1, TakeOccurs
<1> QED BY <1>4, <1>5 DEF PathTrigger, k

LEMMA SavedApplies ==
    ASSUME NEW s, SavedOK(s), Comparable(s), NamesDiffer(s.edited.headers)
    PROVE  Applies(s.filter, s.flow.line, Message(s.flow[s.original.kind]))
<1> DEFINE o == s.original
           e == s.edited
           c == s.flow[o.kind]
           m == Message(c)
           f == s.filter
           w == f.when
           line == s.flow.line
<1>1. /\ s.flow \in Flows /\ o.kind \in Sides /\ o = Editable(s.flow, o.kind) /\ e.kind = o.kind
      /\ IsSeq(e.headers) /\ (BodyText(e) # None => IsSeq(e.body.text))
      /\ f = WithBody(Drafted(o, e), o, e) /\ (o.kind = "response" => o.status # None)
  BY SavedFacts
<1>2. /\ o.line = line /\ o.status = c.status /\ IsSeq(line.path) /\ IsSeq(o.headers)
      /\ CapturedOK(c)
  <2> HIDE DEF o, c, line
  <2> QED BY <1>1, EditableFacts, TextIsSeq DEF c, line
<1>3. /\ IsSeq(o.body.text) /\ o.body.ctype \in {None, ContentType(c.headers)}
  <2> HIDE DEF o
  <2> QED BY <1>1, ShownBody
<1>4. Comparable(s) = (/\ o.body.kind = "text" => FilterText(m) = Some(o.body.text)
                       /\ o.body.kind = "empty" => FilterText(m) = Some(<<>>)
                       /\ o.body.ctype = None \/ o.body.ctype[1] \notin Uppercase)
  BY DEF Comparable
<1>5. m.headers = c.headers /\ (c.status # None => m.status = c.status[1])
  BY DEF Message
<1> HIDE DEF o, e, c, m, f, line
<1>6. /\ f.phase = o.kind /\ f.line = o.line
      /\ w = (IF o.kind = "request" THEN RequestDraft(o, e) ELSE ResponseDraft(o, e)).when
  <2>1. NamesDiffer(e.headers)
    BY DEF e
  <2>2. f.phase = o.kind /\ f.line = o.line /\ w = Drafted(o, e).when
    BY <1>1, <1>2, <1>3, <2>1, ScriptFacts
  <2>3. Drafted(o, e).when = (IF o.kind = "request" THEN RequestDraft(o, e) ELSE ResponseDraft(o, e)).when
    BY <1>1, <1>2, <2>1, DraftDescribes
  <2> QED BY <2>2, <2>3
<1>7. IsPrefix(PathTrigger(f.line.path), line.path)
  BY <1>2, <1>6, TriggerFits
<1>8. /\ w.path \in {None, Some(o.line.path)} /\ w.query \in {None, Some(o.line.query)}
      /\ w.method \in {None, Some(o.line.method)} /\ w.status \in {None, o.status}
      /\ w.ctype \in {None, o.body.ctype}
      /\ w.body # None => /\ o.body.kind = "text"
                          /\ w.body = ResponseBodyRewriteAnchor(o.body.text, e.body.text)
  <2>1. CASE o.kind = "request"
    BY <1>6, <2>1 DEF RequestDraft, NoCondition
  <2>2. CASE o.kind = "response"
    BY <1>6, <2>2 DEF ResponseDraft, NoCondition, BodyText
  <2> QED BY <1>1, <2>1, <2>2 DEF Sides
<1>9. w.status \in {None, Some(m.status)}
  <2>1. o.status = None \/ o.status = Some(m.status)
    BY <1>2, <1>5 DEF CapturedOK
  <2> QED BY <1>8, <2>1
<1>10. w.ctype # None => /\ w.ctype[1] \notin Uppercase /\ ContentType(m.headers) # None
                         /\ Media[ContentType(m.headers)[1]] = Media[w.ctype[1]]
  BY <1>3, <1>4, <1>5, <1>8
<1>11. w.body # None => FilterText(m) = Some(o.body.text) /\ Occurs(w.body[1], o.body.text)
  <2> SUFFICES ASSUME w.body # None PROVE FilterText(m) = Some(o.body.text) /\ Occurs(w.body[1], o.body.text)
    OBVIOUS
  <2> DEFINE a == ResponseBodyRewriteAnchor(o.body.text, e.body.text)
  <2>1. o.body.kind = "text" /\ w.body = a
    BY <1>8
  <2>2. \E v : a = Some(v)
    <3>1. a # None
      BY <2>1
    <3> QED BY <3>1 DEF ResponseBodyRewriteAnchor, CommonTextAnchor
  <2>3. PICK v : a = Some(v)
    BY <2>2
  <2>4. Occurs(v, o.body.text)
    BY <1>3, <2>3, AnchorOccurs
  <2>5. w.body[1] = v
    <3> HIDE DEF a
    <3> QED BY <2>1, <2>3 DEF Some
  <2> QED BY <1>4, <2>1, <2>4, <2>5
<1>12. \A x : Some(x) # None /\ Some(x)[1] = x
  BY DEF Some, None
<1>13. Applies(f, line, m)
  BY <1>2, <1>6, <1>7, <1>8, <1>9, <1>10, <1>11, <1>12 DEF Applies
<1> QED BY <1>13 DEF f, line, m, c, o

-----------------------------------------------------------------------------
(* What it makes of that message. *)

RewriteStep(p, r, op) == Rewritten(r, op)

Rewriter == INSTANCE FoldTheorems WITH FoldOp <- RewriteStep, FoldKept <- IsSeq

LEMMA RewriteFold ==
    ASSUME NEW p, NEW start, NEW s
    PROVE  FoldLeft(Rewritten, start, s) = Rewriter!FoldOf(p, start, s)[DOMAIN s]
BY DEF FoldLeft, MapThenFoldSet, Max, Rewriter!FoldOf, Rewriter!IsFold,
       Rewriter!FoldTurn, Rewriter!Max, RewriteStep

LEMMA RewrittenMore ==
    ASSUME NEW p, NEW start, NEW s, NEW call, IsSeq(s)
    PROVE  FoldLeft(Rewritten, start, Append(s, call)) = Rewritten(FoldLeft(Rewritten, start, s), call)
<1>1. Rewriter!IsSeq(s)
  BY DEF IsSeq, Rewriter!IsSeq, ToSet, Rewriter!ToSet
<1>2. Rewriter!FoldOf(p, start, Append(s, call))[DOMAIN Append(s, call)]
        = RewriteStep(p, Rewriter!FoldOf(p, start, s)[DOMAIN s], call)
  BY <1>1, Rewriter!FoldAppended
<1>3. /\ FoldLeft(Rewritten, start, s) = Rewriter!FoldOf(p, start, s)[DOMAIN s]
      /\ FoldLeft(Rewritten, start, Append(s, call)) = Rewriter!FoldOf(p, start, Append(s, call))[DOMAIN Append(s, call)]
  BY RewriteFold
<1> QED BY <1>2, <1>3 DEF RewriteStep

LEMMA RewrittenOnce ==
    ASSUME NEW start, NEW call
    PROVE  FoldLeft(Rewritten, start, <<call>>) = Rewritten(start, call)
<1> DEFINE none == <<>>
<1>1. IsSeq(none) /\ DOMAIN none = {} /\ Append(none, call) = <<call>>
  BY EmptyIsSeq
<1> HIDE DEF none
<1>2. FoldLeft(Rewritten, start, none) = start
  BY <1>1, RewriteFold, Rewriter!FoldNothing
<1>3. FoldLeft(Rewritten, start, Append(none, call)) = Rewritten(FoldLeft(Rewritten, start, none), call)
  BY <1>1, RewrittenMore
<1> QED BY <1>1, <1>2, <1>3

\* Rewriting the body once makes a difference, if it is done at all.
LEMMA RewriteDiffers ==
    ASSUME NEW text, IsSeq(text), NEW o, NEW call, GoodRewrite(call, o),
           o.body.kind = "text" => text = o.body.text,
           NEW v, ApplyBodyRewriteOps(Some(text), <<call>>) = Some(v)
    PROVE  v.body # text
<1> DEFINE start == [changed |-> FALSE, body |-> text, ctype |-> None]
           r == Rewritten(start, call)
<1>1. r.changed /\ v.body = r.body
  <2>1. FoldLeft(Rewritten, start, <<call>>) = r
    BY RewrittenOnce
  <2>2. Some(text)[1] = text /\ Some(text) # None /\ <<call>> # <<>>
    BY DEF Some, None
  <2> HIDE DEF start, r
  <2>3. (IF r.changed THEN Some([body |-> r.body, ctype |-> r.ctype]) ELSE None) = Some(v)
    BY <2>1, <2>2 DEF ApplyBodyRewriteOps, start
  <2>4. r.changed /\ v = [body |-> r.body, ctype |-> r.ctype]
    BY <2>3 DEF Some, None
  <2> QED BY <2>4
<1>2. start.body = text /\ start.changed = FALSE /\ DOMAIN start = {"changed", "body", "ctype"}
  OBVIOUS
<1> HIDE DEF start
<1>3. CASE call.op = "rewrite"
  BY <1>1, <1>2, <1>3 DEF Rewritten
<1>4. CASE call.op # "rewrite"
  <2>1. GoodReplacement(call, text) /\ call.op = "replace" /\ call.all = FALSE
    BY <1>4 DEF GoodRewrite, GoodReplacement
  <2>2. Occurs(call.old, text) /\ r = [start EXCEPT !.changed = TRUE, !.body = ReplaceFirstSubSeq(call.new, call.old, text)]
    BY <1>1, <1>2, <2>1 DEF Rewritten
  <2>3. r.body = ReplaceFirstSubSeq(call.new, call.old, text)
    <3> HIDE DEF r
    <3> QED BY <1>2, <2>2
  <2> DEFINE S == ToSet(text) \cup ToSet(call.new)
  <2>4. text \in Seq(S) /\ call.new \in Seq(S) /\ call.new # call.old
    BY <2>1, <2>2, SeqMonotonic DEF GoodReplacement, IsSeq
  <2> HIDE DEF S
  <2>5. ReplaceFirstSubSeq(call.new, call.old, text) # text
    BY <2>2, <2>4, ReplacedDiffers DEF Occurs
  <2> QED BY <1>1, <2>3, <2>5
<1> QED BY <1>3, <1>4

\* So does any body that the filter gives the message it was made from.
LEMMA BodyDiffers ==
    ASSUME NEW s, SavedOK(s), Comparable(s), NEW C, Describes(C, s.original, s.edited),
           NEW data, DataOf(data, C),
           \/ data.rewrites = <<>>
           \/ data.body = None /\ \E call : GoodRewrite(call, s.original) /\ data.rewrites = <<call>>,
           NEW m, m = Message(s.flow[s.original.kind]), NEW rewritten,
           rewritten = ApplyBodyRewriteOps(FilterText(m), data.rewrites),
           NEW b, IntoBody(data, rewritten) = Some(b)
    PROVE  [text |-> b.text, coded |-> FALSE] # m.body
<1> DEFINE o == s.original
           e == s.edited
           c == s.flow[o.kind]
           t == c.body.text
           coded == c.body.kind \in {"gzip", "image", "bytes"}
<1>1. /\ s.flow \in Flows /\ o.kind \in Sides /\ o = Editable(s.flow, o.kind) /\ EditedBody(o.body, e.body)
  BY SavedFacts
<1>2. CapturedOK(c)
  BY <1>1, EditableFacts
<1>3. o.body.kind \in {"text", "binary", "empty"} /\ (o.body.kind = "binary" => coded)
  BY <1>1, ShownBody
<1>4. m.body = [text |-> t, coded |-> coded]
  BY DEF Message
<1>5. (o.body.kind = "text" => FilterText(m) = Some(o.body.text)) /\ (o.body.kind = "empty" => FilterText(m) = Some(<<>>))
  BY DEF Comparable
<1> HIDE DEF o, e, c, t, coded
<1>6. CASE coded
  <2>1. m.body.coded = TRUE
    BY <1>4, <1>6
  <2> DEFINE n == [text |-> b.text, coded |-> FALSE]
  <2>2. n.coded = FALSE
    OBVIOUS
  <2> HIDE DEF n
  <2> QED BY <2>1, <2>2 DEF n
<1>7. CASE ~coded
  <2>1. m.body.coded = FALSE /\ m.body.text = t
    BY <1>4, <1>7
  <2>2. FilterText(m) = Some(t)
    BY <2>1 DEF FilterText
  <2>3. \A x, y : Some(x) # None /\ Some(x)[1] = x /\ (Some(x) = Some(y) => x = y)
    BY DEF Some, None
  <2>4. (o.body.kind = "text" /\ t = o.body.text) \/ (o.body.kind = "empty" /\ t = <<>>)
    BY <1>3, <1>5, <1>7, <2>2, <2>3
  <2>5. IsSeq(t)
    BY <1>2, TextIsSeq DEF CapturedOK, t
  <2>6. b.text # t
    <3>1. CASE data.body # None
      <4>1. b.text = data.body[1]
        BY <2>3, <3>1 DEF IntoBody
      <4>2. PICK x \in C : x.op = "set_body_text" /\ data.body = Some(x.text)
        BY <3>1 DEF DataOf, BodyBy
      <4>3. SetsBody(x, o, e)
        BY <4>2 DEF Describes, o, e
      <4>4. b.text = e.body.text /\ e.body.kind = "text" /\ BodyText(o) # Some(e.body.text)
        BY <2>3, <4>1, <4>2, <4>3 DEF SetsBody, BodyText
      <4>5. CASE o.body.kind = "text" /\ t = o.body.text
        BY <4>4, <4>5 DEF BodyText
      <4>6. CASE o.body.kind = "empty" /\ t = <<>>
        BY <1>1, <4>4, <4>6 DEF EditedBody
      <4> QED BY <2>4, <4>5, <4>6
    <3>2. CASE data.body = None
      <4>1. rewritten # None /\ b.text = rewritten[1].body
        BY <2>3, <3>2 DEF IntoBody
      <4>2. PICK call : GoodRewrite(call, o) /\ data.rewrites = <<call>>
        BY <4>1 DEF ApplyBodyRewriteOps, o
      <4>3. rewritten = ApplyBodyRewriteOps(Some(t), <<call>>)
        BY <2>2, <4>2
      <4>4. \E v : rewritten = Some(v)
        BY <4>1 DEF ApplyBodyRewriteOps
      <4>5. PICK v : rewritten = Some(v)
        BY <4>4
      <4>6. v.body # t
        BY <2>4, <2>5, <4>2, <4>3, <4>5, RewriteDiffers
      <4> QED BY <2>3, <4>1, <4>5, <4>6
    <3> QED BY <3>1, <3>2
  <2> DEFINE n == [text |-> b.text, coded |-> FALSE]
  <2>7. n.text = b.text
    OBVIOUS
  <2> HIDE DEF n
  <2> QED BY <2>1, <2>6, <2>7 DEF n
<1> QED BY <1>6, <1>7

BodyHeaders == IntegrityHeaders \cup {"content-type"}

Patched(m, patch) == IF patch = None THEN m ELSE ApplyPatch(m, patch[1])

\* A patch leaves the body and sets the headers, or it replaces the body, and touches
\* the headers that describe one.
LEMMA PatchFacts ==
    ASSUME NEW m, NEW data, NEW rewritten, NEW out,
           out = Patched(m, IntoPatch(data, rewritten)),
           NEW H, H = ApplyHeaderPatch(m.headers, data.set, data.remove)
    PROVE  /\ out.status = SetStatus(m.status, data.status)
           /\ \/ out.body = m.body /\ DOMAIN out.headers = DOMAIN H /\ \A n \in DOMAIN H : out.headers[n] = H[n]
              \/ /\ \E b : IntoBody(data, rewritten) = Some(b) /\ out.body = [text |-> b.text, coded |-> FALSE]
                 /\ DOMAIN out.headers \ BodyHeaders = DOMAIN H \ BodyHeaders
                 /\ \A n \in DOMAIN H \ BodyHeaders : out.headers[n] = H[n]
<1> DEFINE body == IntoBody(data, rewritten)
           p == [status |-> data.status, set |-> data.set, remove |-> data.remove, body |-> body]
<1>1. \A x : Some(x) # None /\ Some(x)[1] = x
  BY DEF Some, None
<1>2. body = None \/ \E b : body = Some(b)
  BY DEF IntoBody
<1>3. CASE IntoPatch(data, rewritten) = None
  <2>1. out = m /\ data.status = None /\ data.set = <<>> /\ data.remove = <<>>
    BY <1>1, <1>3 DEF IntoPatch, Patched
  <2>2. H = Without(m.headers, {})
    <3>1. ToSet(<<>>) = {}
      BY EmptyIsSeq
    <3>2. H = SetAll(Without(m.headers, {}), <<>>)
      BY <2>1, <3>1 DEF ApplyHeaderPatch, SetAll
    <3> QED BY <3>2, SetAllOfNone
  <2>3. DOMAIN H = DOMAIN m.headers /\ \A n \in DOMAIN H : H[n] = m.headers[n]
    BY <2>2 DEF Without
  <2>4. SetStatus(m.status, data.status) = m.status
    BY <2>1 DEF SetStatus
  <2> QED BY <2>1, <2>3, <2>4
<1>4. CASE IntoPatch(data, rewritten) # None
  <2>1. out = ApplyPatch(m, p)
    BY <1>1, <1>4 DEF IntoPatch, Patched
  <2>2. p.status = data.status /\ p.set = data.set /\ p.remove = data.remove /\ p.body = body
    OBVIOUS
  <2> HIDE DEF p, body
  <2>3. CASE body = None
    <3> DEFINE st == SetStatus(m.status, data.status)
    <3>1. out = [status |-> st, headers |-> H, body |-> m.body]
      BY <2>1, <2>2, <2>3 DEF ApplyPatch
    <3> HIDE DEF st
    <3>2. out.status = st /\ out.headers = H /\ out.body = m.body
      BY ONLY <3>1
    <3> QED BY <3>2 DEF st
  <2>4. CASE \E b : body = Some(b)
    <3>1. PICK b : body = Some(b)
      BY <2>4
    <3> DEFINE cleared == Without(H, IntegrityHeaders)
               hs == IF b.ctype = None THEN cleared ELSE SetHeader(cleared, <<"content-type", b.ctype[1]>>)
               st == SetStatus(m.status, data.status)
               text == [text |-> b.text, coded |-> FALSE]
    <3>2. out = [status |-> st, headers |-> hs, body |-> text]
      <4>1. body # None /\ body[1] = b
        BY <1>1, <3>1
      <4> QED BY <2>1, <2>2, <4>1 DEF ApplyPatch
    <3>3. DOMAIN cleared = DOMAIN H \ IntegrityHeaders /\ \A n \in DOMAIN cleared : cleared[n] = H[n]
      BY DEF Without
    <3>4. \A v : LET set == SetHeader(cleared, <<"content-type", v>>)
                 IN /\ DOMAIN set \in {DOMAIN cleared, DOMAIN cleared \cup {"content-type"}}
                    /\ \A n \in DOMAIN cleared : n # "content-type" => set[n] = cleared[n]
      BY DEF SetHeader, With
    <3> HIDE DEF cleared
    <3>5. /\ DOMAIN hs \ BodyHeaders = DOMAIN H \ BodyHeaders
          /\ \A n \in DOMAIN H \ BodyHeaders : hs[n] = H[n]
      BY <3>3, <3>4 DEF BodyHeaders
    <3> HIDE DEF hs, st, text
    <3>6. out.status = st /\ out.headers = hs /\ out.body = text
      BY ONLY <3>2
    <3> QED BY <3>1, <3>5, <3>6 DEF st, text, body
  <2> QED BY <1>2, <2>3, <2>4 DEF body
<1> QED BY <1>3, <1>4

LEMMA SavedReplays ==
    ASSUME NEW s, SavedOK(s), Comparable(s), NamesDiffer(s.edited.headers)
    PROVE  HasHeadersOf(Replayed(s), s.edited, Message(s.flow[s.original.kind]))
<1> DEFINE o == s.original
           e == s.edited
           c == s.flow[o.kind]
           m == Message(c)
           f == s.filter
           data == Calls(f.phase, ToRotoSource(f))
           rewritten == ApplyBodyRewriteOps(FilterText(m), data.rewrites)
           patch == IntoPatch(data, rewritten)
           out == Patched(m, patch)
           H == ApplyHeaderPatch(m.headers, data.set, data.remove)
           names == ValidNames(e.headers)
           kept == KeptNames(e.headers)
<1>1. /\ s.flow \in Flows /\ o.kind \in Sides /\ o = Editable(s.flow, o.kind) /\ e.kind = o.kind
      /\ IsSeq(e.headers) /\ (BodyText(e) # None => IsSeq(e.body.text))
      /\ f = WithBody(Drafted(o, e), o, e)
      /\ o.kind = "response" => o.status # None /\ e.status # None
  BY SavedFacts
<1>2. /\ o.status = c.status /\ o.headers = HeaderList(c.headers) /\ IsSeq(o.headers) /\ CapturedOK(c)
  <2> HIDE DEF o, c
  <2> QED BY <1>1, EditableFacts DEF c
<1>3. IsSeq(o.body.text)
  <2> HIDE DEF o
  <2> QED BY <1>1, ShownBody
<1>4. m.headers = c.headers /\ (c.status # None => m.status = c.status[1])
  BY DEF Message
<1>5. Applies(f, s.flow.line, m)
  BY SavedApplies
<1>6. Replayed(s) = [drop |-> data.drop \/ data.reject # None, message |-> out]
  <2> DEFINE a == IntoAction(data, FilterText(m))
  <2>1. a.patch = patch /\ a.drop = (data.drop \/ data.reject # None)
    BY DEF IntoAction
  <2>2. Replayed(s) = [drop |-> a.drop, message |-> IF a.patch = None THEN m ELSE ApplyPatch(m, a.patch[1])]
    <3> HIDE DEF data
    <3> QED BY <1>5 DEF Replayed, data
  <2> HIDE DEF a, data, patch, m
  <2> QED BY <2>1, <2>2 DEF Patched
<1>7. Replayed(s).drop = (data.drop \/ data.reject # None) /\ Replayed(s).message = out
  <2> DEFINE dropped == data.drop \/ data.reject # None
  <2>1. Replayed(s) = [drop |-> dropped, message |-> out]
    BY <1>6
  <2> HIDE DEF dropped, out
  <2>2. Replayed(s).drop = dropped /\ Replayed(s).message = out
    BY ONLY <2>1
  <2> QED BY <2>2 DEF dropped
<1>8. /\ \E C : DataOf(data, C) /\ Describes(C, o, e)
      /\ \/ data.rewrites = <<>>
         \/ data.body = None /\ \E call : GoodRewrite(call, o) /\ data.rewrites = <<call>>
  <2>1. NamesDiffer(e.headers)
    OBVIOUS
  <2>2. data = Calls(f.phase, ToRotoSource(f))
    OBVIOUS
  <2> HIDE DEF o, e, f, data
  <2>3. /\ o.kind \in Sides /\ IsSeq(o.headers) /\ IsSeq(e.headers) /\ IsSeq(o.body.text)
        /\ BodyText(e) # None => IsSeq(e.body.text)
        /\ f = WithBody(Drafted(o, e), o, e)
    BY <1>1, <1>2, <1>3
  <2> QED BY ONLY <2>1, <2>2, <2>3, ScriptFacts
<1>9. PICK C : DataOf(data, C) /\ Describes(C, o, e)
  BY <1>8
<1>10. \A b : IntoBody(data, rewritten) = Some(b) => [text |-> b.text, coded |-> FALSE] # m.body
  <2> HIDE DEF data
  <2> QED BY <1>8, <1>9, BodyDiffers
<1> HIDE DEF f, data, rewritten
<1>11. /\ out.status = SetStatus(m.status, data.status)
       /\ \/ out.body = m.body /\ DOMAIN out.headers = DOMAIN H /\ \A n \in DOMAIN H : out.headers[n] = H[n]
          \/ /\ \E b : IntoBody(data, rewritten) = Some(b) /\ out.body = [text |-> b.text, coded |-> FALSE]
             /\ DOMAIN out.headers \ BodyHeaders = DOMAIN H \ BodyHeaders
             /\ \A n \in DOMAIN H \ BodyHeaders : out.headers[n] = H[n]
  <2>1. out = Patched(m, IntoPatch(data, rewritten))
    OBVIOUS
  <2>2. H = ApplyHeaderPatch(m.headers, data.set, data.remove)
    OBVIOUS
  <2> HIDE DEF m, out, H
  <2> QED BY ONLY <2>1, <2>2, PatchFacts
<1> HIDE DEF o, e, c, m, patch, out
<1>12. /\ DOMAIN H = (names \ kept) \cup (kept \cap DOMAIN m.headers)
       /\ \A n \in names \ kept : HeaderValue(e.headers, n) = Some(H[n])
       /\ \A n \in kept \cap DOMAIN m.headers : H[n] = m.headers[n]
  <2> DEFINE hs == m.headers
             new == e.headers
             set == data.set
             remove == data.remove
  <2>1. TellsHeaders(C, HeaderList(hs), new)
    BY <1>2, <1>4, <1>9 DEF Describes
  <2>2. IsFiniteSet(DOMAIN hs) /\ "invalid name" \notin DOMAIN hs /\ IsSeq(new)
    BY <1>1, <1>2, <1>4 DEF CapturedOK
  <2>3. PatchedBy(set, remove, C)
    BY <1>9 DEF DataOf, PatchedBy
  <2>4. H = ApplyHeaderPatch(hs, set, remove)
    OBVIOUS
  <2> HIDE DEF H, hs, new, set, remove
  <2>5. HeadersAre(H, hs, new)
    BY <2>1, <2>2, <2>3, <2>4, HeadersComeTo
  <2> QED BY <2>5 DEF HeadersAre, hs, new
<1> HIDE DEF H
<1>13. data.reject = None /\ data.drop = DropsIn(C) /\ (DropsIn(C) <=> LosesHost(o, e))
  BY <1>9 DEF DataOf, Describes
<1>14. CASE LosesHost(o, e)
  <2>1. "host" \notin NamesOf(e.headers)
    <3>1. HeaderValue(e.headers, "host") = None
      BY <1>14 DEF LosesHost
    <3>2. \A x : Some(x) # None
      BY DEF Some, None
    <3> QED BY <1>1, <3>1, <3>2, NamesHaveValues
  <2>2. Replayed(s).drop
    BY <1>13, <1>14, <1>7
  <2>3. HasHeadersOf(Replayed(s), e, m)
    <3>1. "host" \notin {h[1] : h \in ToSet(e.headers)} \ {"invalid name"}
      BY <2>1 DEF NamesOf
    <3> QED BY <2>2, <3>1 DEF HasHeadersOf
  <2> QED BY <2>3 DEF e, m, c, o
<1>15. CASE ~LosesHost(o, e)
  <2> DEFINE r == Replayed(s)
             exempt == IF out.body = m.body THEN {} ELSE BodyHeaders
  <2>1. r.drop = FALSE /\ r.message = out
    BY <1>13, <1>15, <1>7
  <2>2. e.kind = "response" => out.status = SetStatus(m.status, e.status)
    <3> SUFFICES ASSUME e.kind = "response" PROVE out.status = SetStatus(m.status, e.status)
      OBVIOUS
    <3>1. StatusBy(data.status, C)
      BY <1>9 DEF DataOf
    <3>2. CASE data.status = None
      <4>1. o.status = e.status
        BY <1>1, <1>9, <3>1, <3>2 DEF StatusBy, Describes
      <4>2. m.status = e.status[1]
        BY <1>1, <1>2, <1>4, <4>1
      <4> QED BY <1>11, <3>2, <4>2 DEF SetStatus
    <3>3. CASE data.status # None
      <4>1. PICK x \in C : x.op = "set_status" /\ data.status = Some(x.status)
        BY <3>1, <3>3 DEF StatusBy
      <4>2. x.status = e.status[1]
        BY <1>9, <4>1 DEF Describes
      <4>3. SetStatus(m.status, data.status) = SetStatus(m.status, e.status)
        BY <1>1, <4>1, <4>2 DEF SetStatus, Some, None
      <4> QED BY <1>11, <4>3
    <3> QED BY <3>2, <3>3
  <2>3. /\ DOMAIN out.headers \ exempt = ((names \ kept) \cup (kept \cap DOMAIN m.headers)) \ exempt
        /\ \A n \in (names \ kept) \ exempt : Some(out.headers[n]) = HeaderValue(e.headers, n)
        /\ \A n \in (kept \cap DOMAIN m.headers) \ exempt : out.headers[n] = m.headers[n]
    <3> HIDE DEF names, kept
    <3>1. CASE out.body = m.body
      BY <1>10, <1>11, <1>12, <3>1
    <3>2. CASE out.body # m.body
      BY <1>11, <1>12, <3>2
    <3> QED BY <3>1, <3>2
  <2>4. HasHeadersOf(r, e, m)
    <3> HIDE DEF r
    <3>1. names = {h[1] : h \in ToSet(e.headers)} \ {"invalid name"}
      BY DEF ValidNames, NamesOf
    <3>2. kept = {n \in names : HeaderValue(e.headers, n) = Some("invalid value")}
      BY DEF KeptNames
    <3> HIDE DEF names, kept
    <3> QED BY <2>1, <2>2, <2>3, <3>1, <3>2 DEF HasHeadersOf, BodyHeaders
  <2> QED BY <2>4 DEF e, m, c, o
<1> QED BY <1>14, <1>15

\* What is saved gives the message it was made from the headers and the status that it
\* was edited to have, whatever it does to the body (extract_request_filter_from_edit and
\* extract_response_filter_from_edit, run by the proxy); where what was typed is no status
\* or no value of a header, the message keeps its own (apply_response_patch).
THEOREM HeadersAreReplayed == Spec => []HeadersReplayed
<1>1. EditInv => HeadersReplayed
  <2> SUFFICES ASSUME EditInv, NEW i \in DOMAIN saved,
                      Comparable(saved[i]), NamesDiffer(saved[i].edited.headers)
               PROVE  HasHeadersOf(Replayed(saved[i]), saved[i].edited,
                                   Message(saved[i].flow[saved[i].original.kind]))
    BY DEF HeadersReplayed
  <2>1. SavedOK(saved[i])
    BY DEF EditInv, SavedInv, ToSet
  <2> QED BY <2>1, SavedReplays
<1> QED BY <1>1, EditingIsConsistent, PTL

=============================================================================
