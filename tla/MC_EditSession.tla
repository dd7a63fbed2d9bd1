--------------------------- MODULE MC_EditSession ---------------------------
EXTENDS EditDocuments

Num(n)  == [num |-> n]
Arr(s)  == [arr |-> s]
Obj(f)  == [obj |-> f]

\* Arrays of several lengths, alone and within an object; one document in two layouts.
Json ==
    "[]" :> Arr(<<>>) @@ "[1]" :> Arr(<<Num(1)>>) @@ "[1,2]" :> Arr(<<Num(1), Num(2)>>)
    @@ "[1,2,3]" :> Arr(<<Num(1), Num(2), Num(3)>>)
    @@ "{a:1}" :> Obj("a" :> Num(1)) @@ "{ a: 1 }" :> Obj("a" :> Num(1))
    @@ "{b:[1,2]}" :> Obj("b" :> Arr(<<Num(1), Num(2)>>))
    @@ "{a:2,b:[1]}" :> Obj("a" :> Num(2) @@ "b" :> Arr(<<Num(1)>>))
    @@ "{b:[1,{}]}" :> Obj("b" :> Arr(<<Num(1), Obj(<<>>)>>))
    @@ "5" :> Num(5)

Layouts == {"{ a: 1 }"}

Node(kind, start, end, names, children) ==
    [kind |-> kind, start |-> start, end |-> end, names |-> names, children |-> children]

Script == <<"k", ":", "'", "x", "y", "'">>
Sheet  == <<"c", ":", "x", ";", "y">>
Page   == <<"p", "h", "=", "x", ">", "y">>

Syntax ==
    Script :> Node("program", 0, 6, {}, <<Node("pair", 0, 6, {<<"k">>},
                <<Node("string", 2, 6, {}, <<Node("fragment", 3, 5, {}, <<>>)>>)>>)>>)
    @@ Sheet :> Node("stylesheet", 0, 5, {}, <<Node("declaration", 0, 4, {<<"c">>}, <<>>)>>)
    @@ Page  :> Node("document", 0, 6, {}, <<Node("tag", 0, 5, {},
                <<Node("attribute", 1, 4, {<<"p">>, <<"h">>}, <<>>)>>)>>)

Languages ==
    "application/json" :> "json" @@ JsonText :> "json" @@ PlainText :> "text"
    @@ "text/javascript" :> "javascript" @@ "text/css" :> "css" @@ "text/html" :> "html"
    @@ "Text/HTML" :> "html"

Typing(b) == [kind |-> "text", text |-> b, plain |-> b]
Body(kind, b) == [kind |-> kind, text |-> <<"?">>, plain |-> b]
Void == [kind |-> "empty", text |-> <<>>, plain |-> <<>>]

Line(path) == [scheme |-> "https", method |-> "POST", host |-> "h", path |-> path, query |-> "q=1"]

Asked(headers, body)           == [status |-> None, headers |-> headers, body |-> body]
Answered(status, headers, body) == [status |-> Some(status), headers |-> headers, body |-> body]

Captured == {
    [line |-> Line(<<"/", "a", "/", "b">>),
     request  |-> Asked("host" :> "h" @@ "content-type" :> "application/json", Typing(<<"{a:1}">>)),
     response |-> Answered(200, "content-type" :> "application/json" @@ "etag" :> "e",
                           Typing(<<"[1,2,3]", Newline>>))],
    [line |-> Line(<<"/">>),
     request  |-> Asked("host" :> "h", Void),
     response |-> Answered(200, "content-type" :> "Text/HTML", Typing(Page))],
    [line |-> Line(<<"/", "b">>),
     request  |-> Asked("host" :> "h" @@ "content-type" :> "text/javascript", Typing(Script)),
     response |-> Answered(404, "content-type" :> "text/css", Typing(Sheet))],
    [line |-> Line(<<"b">>),
     request  |-> Asked("content-encoding" :> "gzip", Body("gzip", <<"x", "y">>)),
     response |-> Answered(200, "content-type" :> "text/html", Typing(Page))],
    [line |-> Line(<<"/">>),
     request  |-> Asked("x" :> "1", Body("base64", <<"x", "y">>)),
     response |-> Answered(200, <<>>, Body("gzip", <<"x", "y", "x">>))],
    [line |-> Line(<<"/">>),
     request  |-> Asked("x" :> "1", Body("image", <<>>)),
     response |-> Asked(<<>>, Body("absent", <<>>))],
    [line |-> Line(<<"/">>),
     request  |-> Asked(<<>>, Body("bytes", <<>>)),
     response |-> Answered(200, "x" :> "1", Body("unread events", <<>>))],
    [line |-> Line(<<"/">>),
     request  |-> Asked("x" :> "1", Body("unread", <<>>)),
     response |-> Answered(200, <<>>, Body("events", <<"x", "y">>))],
    [line |-> Line(<<"/">>),
     request  |-> Asked(<<>>, Body("gzip", <<Newline>>)),
     response |-> Answered(204, <<>>, Typing(<<"x", "y", "x", "y", "z">>))],
    [line |-> Line(<<"/", "a">>),
     request  |-> Asked("content-type" :> "application/json", Typing(<<"[1]">>)),
     response |-> Answered(200, <<>>, Typing(<<"{b:[1,2]}">>))] }

\* What is typed for a body: other documents, one character of a text changed, added or
\* taken away, and a text that has nothing of the old one.
Texts ==
    {<<d, Newline>> : d \in {"[]", "[1,2]", "{ a: 1 }", "{a:2,b:[1]}", "{b:[1,{}]}", "5"}}
    \cup {<<"[1]">>, <<"[1,2,3]", "[1]">>, <<"{", Newline>>}
    \cup {<<"k", ":", "'", "y", "y", "'", Newline>>, <<"k", ":", "'", "x", "z", "y", "'">>,
          <<"c", ":", "z", ";", "y">>, <<"c", ":", "x", ";", "z">>,
          <<"p", "h", "=", "z", ">", "y">>, <<"p", "h", "=", "x", ">", "z">>,
          <<"x", "y", "z", Newline>>, <<"x", "y", "x", "z", "z">>, <<"x", "z", "x", "y", "z">>,
          <<"z", "z", "z", "z", "z", "z">>, <<>>, <<Newline>>}

Headers == {<<"host", "h2">>, <<"x", "2">>, <<"etag", "f">>, <<"content-type", "text/css">>,
            <<"invalid name", "v">>, <<"x", "invalid value">>, <<"# comment", "v">>}

Codes == {None, Some(500), Some(1000)}

Elsewhere == <<"/", "c">>

=============================================================================
