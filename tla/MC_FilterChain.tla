--------------------------- MODULE MC_FilterChain ---------------------------
EXTENDS FilterChain

Text(m) == [status |-> 0, headers |-> ("etag" :> "e1" @@ "content-type" :> "text"),
            body |-> [text |-> m, coded |-> FALSE]]

Exchanges ==
    "f1" :> [tunnel |-> TRUE, host |-> <<"a", "b", "a">>, path |-> <<"/", "a">>, method |-> "GET",
             msg |-> Text(<<"x", "y", "x">>)]
    @@ "f2" :> [tunnel |-> FALSE, host |-> <<"b">>, path |-> <<"/">>, method |-> "POST",
                msg |-> Text(<<"z">>)]

Answers == {
    [status |-> 200, headers |-> ("content-encoding" :> "gzip" @@ "etag" :> "e2"),
     body |-> [text |-> <<"x", "x">>, coded |-> TRUE]],
    [status |-> 502, headers |-> <<>>, body |-> [text |-> <<>>, coded |-> FALSE]] }

Always   == [kind |-> "always"]
Silent   == [connect |-> <<>>, request |-> <<>>, response |-> <<>>]
Mark(l)  == [op |-> "mark", label |-> l]
Header(n, v) == [op |-> "set_header", name |-> n, value |-> v]
Body(t)  == [op |-> "set_body_text", text |-> t, ctype |-> Some("json")]
Job(c, s) == [op |-> "post", job |-> [client |-> c, source |-> s]]

\* Refuses the tunnels of a host whose last character is b, or that has an a before a b.
Guard == [path |-> 1, priority |-> 0, phases |-> {"connect"}, kind |-> "action",
          hosts |-> {<<"*", "b">>, <<"a", "*", "a", "b">>}, paths |-> {<<"/">>},
          methods |-> {"GET"}, when |-> Always,
          script |-> [Silent EXCEPT !.connect = <<[op |-> "deny", status |-> 451], Mark("no")>>]]

\* Marks a tunnel and stops the filters after it.
Gate == [Guard EXCEPT !.path = 2, !.hosts = {<<"*", "b", "*">>, <<"*", "a">>},
                      !.script = [Silent EXCEPT !.connect = <<Mark("gate"), [op |-> "stop"]>>]]

Cut == [Guard EXCEPT !.path = 9, !.priority = 1, !.hosts = {<<"a", "*">>},
                     !.script = [Silent EXCEPT !.connect = <<[op |-> "drop"]>>]]

\* Refuses a tunnel with what is no status.
Deny == [Cut EXCEPT !.path = 10, !.script = [Silent EXCEPT !.connect = <<[op |-> "deny", status |-> 1000]>>]]

\* A filter that is not compiled.
Stub == [path |-> 3, priority |-> 1, phases |-> {}, kind |-> "metadata", hosts |-> {}, paths |-> {},
         methods |-> {}, when |-> Always, script |-> Silent]

\* Changes a body that has an x, and sets a header that describes it.
Rewrite == [Stub EXCEPT !.path = 4, !.kind = "action", !.phases = {"request", "response"},
                        !.paths = {<<"/", "*", "a">>, <<"/">>},
                        !.when = [kind |-> "contains", text |-> <<"x">>],
                        !.script = [Silent EXCEPT
                            !.request = <<Header("etag", "e3"), Replacement({<<"y">>}, <<"x">>, <<"z">>, FALSE)>>,
                            !.response = <<Header("etag", "e4"), Header("invalid name", "v"),
                                           Header("content-encoding", "invalid value"),
                                           [op |-> "set_status", status |-> 1000],
                                           Replacement({}, <<"x">>, <<"w">>, TRUE),
                                           [op |-> "remove_header", name |-> "content-type"],
                                           Job("fast", "request")>>]]

\* Answers a POST itself, by the older interface.
Mock == [Stub EXCEPT !.path = 5, !.priority = 2, !.kind = "older", !.paths = {<<"*">>}, !.methods = {"POST"},
                     !.script = [Silent EXCEPT
                         !.request = <<[op |-> "synthetic_response", status |-> 201, text |-> <<"s">>,
                                        ctype |-> None], Body(<<"q">>)>>]]

\* Answers a POST with what is no response.
Fake == [Mock EXCEPT !.path = 11,
                     !.script = [Silent EXCEPT
                         !.request = <<[op |-> "synthetic_response", status |-> 1000,
                                        text |-> <<"s">>, ctype |-> Some("json")]>>]]

\* Posts what it sees, drops what failed, and stops.
Export == [Stub EXCEPT !.path = 6, !.kind = "action", !.phases = {"response"},
                       !.paths = {<<"/", "*">>, <<"a">>},
                       !.script = [Silent EXCEPT
                           !.response = <<Job("slow", "flow"), Job("gone", "response"),
                                          [op |-> "set_status", status |-> 203], [op |-> "stop"]>>]]

Drop == [Export EXCEPT !.path = 7, !.priority = 0, !.phases = {"request", "response"},
                       !.paths = {<<"/", "a">>}, !.when = [kind |-> "status", status |-> 502],
                       !.script = [Silent EXCEPT !.response = <<Mark("drop"), [op |-> "drop"]>>]]

Block == [Drop EXCEPT !.path = 8, !.paths = {}, !.priority = 3,
                      !.when = [kind |-> "contains", text |-> <<"z">>],
                      !.script = [Silent EXCEPT
                          !.request = <<[op |-> "rewrite", to |-> (<<"z">> :> <<"u">>), ctype |-> None],
                                        [op |-> "drop"]>>]]

Installations ==
    { {Guard, Stub, Rewrite, Fake, Export}, {Gate, Cut, Rewrite, Mock, Drop},
      {Deny, Stub, Rewrite, Export, Block} }

=============================================================================
