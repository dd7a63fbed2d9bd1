---------------------------- MODULE FilterChain ----------------------------
(***************************************************************************)
(* A message on its way through the filters: which of them match, in which *)
(* order they run, how their actions become one, what that does to the     *)
(* tunnel, the request and the response, and the outbound jobs that a      *)
(* response filter posts.  Filters are reloaded meanwhile.                 *)
(* Source: filters/types.rs, filters/runtime.rs, flow/filter_runtime.rs,   *)
(* flow/filter_bridge.rs, flow/dispatcher.rs, filters/http_client.rs.      *)
(*                                                                         *)
(* Hosts and patterns are sequences of (lower-case) characters, the path   *)
(* of a filter is its place in the order of paths.                         *)
(***************************************************************************)
EXTENDS FilterActions, FiniteSets, FiniteSetsExt

CONSTANTS Flows,        \* exchanges between a client and an upstream
          Traffic,      \* flow -> [tunnel, host, path, method, msg]: what its client sends
          FilterSets,   \* the sets of filters that a reload may install
          Responses,    \* what an upstream may answer
          Clients,      \* the configured outbound clients
          Hanging,      \* those of them whose server does not answer
          QueueSize     \* outbound_http.queue_size

Phases == {"connect", "request", "response"}

\* What is loaded of a filter: no two have the same path, and a script consists of
\* calls that its phase has.
FilterSetOK(s) ==
    /\ IsFiniteSet(s)
    /\ \A a \in s : a.priority \in Int /\ a.path \in Nat
    /\ \A a, b \in s : a.path = b.path => a = b
    /\ \A a \in s, phase \in Phases :
          /\ a.script[phase] \in Seq(ToSet(a.script[phase]))
          /\ \A c \in ToSet(a.script[phase]) : c.op \in PhaseOps(phase)
    /\ \A a \in s : \A p \in a.hosts \cup a.paths : p \in Seq(ToSet(p))

ASSUME ConstantsAssumption ==
    /\ FilterSets # {} /\ \A s \in FilterSets : FilterSetOK(s)
    /\ \A f \in Flows : \A value \in {Traffic[f].host, Traffic[f].path} : value \in Seq(ToSet(value))
    /\ Hanging \subseteq Clients
    /\ QueueSize \in Nat \ {0}

VARIABLES installed,    \* FilterManager: the current CompiledFilterSet
          flow,         \* flow -> how far it is
          queue,        \* the channel of the outbound worker
          running       \* the jobs that were given a task

vars == <<installed, flow, queue, running>>

-----------------------------------------------------------------------------
(* Triggers. *)

\* The parts of a pattern between its wildcards, without the empty ones.
SplitAt(pattern, parts, i) ==
    IF pattern[i] = "*" THEN parts
    ELSE IF i = 1 \/ pattern[i - 1] = "*" THEN Append(parts, <<pattern[i]>>)
    ELSE [parts EXCEPT ![Len(parts)] = Append(@, pattern[i])]

Upto(n) == [i \in 1..n |-> i]

PartsWithin(pattern, n) == FoldLeft(LAMBDA parts, i : SplitAt(pattern, parts, i), <<>>, Upto(n))

Parts(pattern) == PartsWithin(pattern, Len(pattern))

Found(part, rest) ==
    {i \in 0..(Len(rest) - Len(part)) : SubSeq(rest, i + 1, i + Len(part)) = part}

\* What is left of rest behind a part that is found at i.
Behind(rest, i, part) == SubSeq(rest, i + Len(part) + 1, Len(rest))

\* The k-th part is looked for in what is left, if anything is: the first one at the
\* start where the pattern has no wildcard there, every other where it is first found.
Sought(glob, rest, k) ==
    LET part  == glob.parts[k]
        found == IF k = 1 /\ glob.anchored THEN Found(part, rest[1]) \cap {0} ELSE Found(part, rest[1])
    IN IF rest = None \/ found = {} THEN None ELSE Some(Behind(rest[1], Min(found), part))

\* What is left behind the first n parts.
RestBehind(glob, value, n) == FoldLeft(LAMBDA rest, k : Sought(glob, rest, k), Some(value), Upto(n))

Glob(pattern) == [parts |-> Parts(pattern), anchored |-> Head(pattern) # "*"]

\* Fault: what is left behind the last part is not looked at.
GlobMatch_OpenEnd(pattern, value) ==
    IF "*" \notin ToSet(pattern) THEN pattern = value
    ELSE RestBehind(Glob(pattern), value, Len(Parts(pattern))) # None

\* glob_match
GlobMatch(pattern, value) ==
    LET rest == RestBehind(Glob(pattern), value, Len(Parts(pattern)))
    IN IF "*" \notin ToSet(pattern) THEN pattern = value
       ELSE rest # None /\ (Parts(pattern) = <<>> \/ Last(pattern) = "*" \/ rest[1] = <<>>)

\* matches_any_glob: no pattern at all matches everything.
MatchesAnyGlob(patterns, value) == patterns = {} \/ \E p \in patterns : GlobMatch(p, value)

\* matches_connect, matches_request, matches_response; a CONNECT has neither path nor
\* method.  The fourth, matches_completed, is left out: on_completed of a filter does
\* nothing and answers that it passes.
MatchesTrigger(filter, phase, t) ==
    /\ filter.phases = {} \/ phase \in filter.phases
    /\ MatchesAnyGlob(filter.hosts, t.host)
    /\ phase = "connect" \/ (/\ MatchesAnyGlob(filter.paths, t.path)
                             /\ filter.methods = {} \/ t.method \in filter.methods)

\* CompiledFilterSet::new sorts by priority, then by path.
Before(a, b) == a.priority < b.priority \/ (a.priority = b.priority /\ a.path < b.path)

\* In that order: each in the place that is left by those before it.
Sorted(filters) ==
    [i \in 1..Cardinality(filters) |->
        CHOOSE a \in filters : Cardinality({b \in filters : Before(b, a)}) = i - 1]

Matching(filters, phase, t) == Sorted({a \in filters : MatchesTrigger(a, phase, t)})

-----------------------------------------------------------------------------
(* One filter. *)

\* What a script looks at before it calls anything.
Holds(when, m) ==
    CASE when.kind = "always"   -> TRUE
      [] when.kind = "contains" -> FilterText(m) # None /\ Occurs(when.text, FilterText(m)[1])
      [] when.kind = "status"   -> m.status = when.status

\* What a filter calls in a phase.  One that is not compiled marks what it matches; one
\* that has the functions of the older interface marks it too, and goes on.
Program(filter, phase, m) ==
    LET stamp == << [op |-> "set_header", name |-> "x-inspect-filter",
                     value |-> ToString(filter.path)],
                    [op |-> "mark", label |-> filter.path] >>
    IN IF filter.kind = "metadata" THEN IF phase = "connect" THEN <<>> ELSE stamp
       ELSE IF ~Holds(filter.when, m) THEN <<>>
       ELSE IF filter.kind = "older" /\ phase # "connect" THEN stamp \o filter.script[phase]
       ELSE filter.script[phase]

\* run_connect_action, on_request and on_response.
ActionOf(filter, phase, m) ==
    IntoAction(Calls(phase, Program(filter, phase, m)), FilterText(m))

-----------------------------------------------------------------------------
(* Many filters. *)

\* Fault: a patch that is there is kept.
MergeAction_FirstPatch(dst, src) ==
    [patch     |-> IF dst.patch # None THEN dst.patch ELSE src.patch,
     synthetic |-> IF src.synthetic # None THEN src.synthetic ELSE dst.synthetic,
     marks     |-> dst.marks \o src.marks,
     jobs      |-> dst.jobs \o src.jobs,
     reject    |-> IF src.reject # None THEN src.reject ELSE dst.reject,
     drop      |-> dst.drop \/ src.drop,
     cont      |-> src.cont]

\* merge_connect_action, merge_request_action and merge_response_action: a patch
\* replaces the whole of the one before it.
MergeAction(dst, src) ==
    [patch     |-> IF src.patch # None THEN src.patch ELSE dst.patch,
     synthetic |-> IF src.synthetic # None THEN src.synthetic ELSE dst.synthetic,
     marks     |-> dst.marks \o src.marks,
     jobs      |-> dst.jobs \o src.jobs,
     reject    |-> IF src.reject # None THEN src.reject ELSE dst.reject,
     drop      |-> dst.drop \/ src.drop,
     cont      |-> src.cont]

NoMessage == [status |-> 0, headers |-> <<>>, body |-> [text |-> <<>>, coded |-> FALSE]]

\* The message that the filters of a phase see: each of them the same.
Seen(fl) ==
    CASE fl.phase = "connect" -> NoMessage
      [] fl.phase = "request" -> fl.req
      [] OTHER -> fl.res

\* A flow enters a phase: the filters are those of this moment.
Enter(fl, f, phase) ==
    [fl EXCEPT !.pc = "filters", !.phase = phase, !.set = installed,
               !.rest = Matching(installed, phase, Traffic[f]),
               !.ran = <<>>, !.action = Pass]

PhaseDone(fl) == fl.rest = <<>> \/ ~fl.action.cont

Patched(m, action) == IF action.patch = None THEN m ELSE ApplyPatch(m, action.patch[1])

-----------------------------------------------------------------------------
(* Outbound jobs. *)

\* resolve_outbound_http_job: a captured request is what the filters were given, a
\* captured response what they made of it.
Resolve(job, f, fl, res, k) ==
    [id |-> <<f, k>>, client |-> job.client,
     request  |-> IF job.source \in {"request", "flow"} THEN Some(fl.req) ELSE None,
     response |-> IF job.source \in {"response", "flow"} THEN Some(res) ELSE None]

\* Fault: the channel has no bound.
TryEnqueue_Unbounded(q, job) == IF job.client \in Clients THEN Append(q, job) ELSE q

\* OutboundHttpClientPool::try_enqueue: a job is dropped for a client that is not
\* configured, and when the channel is full.
TryEnqueue(q, job) ==
    IF job.client \in Clients /\ Len(q) < QueueSize THEN Append(q, job) ELSE q

-----------------------------------------------------------------------------

\* What the client is answered when the flow ends without a response of an upstream.
Closed(status) == [status |-> status, headers |-> [connection |-> "close"],
                   body |-> [text |-> <<>>, coded |-> FALSE]]

Start(f) ==
    [pc |-> IF Traffic[f].tunnel THEN "connect" ELSE "request", phase |-> "connect",
     req |-> Traffic[f].msg, res |-> NoMessage, effective |-> NoMessage, answer |-> NoMessage,
     set |-> {}, rest |-> <<>>, ran |-> <<>>, action |-> Pass]

Init ==
    /\ installed \in FilterSets
    /\ flow = [f \in Flows |-> Start(f)]
    /\ queue = <<>>
    /\ running = {}

\* The manager swaps in the filters of a reload.
Reload ==
    /\ installed' \in FilterSets
    /\ UNCHANGED <<flow, queue, running>>

\* http_connect_accept, dispatch_request_filters and dispatch_response_filters take the
\* current filters.
EnterPhase(f) ==
    /\ flow[f].pc \in Phases
    /\ flow' = [flow EXCEPT ![f] = Enter(@, f, @.pc)]
    /\ UNCHANGED <<installed, queue, running>>

\* One turn of the loop of run_connect_filters, run_request_filters and
\* run_response_filters.
RunFilter(f) ==
    LET fl == flow[f] IN
    /\ fl.pc = "filters" /\ ~PhaseDone(fl)
    /\ flow' = [flow EXCEPT ![f].rest = Tail(@), ![f].ran = Append(@, Head(fl.rest)),
                            ![f].action = MergeAction(@, ActionOf(Head(fl.rest), fl.phase, Seen(fl)))]
    /\ UNCHANGED <<installed, queue, running>>

\* http_connect_accept goes on: the tunnel is refused, by 403 where no status is given
\* or it is none, or the request follows.  (The event of the refused tunnel is one of
\* FlowDispatch.)
ConnectDone(f) ==
    LET fl == flow[f]
        status == SetStatus(403, fl.action.reject)
    IN
    /\ fl.pc = "filters" /\ fl.phase = "connect" /\ PhaseDone(fl)
    /\ flow' = [flow EXCEPT ![f] =
            IF fl.action.drop THEN [@ EXCEPT !.pc = "done", !.answer = Closed(status)]
            ELSE [@ EXCEPT !.pc = "request"]]
    /\ UNCHANGED <<installed, queue, running>>

\* build_synthetic_response: what is no response, by its status or its content type, is
\* answered by 500.
SyntheticResponse(s) ==
    IF s.status \in StatusCodes /\ s.ctype # Some("invalid value")
    THEN [status  |-> s.status,
          headers |-> IF s.ctype = None THEN <<>> ELSE "content-type" :> s.ctype[1],
          body    |-> [text |-> s.text, coded |-> FALSE]]
    ELSE [NoMessage EXCEPT !.status = 500]

\* dispatch_http goes on: a dropped request is answered by 444, a synthetic response
\* goes through the response filters, and everything else upstream.
RequestDone(f) ==
    LET fl == flow[f]
        effective == Patched(fl.req, fl.action)
    IN
    /\ fl.pc = "filters" /\ fl.phase = "request" /\ PhaseDone(fl)
    /\ flow' = [flow EXCEPT ![f] =
            IF fl.action.drop
            THEN [@ EXCEPT !.effective = effective, !.pc = "done", !.answer = Closed(444)]
            ELSE IF fl.action.synthetic # None
            THEN [@ EXCEPT !.effective = effective, !.pc = "response",
                           !.res = SyntheticResponse(fl.action.synthetic[1])]
            ELSE [@ EXCEPT !.effective = effective, !.pc = "upstream"]]
    /\ UNCHANGED <<installed, queue, running>>

\* The upstream answers the effective request.
Upstream(f) ==
    /\ flow[f].pc = "upstream"
    /\ \E r \in Responses : flow' = [flow EXCEPT ![f].pc = "response", ![f].res = r]
    /\ UNCHANGED <<installed, queue, running>>

\* dispatch_response goes on: the patch is applied, the jobs are resolved and queued,
\* and the client is answered.
ResponseDone(f) ==
    LET fl   == flow[f]
        res  == Patched(fl.res, fl.action)
        jobs == [k \in 1..Len(fl.action.jobs) |-> Resolve(fl.action.jobs[k], f, fl, res, k)]
    IN
    /\ fl.pc = "filters" /\ fl.phase = "response" /\ PhaseDone(fl)
    /\ flow' = [flow EXCEPT ![f].pc = "done",
                            ![f].answer = IF fl.action.drop THEN Closed(444) ELSE res]
    /\ queue' = FoldLeft(TryEnqueue, queue, jobs)
    /\ UNCHANGED <<installed, running>>

\* run_outbound_http_worker gives the next job a task of its own.
StartJob ==
    /\ queue # <<>>
    /\ running' = running \cup {Head(queue)}
    /\ queue' = Tail(queue)
    /\ UNCHANGED <<installed, flow>>

\* Fault: the request of a job is waited for as long as it takes.
EndJob_NoTimeout(job) ==
    /\ job \in running /\ job.client \notin Hanging
    /\ running' = running \ {job}
    /\ UNCHANGED <<installed, flow, queue>>

\* The request of a job ends: it is answered, it fails, or its time is over.
EndJob(job) ==
    /\ job \in running
    /\ running' = running \ {job}
    /\ UNCHANGED <<installed, flow, queue>>

FlowStep(f) ==
    EnterPhase(f) \/ RunFilter(f) \/ ConnectDone(f) \/ RequestDone(f) \/ Upstream(f)
        \/ ResponseDone(f)

Next ==
    \/ Reload
    \/ \E f \in Flows : FlowStep(f)
    \/ StartJob
    \/ \E job \in running : EndJob(job)

JobStep == StartJob \/ \E job \in running : EndJob(job)

Spec == Init /\ [][Next]_vars /\ WF_<<queue, running>>(JobStep)

-----------------------------------------------------------------------------
(* Properties. *)

TypeOK ==
    /\ installed \in FilterSets
    /\ DOMAIN flow = Flows
    /\ \A f \in Flows : /\ flow[f].pc \in Phases \cup {"filters", "upstream", "done"}
                        /\ flow[f].phase \in Phases
                        /\ ToSet(flow[f].ran) \cup ToSet(flow[f].rest) \subseteq flow[f].set
    /\ Len(queue) \in 0..QueueSize
    /\ \A job \in running : job.client \in Clients

\* What a pattern means, every "*" standing for some text: where in a value what was read
\* of the pattern may end, from where it may have ended before its next character c.
MayEnd(value, ends, c) ==
    IF c = "*" THEN {j \in 0..Len(value) : \E i \in ends : i <= j}
    ELSE {j \in 1..Len(value) : j - 1 \in ends /\ value[j] = c}

EndsOf(pattern, value) == FoldLeft(LAMBDA ends, c : MayEnd(value, ends, c), {0}, pattern)

GlobMeans(pattern, value) == Len(value) \in EndsOf(pattern, value)

\* The host or the path of a flow is matched by no pattern that does not mean it
\* (types.rs:216), and by every pattern that means it and has no text behind a "*":
\* there, the first place where a part is found is always good enough.
GlobSound ==
    \A f \in Flows : \A a \in flow[f].set :
        LET open(p) == "*" \notin ToSet(p) \/ Last(p) = "*"
            Sound(p, value) == /\ GlobMatch(p, value) => GlobMeans(p, value)
                               /\ open(p) /\ GlobMeans(p, value) => GlobMatch(p, value)
        IN /\ \A p \in a.hosts : Sound(p, Traffic[f].host)
           /\ \A p \in a.paths : Sound(p, Traffic[f].path)

\* The filters a phase should run, of those that were installed when it began: the
\* matching ones that no earlier matching one stops.
Stops(a, fl) == ~ActionOf(a, fl.phase, Seen(fl)).cont

Expected(f) ==
    LET fl == flow[f]
        matching == {a \in fl.set : MatchesTrigger(a, fl.phase, Traffic[f])}
    IN {a \in matching : \A b \in matching : Before(b, a) => ~Stops(b, fl)}

\* The action is made of those of the filters that ran: the patch of the last of them
\* that has one, the marks and jobs of all of them in their order, and a drop if any
\* of them asks for it.
Merged(fl) ==
    LET act == [k \in 1..Len(fl.ran) |-> ActionOf(fl.ran[k], fl.phase, Seen(fl))]
        patching == {k \in 1..Len(fl.ran) : act[k].patch # None}
    IN /\ fl.action.patch = IF patching = {} THEN None ELSE act[Max(patching)].patch
       /\ fl.action.marks = FlattenSeq([k \in 1..Len(fl.ran) |-> act[k].marks])
       /\ fl.action.jobs = FlattenSeq([k \in 1..Len(fl.ran) |-> act[k].jobs])
       /\ fl.action.drop = \E k \in 1..Len(fl.ran) : act[k].drop

\* When a phase ends, whatever was reloaded during it, the filters that should have run
\* have run in order of priority and path, each once, and what the phase does is what
\* their actions are together (filter_runtime.rs:77, filter_bridge.rs:64).
ChainResult ==
    \A f \in Flows :
        LET fl == flow[f]
        IN fl.pc = "filters" /\ PhaseDone(fl) =>
            /\ ToSet(fl.ran) = Expected(f)
            /\ \A i, j \in 1..Len(fl.ran) : i < j => Before(fl.ran[i], fl.ran[j])
            /\ Merged(fl)

\* A body that a filter changed does not go out with a header that describes the old
\* one, not even one the filter set itself: neither to the upstream nor to the client
\* (filter_bridge.rs:244).
NoStaleIntegrity ==
    \A f \in Flows :
        LET Clean(new, old) ==
                new.body # old.body => DOMAIN new.headers \cap IntegrityHeaders = {}
        IN /\ flow[f].pc \in {"upstream", "response"} => Clean(flow[f].effective, flow[f].req)
           /\ flow[f].pc = "done" => Clean(flow[f].answer, flow[f].res)

\* What a flow is made of, which every step keeps.
FlowFields ==
    {"pc", "phase", "req", "res", "effective", "answer", "set", "rest", "ran", "action"}

FlowShape == DOMAIN flow = Flows /\ \A f \in Flows : DOMAIN flow[f] = FlowFields

\* What has run and what has not are the filters that match, in their order.
OrderInv ==
    \A f \in Flows :
        LET fl == flow[f]
        IN /\ fl.set \in FilterSets \cup {{}} /\ fl.phase \in Phases
           /\ fl.ran \in Seq(fl.set) /\ fl.rest \in Seq(fl.set)
           /\ fl.ran \o fl.rest = Matching(fl.set, fl.phase, Traffic[f])

\* No filter that has run stopped the next; whether the last one did is in the action.
RunInv ==
    \A f \in Flows :
        LET fl == flow[f]
        IN fl.pc = "filters" =>
            /\ \A k \in 1..(Len(fl.ran) - 1) : ~Stops(fl.ran[k], fl)
            /\ fl.action.cont = (fl.ran = <<>> \/ ~Stops(fl.ran[Len(fl.ran)], fl))
            /\ Merged(fl)

QueueInv ==
    /\ queue \in Seq(ToSet(queue)) /\ Len(queue) <= QueueSize
    /\ \A job \in ToSet(queue) \cup running : job.client \in Clients

StageNames == Phases \cup {"filters", "upstream", "done"}

\* The inductive invariant.
ChainInv ==
    /\ installed \in FilterSets
    /\ FlowShape /\ (\A f \in Flows : flow[f].pc \in StageNames)
    /\ OrderInv /\ RunInv /\ QueueInv /\ NoStaleIntegrity

\* A job that is queued ends, although the server of another job never answers
\* (http_client.rs:84).
JobsServed ==
    \A f \in Flows, k \in 1..2 :
        LET Pending == \E job \in ToSet(queue) \cup running : job.id = <<f, k>>
        IN Pending ~> ~Pending

=============================================================================
