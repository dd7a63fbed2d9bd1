------------------------- MODULE FilterChain_proofs -------------------------
(***************************************************************************)
(* Proofs about FilterChain, for any flows, traffic, filters, responses    *)
(* and clients.                                                            *)
(***************************************************************************)
EXTENDS FilterChain, FoldTheorems

\* A body that is not the old one goes without the headers that describe a body.
Clean(new, old) == new.body # old.body => DOMAIN new.headers \cap IntegrityHeaders = {}

CleanFlow(fl) ==
    /\ fl.pc \in {"upstream", "response"} => Clean(fl.effective, fl.req)
    /\ fl.pc = "done" => Clean(fl.answer, fl.res)

\* apply_request_patch and apply_response_patch leave a message clean, whatever the
\* patch sets.
LEMMA PatchIsClean ==
    ASSUME NEW m, NEW action
    PROVE  Clean(Patched(m, action), m)
<1> DEFINE patch == action.patch[1]
           headers == ApplyHeaderPatch(m.headers, patch.set, patch.remove)
           cleared == Without(headers, IntegrityHeaders)
           result == ApplyPatch(m, patch)
<1>1. CASE action.patch = None
  BY <1>1 DEF Patched, Clean
<1>2. CASE action.patch # None /\ patch.body = None
  <2>1. Patched(m, action).body = m.body
    BY <1>2 DEF Patched, ApplyPatch
  <2> QED BY <2>1 DEF Clean
<1>3. CASE action.patch # None /\ patch.body # None
  <2>1. DOMAIN cleared \cap IntegrityHeaders = {}
    <3> HIDE DEF headers
    <3> QED BY DEF Without
  <2>2. \A v : DOMAIN SetHeader(cleared, <<"content-type", v>>) \subseteq DOMAIN cleared \cup {"content-type"}
    <3> HIDE DEF cleared
    <3> QED BY DEF SetHeader, With
  <2>3. "content-type" \notin IntegrityHeaders
    BY DEF IntegrityHeaders
  <2>4. \/ Patched(m, action).headers = cleared
        \/ \E v : Patched(m, action).headers = SetHeader(cleared, <<"content-type", v>>)
    <3>1. Patched(m, action) = ApplyPatch(m, patch)
      BY <1>3 DEF Patched
    <3>2. ApplyPatch(m, patch).headers =
              IF patch.body[1].ctype = None THEN cleared
              ELSE SetHeader(cleared, <<"content-type", patch.body[1].ctype[1]>>)
      <4> HIDE DEF patch
      <4> QED BY <1>3 DEF ApplyPatch
    <3> HIDE DEF patch, cleared
    <3> QED BY <3>1, <3>2
  <2> HIDE DEF cleared
  <2>5. DOMAIN Patched(m, action).headers \subseteq DOMAIN cleared \cup {"content-type"}
    BY <2>2, <2>4
  <2>6. DOMAIN Patched(m, action).headers \cap IntegrityHeaders = {}
    BY <2>1, <2>3, <2>5
  <2> QED BY <2>6 DEF Clean
<1> QED BY <1>1, <1>2, <1>3

\* What the proxy answers by itself describes no body.
LEMMA ClosedIsClean ==
    ASSUME NEW status, NEW old
    PROVE  Clean(Closed(status), old)
<1>1. DOMAIN Closed(status).headers = {"connection"}
  BY DEF Closed
<1> QED BY <1>1 DEF Clean, IntegrityHeaders

-----------------------------------------------------------------------------
(* What a script comes to. *)

\* What every call of a script keeps: the marks and the jobs are sequences.
GoodData(data) ==
    /\ DOMAIN data = DOMAIN NoCalls
    /\ IsSeq(data.marks) /\ IsSeq(data.jobs) /\ data.drop \in BOOLEAN

Script == INSTANCE FoldTheorems WITH FoldOp <- Called, FoldKept <- GoodData

\* What every call keeps, the script does.
LEMMA CallsAreGood ==
    ASSUME NEW phase, NEW script, NEW n \in Nat, DOMAIN script = 1..n, GoodData(NoCalls),
           \A data : \A i \in 1..n : GoodData(data) => GoodData(Called(phase, data, script[i]))
    PROVE  GoodData(Calls(phase, script))
<1>1. Calls(phase, script) = Script!FoldOf(phase, NoCalls, script)[DOMAIN script]
  BY DEF Calls, FoldLeft, MapThenFoldSet, Max, Script!FoldOf, Script!IsFold,
         Script!FoldTurn, Script!Max
<1> QED BY <1>1, Script!FoldKeeps

\* The action of no call.
LEMMA NoCallsAreGood == GoodData(NoCalls)
BY EmptyIsSeq DEF GoodData, NoCalls

\* A call that the phase has keeps it.
LEMMA CallIsGood ==
    ASSUME NEW phase \in Phases, NEW data, GoodData(data), NEW c, c.op \in PhaseOps(phase)
    PROVE  GoodData(Called(phase, data, c))
<1>1. /\ DOMAIN data = DOMAIN NoCalls /\ IsSeq(data.marks) /\ IsSeq(data.jobs)
      /\ data.drop \in BOOLEAN
  BY DEF GoodData
<1>2. DOMAIN NoCalls = {"status", "set", "remove", "marks", "body", "ctype", "rewrites",
                        "synthetic", "reject", "jobs", "stop", "drop"}
  BY DEF NoCalls
<1>3. CASE phase = "connect"
  <2>1. c.op \in {"drop", "deny", "stop", "mark"} /\ Called(phase, data, c) = ConnectCall(data, c)
    BY <1>3 DEF PhaseOps, Called
  <2>2. GoodData(ConnectCall(data, c))
    BY <1>1, <1>2, <2>1, AppendedSeq, EmptyIsSeq DEF GoodData, ConnectCall, NoCalls
  <2> QED BY <2>1, <2>2
<1>4. CASE c.op \in RewriteOps /\ phase # "connect"
  <2>1. Called(phase, data, c) = RewriteCall(data, c)
    <3>1. CASE phase = "request"
      BY <1>4, <3>1 DEF Called, RequestCall, RewriteOps
    <3>2. CASE phase = "response"
      BY <1>4, <3>2 DEF Called, ResponseCall, RewriteOps
    <3> QED BY <1>4, <3>1, <3>2 DEF Phases
  <2>2. GoodData(RewriteCall(data, c))
    BY <1>1, <1>2 DEF GoodData, RewriteCall
  <2> QED BY <2>1, <2>2
<1>5. CASE phase = "request" /\ c.op = "synthetic_response"
  <2>1. Called(phase, data, c) = SyntheticCall(data, c)
    BY <1>5 DEF Called, RequestCall, RewriteOps
  <2>2. GoodData(SyntheticCall(data, c))
    BY <1>1, <1>2 DEF GoodData, SyntheticCall
  <2> QED BY <2>1, <2>2
<1>6. CASE phase = "response" /\ c.op \in {"set_status", "post"}
  <2>1. \/ Called(phase, data, c) = [data EXCEPT !.status = Some(c.status)]
        \/ Called(phase, data, c) = PostCall(data, c)
    BY <1>6 DEF Called, ResponseCall, RewriteOps
  <2>2. GoodData([data EXCEPT !.status = Some(c.status)])
    BY <1>1, <1>2 DEF GoodData
  <2>3. GoodData(PostCall(data, c))
    BY <1>1, <1>2, AppendedSeq DEF GoodData, PostCall
  <2> QED BY <2>1, <2>2, <2>3
<1>7. CASE /\ phase # "connect"
           /\ c.op \in {"stop", "drop", "mark", "set_header", "remove_header", "set_body_text"}
  <2>1. Called(phase, data, c) = MessageCall(data, c)
    BY <1>7 DEF Phases, Called, RequestCall, ResponseCall, RewriteOps
  <2>2. GoodData(MessageCall(data, c))
    BY <1>1, <1>2, <1>7, AppendedSeq DEF GoodData, MessageCall
  <2> QED BY <2>1, <2>2
<1> QED BY <1>3, <1>4, <1>5, <1>6, <1>7 DEF Phases, PhaseOps

\* What a loaded filter calls, the phase has.
LEMMA ProgramOps ==
    ASSUME NEW s, FilterSetOK(s), NEW a \in s, NEW phase \in Phases, NEW m
    PROVE  /\ IsSeq(Program(a, phase, m))
           /\ \A i \in DOMAIN Program(a, phase, m) : Program(a, phase, m)[i].op \in PhaseOps(phase)
<1> DEFINE stamp == << [op |-> "set_header", name |-> "x-inspect-filter", value |-> ToString(a.path)],
                       [op |-> "mark", label |-> a.path] >>
           Fine(q) == IsSeq(q) /\ \A c \in ToSet(q) : c.op \in PhaseOps(phase)
<1>1. Fine(a.script[phase])
  BY DEF FilterSetOK, IsSeq
<1>2. Fine(<<>>)
  BY EmptyIsSeq
<1>3. ASSUME phase # "connect" PROVE Fine(stamp)
  <2>1. stamp \in Seq({stamp[1], stamp[2]})
    OBVIOUS
  <2>2. stamp[1].op \in PhaseOps(phase) /\ stamp[2].op \in PhaseOps(phase)
    BY <1>3 DEF Phases, PhaseOps
  <2> HIDE DEF stamp
  <2>3. IsSeq(stamp) /\ ToSet(stamp) \subseteq {stamp[1], stamp[2]}
    BY <2>1, OwnElements
  <2> QED BY <2>2, <2>3
<1> HIDE DEF stamp
<1>4. ASSUME phase # "connect" PROVE Fine(stamp \o a.script[phase])
  BY <1>1, <1>3, <1>4, JoinedSeq
<1> HIDE DEF Fine
<1>5. Fine(Program(a, phase, m))
  BY <1>1, <1>2, <1>3, <1>4 DEF Program, stamp
<1> QED BY <1>5 DEF Fine, ToSet

\* What the action of a filter always has.
GoodAction(act) == IsSeq(act.marks) /\ IsSeq(act.jobs) /\ act.drop \in BOOLEAN

\* The action of a filter has marks, jobs and flags, whatever its script calls.
LEMMA ActionIsGood ==
    ASSUME NEW s, FilterSetOK(s), NEW a \in s, NEW phase \in Phases, NEW m
    PROVE  GoodAction(ActionOf(a, phase, m)) /\ ActionOf(a, phase, m).cont \in BOOLEAN
<1> DEFINE script == Program(a, phase, m)
           data == Calls(phase, script)
<1>1. Len(script) \in Nat /\ DOMAIN script = 1..Len(script)
  BY ProgramOps, OwnElements DEF IsSeq
<1>2. \A x : \A i \in 1..Len(script) : GoodData(x) => GoodData(Called(phase, x, script[i]))
  BY <1>1, ProgramOps, CallIsGood
<1> HIDE DEF script
<1>3. GoodData(data)
  BY <1>1, <1>2, NoCallsAreGood, CallsAreGood
<1> HIDE DEF data
<1>4. ActionOf(a, phase, m) = IntoAction(data, FilterText(m))
  BY DEF ActionOf, data, script
<1> QED BY <1>3, <1>4 DEF GoodData, IntoAction, GoodAction

-----------------------------------------------------------------------------
(* The order of the filters. *)

\* In a loaded set, one of two filters is before the other.
LEMMA BeforeIsTotal ==
    ASSUME NEW s, FilterSetOK(s), NEW a \in s, NEW b \in s
    PROVE  /\ a # b => Before(a, b) \/ Before(b, a)
           /\ ~(Before(a, b) /\ Before(b, a))
<1>1. a.priority \in Int /\ b.priority \in Int /\ a.path \in Nat /\ b.path \in Nat
  BY DEF FilterSetOK
<1>2. a # b => a.path # b.path
  BY DEF FilterSetOK
<1> QED BY <1>1, <1>2 DEF Before

\* And the order is transitive.
LEMMA BeforeIsTransitive ==
    ASSUME NEW s, FilterSetOK(s), NEW a \in s, NEW b \in s, NEW c \in s,
           Before(a, b), Before(b, c)
    PROVE  Before(a, c)
<1>1. /\ a.priority \in Int /\ b.priority \in Int /\ c.priority \in Int
      /\ a.path \in Nat /\ b.path \in Nat /\ c.path \in Nat
  BY DEF FilterSetOK
<1> QED BY <1>1 DEF Before

\* The order of CompiledFilterSet::new has every filter of a set once, those with the
\* smaller priority, then those with the smaller path first.
LEMMA SortedFacts ==
    ASSUME NEW s, FilterSetOK(s), NEW S \in SUBSET s
    PROVE  /\ Sorted(S) \in Seq(S) /\ ToSet(Sorted(S)) = S
           /\ \A i, j \in 1..Len(Sorted(S)) : i < j => Before(Sorted(S)[i], Sorted(S)[j])
<1> DEFINE n == Cardinality(S)
           Lower(a) == {b \in S : Before(b, a)}
           rank == [a \in S |-> Cardinality(Lower(a))]
<1>1. IsFiniteSet(S) /\ n \in Nat
  BY FS_Subset, FS_CardinalityType DEF FilterSetOK
<1>2. \A a \in S : /\ Lower(a) \subseteq S \ {a} /\ IsFiniteSet(Lower(a))
                   /\ Cardinality(Lower(a)) \in Nat /\ Cardinality(Lower(a)) < n
  <2> SUFFICES ASSUME NEW a \in S
               PROVE  /\ Lower(a) \subseteq S \ {a} /\ IsFiniteSet(Lower(a))
                      /\ Cardinality(Lower(a)) \in Nat /\ Cardinality(Lower(a)) < n
    OBVIOUS
  <2>1. Lower(a) \subseteq S \ {a}
    BY BeforeIsTotal
  <2>2. IsFiniteSet(S \ {a}) /\ Cardinality(S \ {a}) = n - 1
    BY <1>1, FS_RemoveElement
  <2> HIDE DEF Lower
  <2>3. IsFiniteSet(Lower(a)) /\ Cardinality(Lower(a)) <= n - 1
    BY <2>1, <2>2, FS_Subset
  <2>4. Cardinality(Lower(a)) \in Nat
    BY <2>3, FS_CardinalityType
  <2> HIDE DEF n
  <2> QED BY <1>1, <2>1, <2>3, <2>4
<1>3. \A a, b \in S : Before(a, b) => rank[a] < rank[b]
  <2> SUFFICES ASSUME NEW a \in S, NEW b \in S, Before(a, b)
               PROVE  Cardinality(Lower(a)) < Cardinality(Lower(b))
    OBVIOUS
  <2>1. Lower(a) \subseteq Lower(b) \ {a} /\ a \in Lower(b)
    <3>1. a \in Lower(b)
      OBVIOUS
    <3>2. \A c \in Lower(a) : c \in Lower(b)
      BY BeforeIsTransitive
    <3>3. a \notin Lower(a)
      BY <1>2
    <3> QED BY <3>1, <3>2, <3>3
  <2> HIDE DEF Lower
  <2>2. /\ IsFiniteSet(Lower(b) \ {a}) /\ Cardinality(Lower(b)) \in Nat
        /\ Cardinality(Lower(b) \ {a}) = Cardinality(Lower(b)) - 1
    BY <1>2, <2>1, FS_RemoveElement
  <2>3. Cardinality(Lower(a)) <= Cardinality(Lower(b)) - 1 /\ Cardinality(Lower(a)) \in Nat
    BY <1>2, <2>1, <2>2, FS_Subset
  <2> QED BY <2>2, <2>3
<1>4. rank \in [S -> 0..(n - 1)]
  <2> HIDE DEF Lower, n
  <2> QED BY <1>1, <1>2
<1>5. \A a, b \in S : rank[a] = rank[b] => a = b
  <2> SUFFICES ASSUME NEW a \in S, NEW b \in S, rank[a] = rank[b], a # b PROVE FALSE
    OBVIOUS
  <2>1. Before(a, b) \/ Before(b, a)
    BY BeforeIsTotal
  <2>2. rank[a] < rank[b] \/ rank[b] < rank[a]
    BY <1>3, <2>1
  <2>3. rank[a] \in Nat /\ rank[b] \in Nat
    BY <1>2
  <2> HIDE DEF rank
  <2> QED BY <2>2, <2>3
<1>6. \A a \in S : rank[a] = Cardinality(Lower(a))
  OBVIOUS
<1> HIDE DEF rank
<1>7. rank \in Injection(S, 0..(n - 1))
  BY <1>4, <1>5 DEF Injection, IsInjective
<1>8. IsFiniteSet(0..(n - 1)) /\ Cardinality(0..(n - 1)) = n
  <2> HIDE DEF n
  <2>1. 0 \in Int /\ n - 1 \in Int
    BY <1>1
  <2>2. IsFiniteSet(0..(n - 1)) /\ Cardinality(0..(n - 1)) = IF 0 > n - 1 THEN 0 ELSE (n - 1) - 0 + 1
    BY <2>1, FS_Interval
  <2> QED BY <1>1, <2>2
<1>9. \A k \in 0..(n - 1) : \E a \in S : rank[a] = k
  <2>1. rank \in Surjection(S, 0..(n - 1))
    BY <1>7, <1>8, FS_Injection
  <2> QED BY <2>1 DEF Surjection
<1> DEFINE t == Sorted(S)
<1>10. t = [i \in 1..n |-> CHOOSE a \in S : Cardinality(Lower(a)) = i - 1]
  BY DEF Sorted
<1>11. \A i \in 1..n : t[i] \in S /\ rank[t[i]] = i - 1
  <2> SUFFICES ASSUME NEW i \in 1..n PROVE t[i] \in S /\ rank[t[i]] = i - 1
    OBVIOUS
  <2>1. i - 1 \in 0..(n - 1)
    BY <1>1
  <2>2. \E a \in S : Cardinality(Lower(a)) = i - 1
    BY <1>6, <1>9, <2>1
  <2>3. t[i] = CHOOSE a \in S : Cardinality(Lower(a)) = i - 1
    <3> HIDE DEF t, Lower
    <3> QED BY <1>10
  <2> HIDE DEF t, Lower
  <2>4. t[i] \in S /\ Cardinality(Lower(t[i])) = i - 1
    BY <2>2, <2>3
  <2> QED BY <1>6, <2>4
<1>12. DOMAIN t = 1..n /\ t = [i \in 1..n |-> t[i]]
  <2> HIDE DEF t, Lower
  <2> QED BY <1>10
<1> HIDE DEF t, Lower, n
<1>13. t \in Seq(S) /\ Len(t) = n
  <2>1. t \in [1..n -> S]
    BY <1>11, <1>12
  <2>2. t \in Seq(S)
    BY <1>1, <2>1, SeqDef
  <2>3. Len(t) \in Nat /\ 1..Len(t) = 1..n
    BY <1>12, <2>2, LenProperties
  <2> QED BY <1>1, <2>2, <2>3
<1>14. ToSet(t) = S
  <2>1. \A a \in S : rank[a] + 1 \in 1..n /\ t[rank[a] + 1] = a
    <3> SUFFICES ASSUME NEW a \in S PROVE rank[a] + 1 \in 1..n /\ t[rank[a] + 1] = a
      OBVIOUS
    <3>1. rank[a] \in 0..(n - 1)
      BY <1>4
    <3>2. rank[a] + 1 \in 1..n /\ (rank[a] + 1) - 1 = rank[a]
      BY <1>1, <3>1
    <3> QED BY <1>5, <1>11, <3>2
  <2> QED BY <1>11, <1>12, <2>1 DEF ToSet
<1>15. ASSUME NEW i \in 1..n, NEW j \in 1..n, i < j PROVE Before(t[i], t[j])
  <2>1. t[i] \in S /\ t[j] \in S /\ rank[t[i]] = i - 1 /\ rank[t[j]] = j - 1
    BY <1>11
  <2>2. rank[t[i]] < rank[t[j]] /\ ~(rank[t[j]] < rank[t[i]])
    BY <1>15, <2>1
  <2>3. t[i] # t[j] /\ ~Before(t[j], t[i])
    BY <1>3, <1>15, <2>1, <2>2
  <2> QED BY <2>1, <2>3, BeforeIsTotal
<1> QED BY <1>13, <1>14, <1>15 DEF t

-----------------------------------------------------------------------------
(* The action of a phase. *)

\* The actions of the filters that ran, as functions of their place.
MarksOf(fl) == [k \in 1..Len(fl.ran) |-> ActionOf(fl.ran[k], fl.phase, Seen(fl)).marks]
JobsOf(fl)  == [k \in 1..Len(fl.ran) |-> ActionOf(fl.ran[k], fl.phase, Seen(fl)).jobs]
Patching(fl) == {k \in 1..Len(fl.ran) : ActionOf(fl.ran[k], fl.phase, Seen(fl)).patch # None}

\* Merged, in those terms.
LEMMA MergedMeans ==
    ASSUME NEW fl, Len(fl.ran) \in Nat
    PROVE  Merged(fl) <=>
            /\ fl.action.patch = IF Patching(fl) = {} THEN None
                                 ELSE ActionOf(fl.ran[Max(Patching(fl))], fl.phase, Seen(fl)).patch
            /\ fl.action.marks = Joined(MarksOf(fl), Len(fl.ran))
            /\ fl.action.jobs = Joined(JobsOf(fl), Len(fl.ran))
            /\ fl.action.drop =
                 \E k \in 1..Len(fl.ran) : ActionOf(fl.ran[k], fl.phase, Seen(fl)).drop
<1> DEFINE n == Len(fl.ran)
           A(k) == ActionOf(fl.ran[k], fl.phase, Seen(fl))
           act == [k \in 1..n |-> A(k)]
<1>1. \A k \in 1..n : act[k] = A(k)
  OBVIOUS
<1>2. Patching(fl) = {k \in 1..n : act[k].patch # None}
  BY <1>1 DEF Patching
<1>3. Patching(fl) # {} => Max(Patching(fl)) \in 1..n
  <2>1. Patching(fl) \in SUBSET (1..n)
    BY DEF Patching
  <2> QED BY <2>1, MaxFacts
<1>4. [k \in 1..n |-> act[k].marks] = [k \in 1..n |-> MarksOf(fl)[k]]
  BY <1>1 DEF MarksOf
<1>5. [k \in 1..n |-> act[k].jobs] = [k \in 1..n |-> JobsOf(fl)[k]]
  BY <1>1 DEF JobsOf
<1>6. Merged(fl) <=>
        /\ fl.action.patch = IF Patching(fl) = {} THEN None ELSE act[Max(Patching(fl))].patch
        /\ fl.action.marks = FlattenSeq([k \in 1..n |-> act[k].marks])
        /\ fl.action.jobs = FlattenSeq([k \in 1..n |-> act[k].jobs])
        /\ fl.action.drop = \E k \in 1..n : act[k].drop
  BY <1>2 DEF Merged
<1> HIDE DEF act
<1>7. (\E k \in 1..n : act[k].drop) = (\E k \in 1..n : A(k).drop)
  BY <1>1
<1>8. FlattenSeq([k \in 1..n |-> act[k].marks]) = Joined(MarksOf(fl), n)
  BY <1>4 DEF Joined
<1>9. FlattenSeq([k \in 1..n |-> act[k].jobs]) = Joined(JobsOf(fl), n)
  BY <1>5 DEF Joined
<1>10. Patching(fl) # {} => act[Max(Patching(fl))] = A(Max(Patching(fl)))
  BY <1>1, <1>3
<1> QED BY <1>6, <1>7, <1>8, <1>9, <1>10

\* The marks and the jobs are sequences.
LEMMA MergedSeqs ==
    ASSUME NEW fl, NEW s, FilterSetOK(s), fl.ran \in Seq(s), fl.phase \in Phases
    PROVE  /\ \A k \in 1..Len(fl.ran) : IsSeq(MarksOf(fl)[k]) /\ IsSeq(JobsOf(fl)[k])
           /\ IsSeq(Joined(MarksOf(fl), Len(fl.ran))) /\ IsSeq(Joined(JobsOf(fl), Len(fl.ran)))
<1>1. Len(fl.ran) \in Nat /\ \A k \in 1..Len(fl.ran) : fl.ran[k] \in s
  BY LenProperties, ElementOfSeq
<1>2. \A k \in 1..Len(fl.ran) : IsSeq(MarksOf(fl)[k]) /\ IsSeq(JobsOf(fl)[k])
  BY <1>1, ActionIsGood DEF MarksOf, JobsOf, GoodAction
<1> QED BY <1>1, <1>2, JoinedIsSeq

\* Before any filter has run the action is that of none.
LEMMA MergedNothing ==
    ASSUME NEW fl, fl.ran = <<>>, fl.action = Pass
    PROVE  Merged(fl)
<1>1. Len(fl.ran) = 0 /\ 1..Len(fl.ran) = {}
  OBVIOUS
<1>2. Patching(fl) = {}
  BY <1>1 DEF Patching
<1>3. ~ \E k \in 1..Len(fl.ran) : ActionOf(fl.ran[k], fl.phase, Seen(fl)).drop
  BY <1>1
<1>4. fl.action.patch = None /\ fl.action.marks = <<>> /\ fl.action.jobs = <<>>
  BY DEF Pass
<1>5. fl.action.drop = FALSE
  BY DEF Pass
<1>6. Joined(MarksOf(fl), Len(fl.ran)) = <<>> /\ Joined(JobsOf(fl), Len(fl.ran)) = <<>>
  BY <1>1, JoinedNothing
<1>7. Len(fl.ran) \in Nat
  BY <1>1
<1> QED BY <1>2, <1>3, <1>4, <1>5, <1>6, <1>7, MergedMeans

\* merge_request_action and the like: with one filter more, the action is still that
\* of those that ran.
LEMMA MergedStep ==
    ASSUME NEW fl, NEW fl2, NEW s, FilterSetOK(s), NEW a \in s,
           fl.ran \in Seq(s), fl.phase \in Phases, Merged(fl),
           fl2.phase = fl.phase, Seen(fl2) = Seen(fl), fl2.ran = Append(fl.ran, a),
           fl2.action = MergeAction(fl.action, ActionOf(a, fl.phase, Seen(fl)))
    PROVE  Merged(fl2)
<1> DEFINE n == Len(fl.ran)
           A(k) == ActionOf(fl2.ran[k], fl.phase, Seen(fl))
           new == ActionOf(a, fl.phase, Seen(fl))
<1>1. /\ n \in Nat /\ fl2.ran \in Seq(s) /\ Len(fl2.ran) = n + 1 /\ fl2.ran[n + 1] = a
      /\ \A k \in 1..n : fl2.ran[k] = fl.ran[k]
  BY LenProperties, AppendProperties
<1>2. 1..(n + 1) = (1..n) \cup {n + 1} /\ n + 1 \notin 1..n
  <2> HIDE DEF n
  <2> QED BY <1>1
<1>3. A(n + 1) = new /\ \A k \in 1..n : A(k) = ActionOf(fl.ran[k], fl.phase, Seen(fl))
  BY <1>1
<1>4. /\ fl2.action.patch = IF new.patch # None THEN new.patch ELSE fl.action.patch
      /\ fl2.action.marks = fl.action.marks \o new.marks
      /\ fl2.action.jobs = fl.action.jobs \o new.jobs
      /\ fl2.action.drop = (fl.action.drop \/ new.drop)
  <2> HIDE DEF new
  <2>1. fl2.action = MergeAction(fl.action, new)
    BY DEF new
  <2> DEFINE marks == fl.action.marks \o new.marks
             jobs == fl.action.jobs \o new.jobs
  <2>2. fl2.action =
          [patch     |-> IF new.patch # None THEN new.patch ELSE fl.action.patch,
           synthetic |-> IF new.synthetic # None THEN new.synthetic ELSE fl.action.synthetic,
           marks     |-> marks, jobs |-> jobs,
           reject    |-> IF new.reject # None THEN new.reject ELSE fl.action.reject,
           drop      |-> fl.action.drop \/ new.drop, cont |-> new.cont]
    BY <2>1 DEF MergeAction
  <2> HIDE DEF marks, jobs
  <2>3. /\ fl2.action.patch = IF new.patch # None THEN new.patch ELSE fl.action.patch
        /\ fl2.action.marks = marks /\ fl2.action.jobs = jobs
    BY <2>2
  <2>4. fl2.action.drop = (fl.action.drop \/ new.drop)
    BY <2>2
  <2> QED BY <2>3, <2>4 DEF marks, jobs
<1>5. /\ fl.action.patch = IF Patching(fl) = {} THEN None
                           ELSE ActionOf(fl.ran[Max(Patching(fl))], fl.phase, Seen(fl)).patch
      /\ fl.action.marks = Joined(MarksOf(fl), n)
      /\ fl.action.jobs = Joined(JobsOf(fl), n)
      /\ fl.action.drop = \E k \in 1..n : ActionOf(fl.ran[k], fl.phase, Seen(fl)).drop
  BY <1>1, MergedMeans
<1>6. fl2.action.marks = Joined(MarksOf(fl2), n + 1)
  <2>1. MarksOf(fl2)[n + 1] = new.marks /\ \A k \in 1..n : MarksOf(fl2)[k] = MarksOf(fl)[k]
    BY <1>1, <1>2, <1>3 DEF MarksOf
  <2>2. [k \in 1..n |-> MarksOf(fl2)[k]] = [k \in 1..n |-> MarksOf(fl)[k]]
    BY <2>1
  <2>3. Joined(MarksOf(fl2), n) = Joined(MarksOf(fl), n)
    BY <2>2 DEF Joined
  <2>4. \A k \in 1..(n + 1) : IsSeq(MarksOf(fl2)[k])
    BY <1>1, MergedSeqs
  <2>5. Joined(MarksOf(fl2), n + 1) = Joined(MarksOf(fl2), n) \o MarksOf(fl2)[n + 1]
    BY <1>1, <2>4, JoinedStep
  <2> QED BY <1>4, <1>5, <2>1, <2>3, <2>5
<1>7. fl2.action.jobs = Joined(JobsOf(fl2), n + 1)
  <2>1. JobsOf(fl2)[n + 1] = new.jobs /\ \A k \in 1..n : JobsOf(fl2)[k] = JobsOf(fl)[k]
    BY <1>1, <1>2, <1>3 DEF JobsOf
  <2>2. [k \in 1..n |-> JobsOf(fl2)[k]] = [k \in 1..n |-> JobsOf(fl)[k]]
    BY <2>1
  <2>3. Joined(JobsOf(fl2), n) = Joined(JobsOf(fl), n)
    BY <2>2 DEF Joined
  <2>4. \A k \in 1..(n + 1) : IsSeq(JobsOf(fl2)[k])
    BY <1>1, MergedSeqs
  <2>5. Joined(JobsOf(fl2), n + 1) = Joined(JobsOf(fl2), n) \o JobsOf(fl2)[n + 1]
    BY <1>1, <2>4, JoinedStep
  <2> QED BY <1>4, <1>5, <2>1, <2>3, <2>5
<1>8. Patching(fl2) = {k \in 1..(n + 1) : A(k).patch # None} /\ Patching(fl2) \in SUBSET (1..(n + 1))
  BY <1>1 DEF Patching
<1>9. Patching(fl) = {k \in 1..n : A(k).patch # None} /\ Patching(fl) \in SUBSET (1..n)
  BY <1>1, <1>3 DEF Patching
<1>10. fl2.action.drop = \E k \in 1..(n + 1) : A(k).drop
  <2>1. new.drop \in BOOLEAN
    BY ActionIsGood DEF GoodAction
  <2> HIDE DEF n, A, new
  <2>2. fl.action.drop = \E k \in 1..n : A(k).drop
    BY <1>3, <1>5 DEF A
  <2>3. (\E k \in 1..(n + 1) : A(k).drop) <=> (\E k \in 1..n : A(k).drop) \/ A(n + 1).drop
    BY <1>2
  <2> QED BY <1>3, <1>4, <2>1, <2>2, <2>3
<1>11. fl2.action.patch = IF Patching(fl2) = {} THEN None ELSE A(Max(Patching(fl2))).patch
  <2>1. CASE new.patch # None
    <3>1. n + 1 \in Patching(fl2)
      <4> HIDE DEF n, A
      <4> QED BY <1>2, <1>3, <1>8, <2>1
    <3>2. Max(Patching(fl2)) \in 1..(n + 1) /\ Max(Patching(fl2)) >= n + 1
      <4>1. n + 1 \in Nat
        BY <1>1
      <4> HIDE DEF n
      <4>2. Max(Patching(fl2)) \in Patching(fl2) /\ n + 1 <= Max(Patching(fl2))
        BY <1>8, <3>1, <4>1, MaxFacts
      <4> QED BY <1>1, <1>8, <4>2
    <3>3. Max(Patching(fl2)) = n + 1
      <4> HIDE DEF n
      <4> QED BY <1>1, <3>2
    <3> QED BY <1>3, <1>4, <2>1, <3>1, <3>3
  <2>2. CASE new.patch = None
    <3>1. Patching(fl2) = Patching(fl)
      <4> HIDE DEF n, A
      <4> QED BY <1>2, <1>3, <1>8, <1>9, <2>2
    <3>2. Patching(fl) # {} => Max(Patching(fl)) \in 1..n
      BY <1>1, <1>9, MaxFacts
    <3> QED BY <1>3, <1>4, <1>5, <2>2, <3>1, <3>2
  <2> QED BY <2>1, <2>2
<1>12. Len(fl2.ran) \in Nat /\ Len(fl2.ran) = n + 1
  BY <1>1
<1> HIDE DEF n
<1> QED BY <1>6, <1>7, <1>10, <1>11, <1>12, MergedMeans

-----------------------------------------------------------------------------
(* The channel of the outbound worker. *)

\* What every job that is queued keeps.
GoodQueue(q) ==
    IsSeq(q) /\ Len(q) <= QueueSize /\ \A job \in ToSet(q) : job.client \in Clients

Enqueued(p, q, job) == TryEnqueue(q, job)

Queueing == INSTANCE FoldTheorems WITH FoldOp <- Enqueued, FoldKept <- GoodQueue

\* OutboundHttpClientPool::try_enqueue keeps the bound and the clients.
LEMMA EnqueueIsGood ==
    ASSUME NEW q, GoodQueue(q), NEW job
    PROVE  GoodQueue(TryEnqueue(q, job))
<1>1. CASE job.client \in Clients /\ Len(q) < QueueSize
  <2>1. TryEnqueue(q, job) = Append(q, job)
    BY <1>1 DEF TryEnqueue
  <2>2. /\ IsSeq(Append(q, job)) /\ Len(Append(q, job)) = Len(q) + 1 /\ Len(q) \in Nat
        /\ ToSet(Append(q, job)) \subseteq ToSet(q) \cup {job}
    BY AppendedSeq DEF GoodQueue
  <2> QED BY <1>1, <2>1, <2>2, ConstantsAssumption DEF GoodQueue
<1>2. CASE ~(job.client \in Clients /\ Len(q) < QueueSize)
  BY <1>2 DEF TryEnqueue
<1> QED BY <1>1, <1>2

\* So do all the jobs of a response.
LEMMA QueueIsGood ==
    ASSUME NEW q, GoodQueue(q), NEW jobs, NEW n \in Nat, DOMAIN jobs = 1..n
    PROVE  GoodQueue(FoldLeft(TryEnqueue, q, jobs))
<1>1. FoldLeft(TryEnqueue, q, jobs) = Queueing!FoldOf(0, q, jobs)[DOMAIN jobs]
  BY DEF FoldLeft, MapThenFoldSet, Max, Enqueued, Queueing!FoldOf, Queueing!IsFold,
         Queueing!FoldTurn, Queueing!Max
<1>2. \A x : \A i \in 1..n : GoodQueue(x) => GoodQueue(Enqueued(0, x, jobs[i]))
  BY EnqueueIsGood DEF Enqueued
<1> QED BY <1>1, <1>2, Queueing!FoldKeeps

-----------------------------------------------------------------------------
(* The invariant, one flow at a time. *)

RanInOrder(f, fl) ==
    /\ fl.set \in FilterSets \cup {{}} /\ fl.phase \in Phases
    /\ fl.ran \in Seq(fl.set) /\ fl.rest \in Seq(fl.set)
    /\ fl.ran \o fl.rest = Matching(fl.set, fl.phase, Traffic[f])

Running(fl) ==
    /\ \A k \in 1..(Len(fl.ran) - 1) : ~Stops(fl.ran[k], fl)
    /\ fl.action.cont = (fl.ran = <<>> \/ ~Stops(fl.ran[Len(fl.ran)], fl))
    /\ Merged(fl)

FlowOK(f, fl) ==
    /\ DOMAIN fl = FlowFields /\ fl.pc \in StageNames
    /\ RanInOrder(f, fl) /\ (fl.pc = "filters" => Running(fl)) /\ CleanFlow(fl)

\* The invariant says the same of every flow.
LEMMA ByFlow ==
    ChainInv <=> /\ installed \in FilterSets /\ GoodQueue(queue)
                 /\ \A job \in running : job.client \in Clients
                 /\ DOMAIN flow = Flows /\ \A f \in Flows : FlowOK(f, flow[f])
BY DEF ChainInv, FlowShape, OrderInv, RunInv, QueueInv, NoStaleIntegrity, FlowOK, RanInOrder,
       Running, CleanFlow, Clean, GoodQueue, IsSeq

\* No filters are a set of filters too.
LEMMA NoFilters ==
    ASSUME NEW s \in FilterSets \cup {{}}
    PROVE  FilterSetOK(s)
<1>1. FilterSetOK({})
  BY FS_EmptySet DEF FilterSetOK
<1> QED BY <1>1, ConstantsAssumption

\* Those that match, in their order.
LEMMA MatchingFacts ==
    ASSUME NEW s, FilterSetOK(s), NEW phase, NEW t
    PROVE  /\ Matching(s, phase, t) \in Seq(s)
           /\ ToSet(Matching(s, phase, t)) = {a \in s : MatchesTrigger(a, phase, t)}
           /\ \A i, j \in 1..Len(Matching(s, phase, t)) :
                 i < j => Before(Matching(s, phase, t)[i], Matching(s, phase, t)[j])
<1> DEFINE S == {a \in s : MatchesTrigger(a, phase, t)}
<1>1. S \in SUBSET s /\ Matching(s, phase, t) = Sorted(S)
  BY DEF Matching
<1> HIDE DEF S
<1>2. Sorted(S) \in Seq(s)
  BY <1>1, SortedFacts, SeqMonotonic
<1> QED BY <1>1, <1>2, SortedFacts DEF S

\* A flow begins.
LEMMA StartOK ==
    ASSUME NEW f \in Flows
    PROVE  FlowOK(f, Start(f))
<1> DEFINE fl == Start(f)
<1>1. /\ DOMAIN fl = FlowFields /\ fl.pc \in {"connect", "request"} /\ fl.phase = "connect"
      /\ fl.set = {} /\ fl.ran = <<>> /\ fl.rest = <<>>
  BY DEF Start, FlowFields
<1> HIDE DEF fl
<1>2. Matching({}, "connect", Traffic[f]) = <<>>
  <2>1. Matching({}, "connect", Traffic[f]) \in Seq({})
    BY NoFilters, MatchingFacts
  <2> QED BY <2>1
<1>3. <<>> \in Seq({}) /\ <<>> \o <<>> = <<>>
  OBVIOUS
<1>4. RanInOrder(f, fl)
  BY <1>1, <1>2, <1>3 DEF RanInOrder, Phases
<1>5. fl.pc \in StageNames /\ fl.pc # "filters" /\ CleanFlow(fl)
  BY <1>1 DEF StageNames, Phases, CleanFlow
<1> QED BY <1>1, <1>4, <1>5 DEF FlowOK, fl

\* A flow enters a phase.
LEMMA EnterOK ==
    ASSUME NEW f \in Flows, NEW fl, FlowOK(f, fl), installed \in FilterSets, NEW phase \in Phases
    PROVE  FlowOK(f, Enter(fl, f, phase))
<1> DEFINE new == Enter(fl, f, phase)
           M == Matching(installed, phase, Traffic[f])
<1>1. /\ DOMAIN new = FlowFields /\ new.pc = "filters" /\ new.phase = phase
      /\ new.set = installed /\ new.ran = <<>> /\ new.rest = M /\ new.action = Pass
  <2>1. DOMAIN fl = FlowFields
    BY DEF FlowOK
  <2> HIDE DEF M
  <2>2. new = [fl EXCEPT !.pc = "filters", !.phase = phase, !.set = installed, !.rest = M,
                         !.ran = <<>>, !.action = Pass]
    BY DEF Enter, M
  <2> QED BY <2>1, <2>2 DEF FlowFields
<1>2. M \in Seq(installed)
  BY NoFilters, MatchingFacts
<1> HIDE DEF new, M
<1>3. <<>> \in Seq(installed) /\ <<>> \o M = M
  BY <1>2, ConcatEmptySeq, EmptySeq
<1>4. RanInOrder(f, new)
  BY <1>1, <1>2, <1>3 DEF RanInOrder, M
<1>5. Running(new)
  <2>1. Merged(new)
    BY <1>1, MergedNothing
  <2>2. new.action.cont = TRUE /\ 1..(Len(new.ran) - 1) = {}
    BY <1>1 DEF Pass
  <2> QED BY <1>1, <2>1, <2>2 DEF Running
<1>6. CleanFlow(new) /\ new.pc \in StageNames
  BY <1>1 DEF CleanFlow, StageNames
<1> QED BY <1>1, <1>4, <1>5, <1>6 DEF FlowOK, new

\* A flow moves on, the filters of the phase behind it.
LEMMA MoveOK ==
    ASSUME NEW f \in Flows, NEW fl, FlowOK(f, fl), NEW new, DOMAIN new = FlowFields,
           new.pc \in StageNames \ {"filters"}, new.set = fl.set, new.phase = fl.phase,
           new.ran = fl.ran, new.rest = fl.rest, CleanFlow(new)
    PROVE  FlowOK(f, new)
<1>1. RanInOrder(f, new)
  BY DEF FlowOK, RanInOrder
<1> QED BY <1>1 DEF FlowOK

\* The first of the rest goes to the end of what has run.
LEMMA NextOfRest ==
    ASSUME NEW S, NEW s \in Seq(S), NEW r \in Seq(S), r # <<>>
    PROVE  /\ Head(r) \in S /\ Append(s, Head(r)) \in Seq(S) /\ Tail(r) \in Seq(S)
           /\ Append(s, Head(r)) \o Tail(r) = s \o r
<1>1. /\ Head(r) \in S /\ Tail(r) \in Seq(S) /\ Len(Tail(r)) = Len(r) - 1
      /\ \A i \in 1..(Len(r) - 1) : Tail(r)[i] = r[i + 1]
  BY HeadTailProperties
<1>2. Len(r) \in Nat \ {0} /\ Len(s) \in Nat /\ Head(r) = r[1]
  BY EmptySeq, LenProperties
<1> DEFINE a == Head(r)
           u == Append(s, a)
           v == Tail(r)
<1>3. /\ u \in Seq(S) /\ Len(u) = Len(s) + 1 /\ u[Len(s) + 1] = a
      /\ \A i \in 1..Len(s) : u[i] = s[i]
  BY <1>1, AppendProperties
<1>4. /\ u \o v \in Seq(S) /\ Len(u \o v) = Len(u) + Len(v)
      /\ \A i \in 1..(Len(u) + Len(v)) : (u \o v)[i] = IF i <= Len(u) THEN u[i] ELSE v[i - Len(u)]
  BY <1>1, <1>3, ConcatProperties
<1>5. /\ s \o r \in Seq(S) /\ Len(s \o r) = Len(s) + Len(r)
      /\ \A i \in 1..(Len(s) + Len(r)) : (s \o r)[i] = IF i <= Len(s) THEN s[i] ELSE r[i - Len(s)]
  BY ConcatProperties
<1> DEFINE x == u \o v
           y == s \o r
           n == Len(s)
           m == Len(r)
<1>6. Len(x) = Len(y) /\ Len(y) = n + m
  <2>1. Len(x) = (n + 1) + (m - 1)
    BY <1>1, <1>3, <1>4
  <2> QED BY <1>2, <1>5, <2>1
<1>7. ASSUME NEW i \in 1..Len(x) PROVE x[i] = y[i]
  <2>0. i \in 1..(n + m) /\ Len(u) = n + 1 /\ Len(v) = m - 1
    BY <1>1, <1>3, <1>6
  <2>1. /\ x[i] = IF i <= n + 1 THEN u[i] ELSE v[i - (n + 1)]
        /\ y[i] = IF i <= n THEN s[i] ELSE r[i - n]
    <3>1. i \in 1..(Len(u) + Len(v)) /\ i \in 1..(Len(s) + Len(r))
      BY <1>2, <2>0
    <3> QED BY <1>4, <1>5, <2>0, <3>1
  <2>2. u[n + 1] = r[1] /\ (\A k \in 1..n : u[k] = s[k]) /\ \A k \in 1..(m - 1) : v[k] = r[k + 1]
    BY <1>1, <1>2, <1>3
  <2>3. n \in Nat /\ m \in Nat \ {0}
    BY <1>2
  <2> HIDE DEF x, y, u, v, n, m
  <2>4. CASE i <= n
    <3>1. i \in 1..n /\ i <= n + 1
      BY <2>0, <2>3, <2>4
    <3> QED BY <2>1, <2>2, <2>4, <3>1
  <2>5. CASE i = n + 1
    <3>1. i <= n + 1 /\ ~(i <= n) /\ i - n = 1
      BY <2>3, <2>5
    <3> QED BY <2>1, <2>2, <2>5, <3>1
  <2>6. CASE i > n + 1
    <3>1. ~(i <= n + 1) /\ ~(i <= n) /\ i - (n + 1) \in 1..(m - 1) /\ (i - (n + 1)) + 1 = i - n
      BY <2>0, <2>3, <2>6
    <3> QED BY <2>1, <2>2, <3>1
  <2> QED BY <2>0, <2>3, <2>4, <2>5, <2>6
<1>8. x = y
  <2> HIDE DEF x, y
  <2>1. x \in Seq(S) /\ y \in Seq(S)
    BY <1>4, <1>5 DEF x, y
  <2> QED BY <1>6, <1>7, <2>1, SeqEqual
<1> QED BY <1>1, <1>3, <1>8

\* The next filter runs.
LEMMA RunOK ==
    ASSUME NEW f \in Flows, NEW fl, FlowOK(f, fl), fl.pc = "filters", ~PhaseDone(fl), NEW new,
           new = [fl EXCEPT !.rest = Tail(@), !.ran = Append(@, Head(fl.rest)),
                            !.action = MergeAction(@, ActionOf(Head(fl.rest), fl.phase, Seen(fl)))]
    PROVE  FlowOK(f, new)
<1> DEFINE a == Head(fl.rest)
           act == ActionOf(a, fl.phase, Seen(fl))
           s == fl.set
           n == Len(fl.ran)
<1>1. /\ DOMAIN fl = FlowFields /\ RanInOrder(f, fl) /\ Running(fl)
      /\ fl.rest # <<>> /\ fl.action.cont
  BY DEF FlowOK, PhaseDone
<1>2. FilterSetOK(s) /\ fl.phase \in Phases /\ fl.ran \in Seq(s) /\ fl.rest \in Seq(s)
  BY <1>1, NoFilters DEF RanInOrder
<1>3. /\ a \in s /\ Append(fl.ran, a) \in Seq(s) /\ Tail(fl.rest) \in Seq(s)
      /\ Append(fl.ran, a) \o Tail(fl.rest) = fl.ran \o fl.rest
  <2>1. \A q, r \in Seq(s) : r # <<>> =>
            /\ Head(r) \in s /\ Append(q, Head(r)) \in Seq(s) /\ Tail(r) \in Seq(s)
            /\ Append(q, Head(r)) \o Tail(r) = q \o r
    BY NextOfRest
  <2> HIDE DEF s
  <2> QED BY <1>1, <1>2, <2>1
<1>4. /\ DOMAIN new = FlowFields /\ new.pc = "filters" /\ new.phase = fl.phase /\ new.set = s
      /\ new.ran = Append(fl.ran, a) /\ new.rest = Tail(fl.rest)
      /\ new.action = MergeAction(fl.action, act) /\ new.req = fl.req /\ new.res = fl.res
  <2> HIDE DEF a, act
  <2>1. new = [fl EXCEPT !.rest = Tail(fl.rest), !.ran = Append(fl.ran, a),
                         !.action = MergeAction(fl.action, act)]
    BY <1>1 DEF a, act, FlowFields
  <2> QED BY <1>1, <2>1 DEF FlowFields
<1>5. Seen(new) = Seen(fl)
  BY <1>4 DEF Seen
<1> HIDE DEF a
<1>6. RanInOrder(f, new)
  BY <1>1, <1>3, <1>4 DEF RanInOrder
<1>7. Merged(new)
  BY <1>1, <1>2, <1>3, <1>4, <1>5, MergedStep DEF Running
<1>8. /\ n \in Nat /\ Len(new.ran) = n + 1 /\ new.ran[n + 1] = a /\ new.ran # <<>>
      /\ \A k \in 1..n : new.ran[k] = fl.ran[k]
  BY <1>2, <1>3, <1>4, LenProperties, AppendProperties
<1>9. \A b : Stops(b, new) = Stops(b, fl)
  BY <1>4, <1>5 DEF Stops
<1>10. \A k \in 1..n : ~Stops(fl.ran[k], fl)
  <2>1. fl.ran = <<>> \/ ~Stops(fl.ran[n], fl)
    BY <1>1 DEF Running
  <2>2. \A k \in 1..(n - 1) : ~Stops(fl.ran[k], fl)
    BY <1>1 DEF Running
  <2>3. fl.ran = <<>> => n = 0
    OBVIOUS
  <2> HIDE DEF n
  <2>4. \A k \in 1..n : k = n \/ k \in 1..(n - 1)
    BY <1>8
  <2> QED BY <1>8, <2>1, <2>2, <2>3, <2>4
<1>11. new.action.cont = act.cont
  <2> HIDE DEF act
  <2> QED BY <1>4 DEF MergeAction
<1>12. act.cont \in BOOLEAN /\ (Stops(a, new) <=> ~act.cont)
  <2>1. act.cont \in BOOLEAN
    BY <1>2, <1>3, ActionIsGood
  <2> QED BY <1>9, <2>1 DEF Stops
<1>13. new.action.cont = (new.ran = <<>> \/ ~Stops(new.ran[Len(new.ran)], new))
  <2> HIDE DEF act
  <2> QED BY <1>8, <1>11, <1>12
<1>14. \A k \in 1..(Len(new.ran) - 1) : ~Stops(new.ran[k], new)
  <2>1. 1..(Len(new.ran) - 1) = 1..n
    BY <1>8
  <2> QED BY <1>8, <1>9, <1>10, <2>1
<1>15. Running(new)
  BY <1>7, <1>13, <1>14 DEF Running
<1> QED BY <1>4, <1>6, <1>15 DEF FlowOK, CleanFlow, StageNames

-----------------------------------------------------------------------------
(* The invariant holds. *)

\* A step of a flow leaves the others alone.
LEMMA OneFlow ==
    ASSUME DOMAIN flow = Flows, \A g \in Flows : FlowOK(g, flow[g]),
           NEW f \in Flows, NEW new, FlowOK(f, new), flow' = [flow EXCEPT ![f] = new]
    PROVE  DOMAIN flow' = Flows /\ \A g \in Flows : FlowOK(g, flow'[g])
OBVIOUS

\* The first states have it.
LEMMA InitOK == Init => ChainInv
<1> SUFFICES ASSUME Init PROVE ChainInv
  OBVIOUS
<1>1. GoodQueue(queue)
  BY EmptyIsSeq, ConstantsAssumption DEF Init, GoodQueue
<1>2. DOMAIN flow = Flows /\ \A f \in Flows : FlowOK(f, flow[f])
  BY StartOK DEF Init
<1> QED BY <1>1, <1>2, ByFlow DEF Init

\* Every step keeps it.
LEMMA NextOK == ChainInv /\ [Next]_vars => ChainInv'
<1> SUFFICES ASSUME ChainInv, [Next]_vars PROVE ChainInv'
  OBVIOUS
<1>0. /\ installed \in FilterSets /\ GoodQueue(queue)
      /\ \A job \in running : job.client \in Clients
      /\ DOMAIN flow = Flows /\ \A f \in Flows : FlowOK(f, flow[f])
  BY ByFlow
<1>1. SUFFICES /\ installed' \in FilterSets /\ GoodQueue(queue')
               /\ \A job \in running' : job.client \in Clients
               /\ DOMAIN flow' = Flows /\ \A f \in Flows : FlowOK(f, flow'[f])
  <2>1. (ChainInv <=> /\ installed \in FilterSets /\ GoodQueue(queue)
                      /\ \A job \in running : job.client \in Clients
                      /\ DOMAIN flow = Flows /\ \A f \in Flows : FlowOK(f, flow[f]))'
    BY ByFlow, PTL
  <2> QED BY <2>1
<1>2. CASE Reload
  BY <1>0, <1>2 DEF Reload
<1>3. ASSUME NEW f \in Flows, NEW new, FlowOK(f, new), flow' = [flow EXCEPT ![f] = new]
      PROVE  DOMAIN flow' = Flows /\ \A g \in Flows : FlowOK(g, flow'[g])
  BY <1>0, <1>3, OneFlow
<1>4. ASSUME NEW f \in Flows, EnterPhase(f)
      PROVE  DOMAIN flow' = Flows /\ \A g \in Flows : FlowOK(g, flow'[g])
  <2>1. FlowOK(f, Enter(flow[f], f, flow[f].pc))
    BY <1>0, <1>4, EnterOK DEF EnterPhase
  <2> QED BY <1>3, <1>4, <2>1 DEF EnterPhase
<1>5. ASSUME NEW f \in Flows, RunFilter(f)
      PROVE  DOMAIN flow' = Flows /\ \A g \in Flows : FlowOK(g, flow'[g])
  <2> DEFINE act == ActionOf(Head(flow[f].rest), flow[f].phase, Seen(flow[f]))
             new == [flow[f] EXCEPT !.rest = Tail(@), !.ran = Append(@, Head(flow[f].rest)),
                                    !.action = MergeAction(@, act)]
  <2>1. FlowOK(f, new)
    BY <1>0, <1>5, RunOK DEF RunFilter
  <2>2. flow' = [flow EXCEPT ![f].rest = Tail(@), ![f].ran = Append(@, Head(flow[f].rest)),
                             ![f].action = MergeAction(@, act)]
    BY <1>5 DEF RunFilter
  <2>3. flow' = [flow EXCEPT ![f] = new]
    <3> HIDE DEF act
    <3> QED BY <1>0, <2>2
  <2> HIDE DEF new
  <2> QED BY <1>3, <2>1, <2>3
<1>6. ASSUME NEW f \in Flows, ConnectDone(f)
      PROVE  DOMAIN flow' = Flows /\ \A g \in Flows : FlowOK(g, flow'[g])
  <2> DEFINE status == SetStatus(403, flow[f].action.reject)
             new == IF flow[f].action.drop
                    THEN [flow[f] EXCEPT !.pc = "done", !.answer = Closed(status)]
                    ELSE [flow[f] EXCEPT !.pc = "request"]
  <2>1. flow' = [flow EXCEPT ![f] = new]
    BY <1>6 DEF ConnectDone
  <2>2. DOMAIN flow[f] = FlowFields
    BY <1>0 DEF FlowOK
  <2> HIDE DEF status
  <2>3. /\ DOMAIN new = FlowFields /\ new.set = flow[f].set /\ new.phase = flow[f].phase
        /\ new.ran = flow[f].ran /\ new.rest = flow[f].rest
        /\ \/ new.pc = "done" /\ new.answer = Closed(status)
           \/ new.pc = "request"
    BY <2>2 DEF FlowFields
  <2> HIDE DEF new
  <2>4. CleanFlow(new)
    BY <2>3, ClosedIsClean DEF CleanFlow
  <2>5. FlowOK(f, new)
    BY <1>0, <2>3, <2>4, MoveOK DEF StageNames, Phases
  <2> QED BY <1>3, <2>1, <2>5
<1>7. ASSUME NEW f \in Flows, RequestDone(f)
      PROVE  DOMAIN flow' = Flows /\ \A g \in Flows : FlowOK(g, flow'[g])
  <2> DEFINE effective == Patched(flow[f].req, flow[f].action)
  <2>1. PICK synthetic :
            flow' = [flow EXCEPT ![f] =
                        IF flow[f].action.drop
                        THEN [flow[f] EXCEPT !.effective = effective, !.pc = "done",
                                             !.answer = Closed(444)]
                        ELSE IF flow[f].action.synthetic # None
                        THEN [flow[f] EXCEPT !.effective = effective, !.pc = "response",
                                             !.res = synthetic]
                        ELSE [flow[f] EXCEPT !.effective = effective, !.pc = "upstream"]]
    BY <1>7, Zenon DEF RequestDone
  <2>2. DOMAIN flow[f] = FlowFields
    BY <1>0 DEF FlowOK
  <2>3. Clean(effective, flow[f].req)
    BY PatchIsClean
  <2> HIDE DEF effective
  <2> DEFINE new == IF flow[f].action.drop
                    THEN [flow[f] EXCEPT !.effective = effective, !.pc = "done",
                                         !.answer = Closed(444)]
                    ELSE IF flow[f].action.synthetic # None
                    THEN [flow[f] EXCEPT !.effective = effective, !.pc = "response",
                                         !.res = synthetic]
                    ELSE [flow[f] EXCEPT !.effective = effective, !.pc = "upstream"]
  <2>4. /\ DOMAIN new = FlowFields /\ new.set = flow[f].set /\ new.phase = flow[f].phase
        /\ new.ran = flow[f].ran /\ new.rest = flow[f].rest /\ new.req = flow[f].req
        /\ new.effective = effective
        /\ \/ new.pc = "done" /\ new.answer = Closed(444)
           \/ new.pc \in {"response", "upstream"}
    BY <2>2 DEF FlowFields
  <2>5. flow' = [flow EXCEPT ![f] = new]
    BY <2>1
  <2> HIDE DEF new
  <2>6. CleanFlow(new)
    BY <2>3, <2>4, ClosedIsClean DEF CleanFlow
  <2>7. FlowOK(f, new)
    BY <1>0, <2>4, <2>6, MoveOK DEF StageNames, Phases
  <2> QED BY <1>3, <2>5, <2>7
<1>8. ASSUME NEW f \in Flows, Upstream(f)
      PROVE  DOMAIN flow' = Flows /\ \A g \in Flows : FlowOK(g, flow'[g])
  <2>1. PICK r \in Responses : flow' = [flow EXCEPT ![f].pc = "response", ![f].res = r]
    BY <1>8 DEF Upstream
  <2> DEFINE new == [flow[f] EXCEPT !.pc = "response", !.res = r]
  <2>2. flow' = [flow EXCEPT ![f] = new]
    BY <1>0, <2>1
  <2>3. DOMAIN flow[f] = FlowFields /\ CleanFlow(flow[f]) /\ flow[f].pc = "upstream"
    BY <1>0, <1>8 DEF FlowOK, Upstream
  <2>4. /\ DOMAIN new = FlowFields /\ new.set = flow[f].set /\ new.phase = flow[f].phase
        /\ new.ran = flow[f].ran /\ new.rest = flow[f].rest /\ new.pc = "response"
        /\ new.effective = flow[f].effective /\ new.req = flow[f].req
    BY <2>3 DEF FlowFields
  <2> HIDE DEF new
  <2>5. CleanFlow(new)
    BY <2>3, <2>4 DEF CleanFlow
  <2>6. FlowOK(f, new)
    BY <1>0, <2>4, <2>5, MoveOK DEF StageNames, Phases
  <2> QED BY <1>3, <2>2, <2>6
<1>9. ASSUME NEW f \in Flows, ResponseDone(f)
      PROVE  DOMAIN flow' = Flows /\ (\A g \in Flows : FlowOK(g, flow'[g])) /\ GoodQueue(queue')
  <2> DEFINE res == Patched(flow[f].res, flow[f].action)
             answer == IF flow[f].action.drop THEN Closed(444) ELSE res
             new == [flow[f] EXCEPT !.pc = "done", !.answer = answer]
             n == Len(flow[f].action.jobs)
             jobs == [k \in 1..n |-> Resolve(flow[f].action.jobs[k], f, flow[f], res, k)]
  <2>1. /\ flow' = [flow EXCEPT ![f].pc = "done", ![f].answer = answer]
        /\ queue' = FoldLeft(TryEnqueue, queue, jobs) /\ flow[f].pc = "filters"
    BY <1>9 DEF ResponseDone
  <2>2. Clean(answer, flow[f].res)
    BY PatchIsClean, ClosedIsClean
  <2> HIDE DEF answer
  <2>3. flow' = [flow EXCEPT ![f] = new]
    BY <1>0, <2>1
  <2>4. DOMAIN flow[f] = FlowFields
    BY <1>0 DEF FlowOK
  <2>5. /\ DOMAIN new = FlowFields /\ new.set = flow[f].set /\ new.phase = flow[f].phase
        /\ new.ran = flow[f].ran /\ new.rest = flow[f].rest /\ new.pc = "done"
        /\ new.answer = answer /\ new.res = flow[f].res
    BY <2>4 DEF FlowFields
  <2> HIDE DEF new
  <2>6. CleanFlow(new)
    BY <2>2, <2>5 DEF CleanFlow
  <2>7. FlowOK(f, new)
    BY <1>0, <2>5, <2>6, MoveOK DEF StageNames, Phases
  <2>8. n \in Nat
    <3>1. /\ flow[f].set \in FilterSets \cup {{}} /\ flow[f].ran \in Seq(flow[f].set)
          /\ flow[f].phase \in Phases /\ Merged(flow[f])
      BY <1>0, <2>1 DEF FlowOK, RanInOrder, Running
    <3>2. FilterSetOK(flow[f].set)
      BY <3>1, NoFilters
    <3>3. Len(flow[f].ran) \in Nat
      BY <3>1, LenProperties
    <3>4. flow[f].action.jobs = Joined(JobsOf(flow[f]), Len(flow[f].ran))
      BY <3>1, <3>3, MergedMeans
    <3>5. IsSeq(flow[f].action.jobs)
      BY <3>1, <3>2, <3>4, MergedSeqs
    <3> QED BY <3>5, OwnElements DEF IsSeq
  <2>9. DOMAIN jobs = 1..n
    OBVIOUS
  <2> HIDE DEF jobs, n
  <2>10. GoodQueue(queue')
    BY <1>0, <2>1, <2>8, <2>9, QueueIsGood
  <2> QED BY <1>3, <2>3, <2>7, <2>10
<1>10. CASE StartJob
  <2>1. /\ queue # <<>> /\ running' = running \cup {Head(queue)} /\ queue' = Tail(queue)
        /\ installed' = installed /\ flow' = flow
    BY <1>10 DEF StartJob
  <2> DEFINE S == ToSet(queue)
  <2>2. queue \in Seq(S) /\ Len(queue) <= QueueSize /\ \A job \in S : job.client \in Clients
    BY <1>0 DEF GoodQueue, IsSeq
  <2> HIDE DEF S
  <2>3. Head(queue) \in S /\ Tail(queue) \in Seq(S) /\ Len(Tail(queue)) = Len(queue) - 1
    BY <2>1, <2>2, HeadTailProperties
  <2>4. IsSeq(Tail(queue)) /\ ToSet(Tail(queue)) \subseteq S /\ Len(queue) \in Nat
    BY <2>2, <2>3, OwnElements
  <2>5. GoodQueue(queue')
    BY <2>1, <2>2, <2>3, <2>4, ConstantsAssumption DEF GoodQueue
  <2> QED BY <1>0, <2>1, <2>2, <2>3, <2>5
<1>11. ASSUME NEW job \in running, EndJob(job)
       PROVE  /\ installed' = installed /\ flow' = flow /\ queue' = queue
              /\ running' \subseteq running
  BY <1>11 DEF EndJob
<1>12. ASSUME NEW f \in Flows, FlowStep(f)
       PROVE  /\ DOMAIN flow' = Flows /\ \A g \in Flows : FlowOK(g, flow'[g])
              /\ GoodQueue(queue') /\ running' = running /\ installed' = installed
  <2>1. running' = running /\ installed' = installed /\ (queue' = queue \/ ResponseDone(f))
    BY <1>12 DEF FlowStep, EnterPhase, RunFilter, ConnectDone, RequestDone, Upstream, ResponseDone
  <2> QED BY <1>0, <1>4, <1>5, <1>6, <1>7, <1>8, <1>9, <1>12, <2>1 DEF FlowStep
<1>13. CASE UNCHANGED vars
  BY <1>0, <1>13 DEF vars
<1> QED BY <1>0, <1>2, <1>10, <1>11, <1>12, <1>13 DEF Next

\* The inductive invariant of the chain holds in every state: for any traffic, any sets
\* of filters and any order of reloads.
THEOREM ChainInvariance == Spec => []ChainInv
BY InitOK, NextOK, PTL DEF Spec

\* Every flow keeps its shape, and runs filters of the set it entered the phase with;
\* the channel of the outbound worker never holds more than queue_size jobs.
THEOREM ChainTypes == Spec => []TypeOK
<1>1. ChainInv => TypeOK
  <2> SUFFICES ASSUME ChainInv PROVE TypeOK
    OBVIOUS
  <2>1. /\ installed \in FilterSets /\ DOMAIN flow = Flows
        /\ \A job \in running : job.client \in Clients
    BY ByFlow
  <2>2. Len(queue) \in 0..QueueSize
    <3>1. queue \in Seq(ToSet(queue)) /\ Len(queue) <= QueueSize
      BY DEF ChainInv, QueueInv
    <3>2. Len(queue) \in Nat
      BY <3>1, LenProperties
    <3> QED BY <3>1, <3>2, ConstantsAssumption
  <2>3. ASSUME NEW f \in Flows
        PROVE  /\ flow[f].pc \in Phases \cup {"filters", "upstream", "done"}
               /\ flow[f].phase \in Phases
               /\ ToSet(flow[f].ran) \cup ToSet(flow[f].rest) \subseteq flow[f].set
    <3>1. /\ flow[f].pc \in StageNames /\ flow[f].phase \in Phases
          /\ flow[f].ran \in Seq(flow[f].set) /\ flow[f].rest \in Seq(flow[f].set)
      BY ByFlow DEF FlowOK, RanInOrder
    <3> QED BY <3>1, OwnElements DEF StageNames
  <2> QED BY <2>1, <2>2, <2>3 DEF TypeOK
<1> QED BY <1>1, ChainInvariance, PTL

\* A body that a filter changed never goes out with a header that describes the old
\* one, whatever patches the filters make (apply_request_patch, apply_response_patch).
THEOREM IntegrityHeadersGo == Spec => []NoStaleIntegrity
<1>1. ChainInv => NoStaleIntegrity
  BY DEF ChainInv
<1> QED BY <1>1, ChainInvariance, PTL

\* When a phase is over, those that ran are those that should have.
LEMMA RanAsExpected ==
    ASSUME ChainInv, NEW f \in Flows, flow[f].pc = "filters", PhaseDone(flow[f])
    PROVE  /\ ToSet(flow[f].ran) = Expected(f)
           /\ \A i, j \in 1..Len(flow[f].ran) : i < j => Before(flow[f].ran[i], flow[f].ran[j])
<1> DEFINE fl == flow[f]
           s == fl.set
           ran == fl.ran
           rest == fl.rest
           M == Matching(s, fl.phase, Traffic[f])
           matching == {a \in s : MatchesTrigger(a, fl.phase, Traffic[f])}
           n == Len(ran)
<1>1. /\ s \in FilterSets \cup {{}} /\ ran \in Seq(s) /\ rest \in Seq(s) /\ ran \o rest = M
      /\ \A k \in 1..(n - 1) : ~Stops(ran[k], fl)
      /\ fl.action.cont = (ran = <<>> \/ ~Stops(ran[n], fl))
      /\ rest = <<>> \/ ~fl.action.cont
  BY ByFlow DEF FlowOK, RanInOrder, Running, PhaseDone
<1>2. FilterSetOK(s)
  BY <1>1, NoFilters
<1>3. /\ M \in Seq(s) /\ ToSet(M) = matching
      /\ \A i, j \in 1..Len(M) : i < j => Before(M[i], M[j])
  BY <1>2, MatchingFacts
<1>4. Expected(f) = {a \in matching : \A b \in matching : Before(b, a) => ~Stops(b, fl)}
  BY DEF Expected
<1> HIDE DEF M, matching, s, ran, rest
<1>5. /\ n \in Nat /\ Len(rest) \in Nat /\ Len(M) = n + Len(rest)
      /\ \A i \in 1..n : M[i] = ran[i]
      /\ rest = <<>> => Len(rest) = 0
  <2>1. n \in Nat /\ Len(rest) \in Nat /\ (rest = <<>> => Len(rest) = 0)
    BY <1>1, LenProperties, EmptySeq
  <2>2. /\ Len(ran \o rest) = n + Len(rest)
        /\ \A i \in 1..(n + Len(rest)) : (ran \o rest)[i] = IF i <= n THEN ran[i] ELSE rest[i - n]
    BY <1>1, ConcatProperties
  <2>3. \A i \in 1..n : i \in 1..(n + Len(rest)) /\ i <= n
    <3> HIDE DEF n
    <3> QED BY <2>1
  <2> QED BY <1>1, <2>1, <2>2, <2>3
<1>6. /\ DOMAIN M = 1..Len(M) /\ Len(M) \in Nat /\ DOMAIN ran = 1..n
      /\ \A i \in 1..Len(M) : M[i] \in matching /\ M[i] \in s
      /\ \A a \in matching : \E i \in 1..Len(M) : M[i] = a
  <2>1. DOMAIN M = 1..Len(M) /\ Len(M) \in Nat /\ DOMAIN ran = 1..n
    BY <1>1, <1>3, LenProperties
  <2> QED BY <1>3, <2>1, ElementOfSeq DEF ToSet
<1>7. \A i, j \in 1..Len(M) : Before(M[i], M[j]) => i < j
  <2> SUFFICES ASSUME NEW i \in 1..Len(M), NEW j \in 1..Len(M), Before(M[i], M[j]), ~(i < j)
               PROVE  FALSE
    OBVIOUS
  <2>1. i = j \/ j < i
    BY <1>6
  <2>2. ~(Before(M[i], M[j]) /\ Before(M[j], M[i]))
    BY <1>2, <1>6, BeforeIsTotal
  <2>3. ~(j < i)
    BY <1>3, <2>2
  <2>4. i = j
    BY <2>1, <2>3
  <2> QED BY <2>2, <2>4
<1> HIDE DEF n
<1>8. \A i \in 1..n : i \in 1..Len(M)
  BY <1>5
<1>9. ASSUME NEW i \in 1..n PROVE ran[i] \in Expected(f)
  <2>1. M[i] \in matching /\ ran[i] = M[i] /\ i \in 1..Len(M)
    BY <1>5, <1>6, <1>8
  <2>2. ASSUME NEW b \in matching, Before(b, M[i]) PROVE ~Stops(b, fl)
    <3>1. PICK k \in 1..Len(M) : M[k] = b
      BY <1>6
    <3>2. k < i
      BY <1>7, <2>1, <2>2, <3>1
    <3>3. k \in 1..(n - 1) /\ k \in 1..n
      BY <1>5, <1>6, <3>2
    <3> QED BY <1>1, <1>5, <3>1, <3>3
  <2> QED BY <1>4, <2>1, <2>2
<1>10. ASSUME NEW a \in Expected(f) PROVE \E i \in 1..n : ran[i] = a
  <2>1. a \in matching /\ \A b \in matching : Before(b, a) => ~Stops(b, fl)
    BY <1>4
  <2>2. PICK i \in 1..Len(M) : M[i] = a
    BY <1>6, <2>1
  <2>3. CASE i <= n
    <3>1. i \in 1..n
      BY <1>6, <2>3, <1>5
    <3> QED BY <1>5, <2>2, <3>1
  <2>4. CASE i > n
    <3>1. rest # <<>>
      BY <1>5, <1>6, <2>4
    <3>2. ran # <<>> /\ Stops(ran[n], fl)
      BY <1>1, <3>1
    <3>3. n \in 1..n
      <4>1. n # 0
        BY <1>1, <3>2, EmptySeq DEF n
      <4> QED BY <1>5, <4>1
    <3>4. n \in 1..Len(M) /\ n < i
      BY <1>5, <1>8, <2>4, <3>3
    <3>5. Before(M[n], M[i]) /\ M[n] \in matching /\ M[n] = ran[n]
      BY <1>3, <1>5, <1>6, <3>3, <3>4
    <3>6. ~Stops(ran[n], fl)
      BY <2>1, <2>2, <3>5
    <3> QED BY <3>2, <3>6
  <2> QED BY <1>5, <1>6, <2>3, <2>4
<1>11. ToSet(ran) = Expected(f)
  BY <1>6, <1>9, <1>10 DEF ToSet
<1>12. \A i, j \in 1..n : i < j => Before(ran[i], ran[j])
  BY <1>3, <1>5, <1>8
<1> QED BY <1>11, <1>12 DEF ran, n

\* At the end of a phase exactly the matching filters that none before them stopped
\* have run, in order of priority and path, whatever was reloaded meanwhile; and the
\* action is theirs (run_request_filters, merge_request_action and the like).
THEOREM ChainAsExpected == Spec => []ChainResult
<1>1. ChainInv => ChainResult
  <2> SUFFICES ASSUME ChainInv, NEW f \in Flows, flow[f].pc = "filters", PhaseDone(flow[f])
               PROVE  /\ ToSet(flow[f].ran) = Expected(f)
                      /\ \A i, j \in 1..Len(flow[f].ran) :
                            i < j => Before(flow[f].ran[i], flow[f].ran[j])
                      /\ Merged(flow[f])
    BY DEF ChainResult
  <2>1. Merged(flow[f])
    BY ByFlow DEF FlowOK, Running
  <2> QED BY <2>1, RanAsExpected
<1> QED BY <1>1, ChainInvariance, PTL
-----------------------------------------------------------------------------
(* Patterns: a wildcard can do with the first place where a part is found. *)

Splitting == INSTANCE FoldTheorems WITH FoldOp <- SplitAt, FoldKept <- IsSeq
Seeking   == INSTANCE FoldTheorems WITH FoldOp <- Sought, FoldKept <- IsSeq
Ending    == INSTANCE FoldTheorems WITH FoldOp <- MayEnd, FoldKept <- IsSeq

\* The positions of a sequence, and one more.
LEMMA UptoFacts ==
    ASSUME NEW n \in Nat
    PROVE  /\ DOMAIN Upto(n) = 1..n /\ DOMAIN Upto(n + 1) = 1..(n + 1) /\ Upto(n + 1)[n + 1] = n + 1
           /\ \A i \in 1..n : Upto(n + 1)[i] = Upto(n)[i] /\ Upto(n)[i] = i
           /\ DOMAIN Upto(0) = {}
BY DEF Upto

\* The parts of a pattern, one character after the other.
LEMMA PartsMore ==
    ASSUME NEW p, NEW n \in Nat
    PROVE  /\ PartsWithin(p, 0) = <<>>
           /\ PartsWithin(p, n + 1) = SplitAt(p, PartsWithin(p, n), n + 1)
<1>1. \A m : PartsWithin(p, m) = Splitting!FoldOf(p, <<>>, Upto(m))[DOMAIN Upto(m)]
  BY DEF PartsWithin, FoldLeft, MapThenFoldSet, Max, Splitting!FoldOf, Splitting!IsFold,
         Splitting!FoldTurn, Splitting!Max
<1>2. PartsWithin(p, 0) = <<>>
  <2>1. DOMAIN Upto(0) = {}
    BY UptoFacts
  <2>2. Splitting!FoldOf(p, <<>>, Upto(0))[DOMAIN Upto(0)] = <<>>
    BY <2>1, Splitting!FoldNothing
  <2> QED BY <1>1, <2>2
<1>3. Splitting!FoldOf(p, <<>>, Upto(n + 1))[DOMAIN Upto(n + 1)]
        = SplitAt(p, Splitting!FoldOf(p, <<>>, Upto(n))[DOMAIN Upto(n)], Upto(n + 1)[n + 1])
  BY UptoFacts, Splitting!FoldMore
<1> QED BY <1>1, <1>2, <1>3, UptoFacts

\* What is left of a value, one part after the other.
LEMMA RestMore ==
    ASSUME NEW g, NEW v, NEW n \in Nat
    PROVE  /\ RestBehind(g, v, 0) = Some(v)
           /\ RestBehind(g, v, n + 1) = Sought(g, RestBehind(g, v, n), n + 1)
<1>1. \A m : RestBehind(g, v, m) = Seeking!FoldOf(g, Some(v), Upto(m))[DOMAIN Upto(m)]
  BY DEF RestBehind, FoldLeft, MapThenFoldSet, Max, Seeking!FoldOf, Seeking!IsFold,
         Seeking!FoldTurn, Seeking!Max
<1>2. RestBehind(g, v, 0) = Some(v)
  BY <1>1, UptoFacts, Seeking!FoldNothing
<1>3. Seeking!FoldOf(g, Some(v), Upto(n + 1))[DOMAIN Upto(n + 1)]
        = Sought(g, Seeking!FoldOf(g, Some(v), Upto(n))[DOMAIN Upto(n)], Upto(n + 1)[n + 1])
  BY UptoFacts, Seeking!FoldMore
<1> QED BY <1>1, <1>2, <1>3, UptoFacts

\* It depends on the parts that were looked for, and on no other.
LEMMA RestSame ==
    ASSUME NEW g, NEW h, NEW v, NEW n \in Nat, g.anchored = h.anchored,
           \A k \in 1..n : g.parts[k] = h.parts[k]
    PROVE  RestBehind(g, v, n) = RestBehind(h, v, n)
<1>1. \A x : RestBehind(x, v, n) = Seeking!FoldOf(x, Some(v), Upto(n))[DOMAIN Upto(n)]
  BY DEF RestBehind, FoldLeft, MapThenFoldSet, Max, Seeking!FoldOf, Seeking!IsFold,
         Seeking!FoldTurn, Seeking!Max
<1>2. \A r : \A i \in 1..n : Sought(g, r, Upto(n)[i]) = Sought(h, r, Upto(n)[i])
  BY UptoFacts DEF Sought
<1>3. Seeking!FoldOf(g, Some(v), Upto(n))[DOMAIN Upto(n)]
        = Seeking!FoldOf(h, Some(v), Upto(n))[DOMAIN Upto(n)]
  <2>1. DOMAIN Upto(n) = 1..n
    BY UptoFacts
  <2> QED BY <1>2, <2>1, Seeking!FoldSame
<1> QED BY <1>1, <1>3

\* Where a pattern may end, one character after the other.
EndsWithin(p, v, n) == EndsOf(SubSeq(p, 1, n), v)

LEMMA EndsMore ==
    ASSUME NEW S, NEW p \in Seq(S), NEW v, NEW n \in Nat, n + 1 <= Len(p)
    PROVE  EndsWithin(p, v, n + 1) = MayEnd(v, EndsWithin(p, v, n), p[n + 1])
<1> DEFINE s == SubSeq(p, 1, n)
           t == SubSeq(p, 1, n + 1)
<1>0. Len(p) \in Nat
  BY LenProperties
<1>1. s \in Seq(S) /\ Len(s) = n /\ \A i \in 1..n : s[i] = p[i]
  <2>1. s = SubSeq(p, 0 + 1, n) /\ n - 0 = n /\ n <= Len(p) /\ \A i \in 1..n : 0 + i = i
    BY <1>0
  <2> QED BY <2>1, SliceFacts
<1>2. t \in Seq(S) /\ Len(t) = n + 1 /\ \A i \in 1..(n + 1) : t[i] = p[i]
  <2>1. t = SubSeq(p, 0 + 1, n + 1) /\ (n + 1) - 0 = n + 1 /\ \A i \in 1..(n + 1) : 0 + i = i
    OBVIOUS
  <2> QED BY <2>1, SliceFacts
<1>3. DOMAIN s = 1..n /\ DOMAIN t = 1..(n + 1) /\ t[n + 1] = p[n + 1] /\ \A i \in 1..n : t[i] = s[i]
  BY <1>1, <1>2, LenProperties
<1> HIDE DEF s, t
<1>4. \A u : EndsOf(u, v) = Ending!FoldOf(v, {0}, u)[DOMAIN u]
  BY DEF EndsOf, FoldLeft, MapThenFoldSet, Max, Ending!FoldOf, Ending!IsFold, Ending!FoldTurn,
         Ending!Max
<1>5. Ending!FoldOf(v, {0}, t)[DOMAIN t] = MayEnd(v, Ending!FoldOf(v, {0}, s)[DOMAIN s], t[n + 1])
  BY <1>3, Ending!FoldMore
<1> QED BY <1>3, <1>4, <1>5 DEF EndsWithin, s, t

LEMMA EndsFirst ==
    ASSUME NEW S, NEW p \in Seq(S), NEW v
    PROVE  EndsWithin(p, v, 0) = {0} /\ EndsWithin(p, v, Len(p)) = EndsOf(p, v)
<1>1. DOMAIN SubSeq(p, 1, 0) = {}
  <2>1. SubSeq(p, 0 + 1, 0) \in Seq(S) /\ Len(SubSeq(p, 0 + 1, 0)) = 0 - 0
    BY SliceFacts, LenProperties
  <2>2. 0 + 1 = 1 /\ 0 - 0 = 0 /\ 1..0 = {}
    OBVIOUS
  <2> QED BY <2>1, <2>2, LenProperties
<1>2. \A u : EndsOf(u, v) = Ending!FoldOf(v, {0}, u)[DOMAIN u]
  BY DEF EndsOf, FoldLeft, MapThenFoldSet, Max, Ending!FoldOf, Ending!IsFold, Ending!FoldTurn,
         Ending!Max
<1>3. EndsWithin(p, v, 0) = {0}
  <2>1. Ending!FoldOf(v, {0}, SubSeq(p, 1, 0))[DOMAIN SubSeq(p, 1, 0)] = {0}
    BY <1>1, Ending!FoldNothing
  <2> QED BY <1>2, <2>1 DEF EndsWithin
<1>4. SubSeq(p, 1, Len(p)) = p
  <2>1. Len(p) \in Nat /\ Len(p) - 0 = Len(p) /\ 0 + 1 = 1 /\ \A i \in 1..Len(p) : 0 + i = i
    BY LenProperties
  <2>2. /\ SubSeq(p, 0 + 1, Len(p)) \in Seq(S) /\ Len(SubSeq(p, 0 + 1, Len(p))) = Len(p) - 0
        /\ \A i \in 1..(Len(p) - 0) : SubSeq(p, 0 + 1, Len(p))[i] = p[0 + i]
    BY <2>1, SliceFacts
  <2> QED BY <2>1, <2>2, SeqEqual
<1> QED BY <1>3, <1>4 DEF EndsWithin
-----------------------------------------------------------------------------
(* Parts in a value. *)

RestOf(v, g) == SubSeq(v, g + 1, Len(v))

\* w stands in v and ends at j.
IsAt(w, v, j) == /\ Len(w) <= j /\ j <= Len(v)
                 /\ \A i \in 1..Len(w) : v[(j - Len(w)) + i] = w[i]

\* What is left behind g.
LEMMA RestFacts ==
    ASSUME NEW S, NEW v \in Seq(S), NEW g \in 0..Len(v)
    PROVE  /\ RestOf(v, g) \in Seq(S) /\ Len(RestOf(v, g)) = Len(v) - g /\ Len(v) \in Nat /\ g \in Nat
           /\ \A i \in 1..(Len(v) - g) : RestOf(v, g)[i] = v[g + i]
           /\ RestOf(v, 0) = v
<1>1. Len(v) \in Nat /\ g \in Nat /\ g <= Len(v)
  BY LenProperties
<1>2. /\ RestOf(v, g) \in Seq(S) /\ Len(RestOf(v, g)) = Len(v) - g
      /\ \A i \in 1..(Len(v) - g) : RestOf(v, g)[i] = v[g + i]
  BY <1>1, SliceFacts DEF RestOf
<1>3. RestOf(v, 0) = v
  <2>1. /\ RestOf(v, 0) \in Seq(S) /\ Len(RestOf(v, 0)) = Len(v) - 0
        /\ \A i \in 1..(Len(v) - 0) : RestOf(v, 0)[i] = v[0 + i]
    BY <1>1, SliceFacts DEF RestOf
  <2>2. Len(v) - 0 = Len(v) /\ \A i \in 1..Len(v) : 0 + i = i
    BY <1>1
  <2> QED BY <2>1, <2>2, SeqEqual
<1> QED BY <1>1, <1>2, <1>3

\* Where a part is found in what is left.
LEMMA FoundMeans ==
    ASSUME NEW S, NEW v \in Seq(S), NEW w \in Seq(S), NEW g \in 0..Len(v), NEW i \in Nat
    PROVE  i \in Found(w, RestOf(v, g)) <=> IsAt(w, v, g + i + Len(w))
<1> DEFINE u == RestOf(v, g)
           x == Len(w)
<1>0. /\ u \in Seq(S) /\ Len(u) = Len(v) - g /\ Len(v) \in Nat /\ g \in Nat /\ x \in Nat
      /\ \A j \in 1..(Len(v) - g) : u[j] = v[g + j]
  BY RestFacts, LenProperties
<1> HIDE DEF u, x
<1>1. CASE i + x <= Len(u)
  <2>1. /\ SubSeq(u, i + 1, i + x) \in Seq(S) /\ Len(SubSeq(u, i + 1, i + x)) = (i + x) - i
        /\ \A j \in 1..((i + x) - i) : SubSeq(u, i + 1, i + x)[j] = u[i + j]
    <3> DEFINE b == i + x
    <3>1. b \in Nat /\ i <= b /\ b <= Len(u) /\ u \in Seq(S)
      BY <1>0, <1>1
    <3> HIDE DEF b
    <3>2. /\ SubSeq(u, i + 1, b) \in Seq(S) /\ Len(SubSeq(u, i + 1, b)) = b - i
          /\ \A j \in 1..(b - i) : SubSeq(u, i + 1, b)[j] = u[i + j]
      BY <3>1, SliceFacts
    <3> QED BY <3>2 DEF b
  <2>2. (i + x) - i = x /\ Len(SubSeq(u, i + 1, i + x)) = x /\ (g + i + x) - x = g + i
    BY <1>0, <2>1
  <2>3. \A j \in 1..x : /\ i + j \in 1..(Len(v) - g) /\ (g + i) + j = g + (i + j)
    BY <1>0, <1>1
  <2>4. \A j \in 1..x : SubSeq(u, i + 1, i + x)[j] = v[(g + i) + j]
    BY <1>0, <2>1, <2>2, <2>3
  <2>5. SubSeq(u, i + 1, i + x) = w <=> \A j \in 1..x : v[(g + i) + j] = w[j]
    <3>1. ASSUME SubSeq(u, i + 1, i + x) = w PROVE \A j \in 1..x : v[(g + i) + j] = w[j]
      BY <2>4, <3>1
    <3>2. ASSUME \A j \in 1..x : v[(g + i) + j] = w[j] PROVE SubSeq(u, i + 1, i + x) = w
      <4>1. \A j \in 1..x : SubSeq(u, i + 1, i + x)[j] = w[j]
        BY <2>4, <3>2
      <4> QED BY <2>1, <2>2, <4>1, SeqEqual DEF x
    <3> QED BY <3>1, <3>2
  <2>6. i \in 0..(Len(u) - x) /\ x <= g + i + x /\ g + i + x <= Len(v)
    BY <1>0, <1>1
  <2> QED BY <2>2, <2>5, <2>6 DEF Found, IsAt, x, u
<1>2. CASE ~(i + x <= Len(u))
  <2>1. i \notin 0..(Len(u) - x) /\ ~(g + i + x <= Len(v))
    BY <1>0, <1>2
  <2> QED BY <2>1 DEF Found, IsAt, x, u
<1> QED BY <1>1, <1>2

\* What is then left.
LEMMA BehindMeans ==
    ASSUME NEW S, NEW v \in Seq(S), NEW w \in Seq(S), NEW g \in 0..Len(v), NEW i \in Nat,
           g + i + Len(w) <= Len(v)
    PROVE  Behind(RestOf(v, g), i, w) = RestOf(v, g + i + Len(w))
<1> DEFINE u == RestOf(v, g)
           a == i + Len(w)
           h == g + i + Len(w)
<1>0. /\ u \in Seq(S) /\ Len(u) = Len(v) - g /\ Len(v) \in Nat /\ g \in Nat /\ Len(w) \in Nat
      /\ \A j \in 1..(Len(v) - g) : u[j] = v[g + j]
  BY RestFacts, LenProperties
<1>1. a \in 0..Len(u) /\ h \in 0..Len(v) /\ Len(u) - a = Len(v) - h
  BY <1>0
<1>2. /\ RestOf(u, a) \in Seq(S) /\ Len(RestOf(u, a)) = Len(u) - a
      /\ \A j \in 1..(Len(u) - a) : RestOf(u, a)[j] = u[a + j]
  BY <1>0, <1>1, RestFacts
<1>3. /\ RestOf(v, h) \in Seq(S) /\ Len(RestOf(v, h)) = Len(v) - h
      /\ \A j \in 1..(Len(v) - h) : RestOf(v, h)[j] = v[h + j]
  BY <1>1, RestFacts
<1>4. \A j \in 1..(Len(v) - h) : a + j \in 1..(Len(v) - g) /\ g + (a + j) = h + j
  BY <1>0, <1>1
<1> HIDE DEF u, a, h
<1>5. \A j \in 1..(Len(v) - h) : RestOf(u, a)[j] = RestOf(v, h)[j]
  BY <1>0, <1>1, <1>2, <1>3, <1>4
<1>6. RestOf(u, a) = RestOf(v, h)
  BY <1>1, <1>2, <1>3, <1>5, SeqEqual
<1> QED BY <1>6 DEF RestOf, Behind, u, a, h

\* A part with a character more.
LEMMA IsAtMore ==
    ASSUME NEW S, NEW v \in Seq(S), NEW w \in Seq(S), NEW c \in S, NEW j \in 0..Len(v)
    PROVE  IsAt(Append(w, c), v, j) <=> j \in 1..Len(v) /\ IsAt(w, v, j - 1) /\ v[j] = c
<1> DEFINE y == Append(w, c)
           x == Len(w)
<1>0. /\ Len(v) \in Nat /\ x \in Nat /\ j \in Nat /\ Len(y) = x + 1 /\ y[x + 1] = c
      /\ \A i \in 1..x : y[i] = w[i]
  BY LenProperties, AppendProperties
<1> HIDE DEF y, x
<1>1. CASE ~(x + 1 <= j)
  <2>1. ~(Len(y) <= j) /\ ~(x <= j - 1)
    BY <1>0, <1>1
  <2> QED BY <2>1 DEF IsAt, x, y
<1>2. CASE x + 1 <= j
  <2>1. /\ (j - (x + 1)) + (x + 1) = j /\ (j - 1) - x = j - (x + 1) /\ j \in 1..Len(v) /\ x <= j - 1
        /\ j - 1 <= Len(v) /\ j <= Len(v)
    BY <1>0, <1>2
  <2>2. \A i \in 1..(x + 1) : i \in 1..x \/ i = x + 1
    BY <1>0
  <2>3. 1..x \subseteq 1..(x + 1) /\ x + 1 \in 1..(x + 1)
    BY <1>0
  <2>4. (\A i \in 1..(x + 1) : v[(j - (x + 1)) + i] = y[i])
          <=> (\A i \in 1..x : v[(j - (x + 1)) + i] = w[i]) /\ v[j] = c
    BY <1>0, <2>1, <2>2, <2>3
  <2>5. IsAt(y, v, j) <=> \A i \in 1..(x + 1) : v[(j - (x + 1)) + i] = y[i]
    BY <1>0, <1>2, <2>1 DEF IsAt
  <2>6. IsAt(w, v, j - 1) <=> \A i \in 1..x : v[(j - (x + 1)) + i] = w[i]
    BY <1>0, <2>1 DEF IsAt, x
  <2> QED BY <2>1, <2>4, <2>5, <2>6 DEF y
<1> QED BY <1>1, <1>2-----------------------------------------------------------------------------
(* What is read of a pattern, one character after the other. *)

\* w is all of the pattern: it ends where it is.
Fits(w, v, ends) == ends = {j \in 0..Len(v) : j = Len(w) /\ IsAt(w, v, j)}

\* w stands behind a wildcard, and what is left behind the parts before it, if anything
\* is, begins at some g: w ends wherever it is found from there on.
Reads(w, v, rest, ends) ==
    \/ rest = None /\ ends = {}
    \/ \E g \in 0..Len(v) : /\ rest = Some(RestOf(v, g))
                            /\ ends = {j \in 0..Len(v) : g + Len(w) <= j /\ IsAt(w, v, j)}

LEMMA FitsMore ==
    ASSUME NEW S, NEW v \in Seq(S), NEW w \in Seq(S), NEW c \in S, c # "*", NEW ends, Fits(w, v, ends)
    PROVE  Fits(Append(w, c), v, MayEnd(v, ends, c))
<1>0. Len(v) \in Nat /\ Len(w) \in Nat /\ Len(Append(w, c)) = Len(w) + 1
  BY LenProperties, AppendProperties
<1>1. MayEnd(v, ends, c) = {j \in 1..Len(v) : j - 1 \in ends /\ v[j] = c}
  BY DEF MayEnd
<1>2. ASSUME NEW j \in 0..Len(v)
      PROVE  j \in MayEnd(v, ends, c) <=> j = Len(w) + 1 /\ IsAt(Append(w, c), v, j)
  <2>1. IsAt(Append(w, c), v, j) <=> j \in 1..Len(v) /\ IsAt(w, v, j - 1) /\ v[j] = c
    BY IsAtMore
  <2>2. j \in 1..Len(v) => j - 1 \in 0..Len(v) /\ (j - 1 = Len(w) <=> j = Len(w) + 1)
    BY <1>0
  <2> QED BY <1>1, <2>1, <2>2 DEF Fits
<1>3. \A j \in MayEnd(v, ends, c) : j \in 0..Len(v)
  BY <1>0, <1>1
<1> QED BY <1>0, <1>2, <1>3 DEF Fits

LEMMA ReadsMore ==
    ASSUME NEW S, NEW v \in Seq(S), NEW w \in Seq(S), NEW c \in S, c # "*", NEW rest, NEW ends,
           Reads(w, v, rest, ends)
    PROVE  Reads(Append(w, c), v, rest, MayEnd(v, ends, c))
<1>0. Len(v) \in Nat /\ Len(w) \in Nat /\ Len(Append(w, c)) = Len(w) + 1
  BY LenProperties, AppendProperties
<1>1. MayEnd(v, ends, c) = {j \in 1..Len(v) : j - 1 \in ends /\ v[j] = c}
  BY DEF MayEnd
<1>2. CASE rest = None /\ ends = {}
  BY <1>1, <1>2 DEF Reads
<1>3. ASSUME NEW g \in 0..Len(v), rest = Some(RestOf(v, g)),
             ends = {j \in 0..Len(v) : g + Len(w) <= j /\ IsAt(w, v, j)}
      PROVE  Reads(Append(w, c), v, rest, MayEnd(v, ends, c))
  <2>1. ASSUME NEW j \in 0..Len(v)
        PROVE  j \in MayEnd(v, ends, c) <=> g + (Len(w) + 1) <= j /\ IsAt(Append(w, c), v, j)
    <3>1. IsAt(Append(w, c), v, j) <=> j \in 1..Len(v) /\ IsAt(w, v, j - 1) /\ v[j] = c
      BY IsAtMore
    <3>2. j \in 1..Len(v) => j - 1 \in 0..Len(v) /\ (g + Len(w) <= j - 1 <=> g + (Len(w) + 1) <= j)
      BY <1>0
    <3> QED BY <1>1, <1>3, <3>1, <3>2
  <2>2. \A j \in MayEnd(v, ends, c) : j \in 0..Len(v)
    BY <1>0, <1>1
  <2>3. MayEnd(v, ends, c) = {j \in 0..Len(v) : g + Len(Append(w, c)) <= j /\ IsAt(Append(w, c), v, j)}
    BY <1>0, <2>1, <2>2
  <2> QED BY <1>3, <2>3 DEF Reads
<1> QED BY <1>2, <1>3 DEF Reads

\* Nothing is everywhere.
LEMMA NothingIsAt ==
    ASSUME NEW v, Len(v) \in Nat, NEW j \in 0..Len(v)
    PROVE  IsAt(<<>>, v, j)
BY DEF IsAt

\* A wildcard behind a wildcard.
LEMMA ReadsWildcard ==
    ASSUME NEW S, NEW v \in Seq(S), NEW rest, NEW ends, Reads(<<>>, v, rest, ends)
    PROVE  Reads(<<>>, v, rest, MayEnd(v, ends, "*"))
<1>0. Len(v) \in Nat /\ Len(<<>>) = 0
  BY LenProperties
<1>1. MayEnd(v, ends, "*") = {j \in 0..Len(v) : \E i \in ends : i <= j}
  BY DEF MayEnd
<1>2. CASE rest = None /\ ends = {}
  BY <1>1, <1>2 DEF Reads
<1>3. ASSUME NEW g \in 0..Len(v), rest = Some(RestOf(v, g)),
             ends = {j \in 0..Len(v) : g + Len(<<>>) <= j /\ IsAt(<<>>, v, j)}
      PROVE  Reads(<<>>, v, rest, MayEnd(v, ends, "*"))
  <2>1. \A j \in 0..Len(v) : j \in ends <=> g <= j
    BY <1>0, <1>3, NothingIsAt
  <2>2. \A j \in 0..Len(v) : j \in MayEnd(v, ends, "*") <=> j \in ends
    <3>1. \A i \in ends : i \in 0..Len(v)
      BY <1>3
    <3> QED BY <1>0, <1>1, <2>1, <3>1
  <2>3. MayEnd(v, ends, "*") = ends
    BY <1>1, <1>3, <2>2
  <2> QED BY <1>3, <2>3 DEF Reads
<1> QED BY <1>2, <1>3 DEF Reads

\* From h on a wildcard may end anywhere, if its least end is h.
LEMMA WildcardFrom ==
    ASSUME NEW v, Len(v) \in Nat, NEW ends, NEW h \in ends, h \in 0..Len(v),
           \A i \in ends : i \in 0..Len(v) /\ h <= i
    PROVE  Reads(<<>>, v, Some(RestOf(v, h)), MayEnd(v, ends, "*"))
<1>1. MayEnd(v, ends, "*") = {j \in 0..Len(v) : \E i \in ends : i <= j}
  BY DEF MayEnd
<1>2. \A j \in 0..Len(v) : (\E i \in ends : i <= j) <=> h <= j
  OBVIOUS
<1>3. \A j \in 0..Len(v) : IsAt(<<>>, v, j) /\ h + Len(<<>>) = h
  BY NothingIsAt
<1>4. MayEnd(v, ends, "*") = {j \in 0..Len(v) : h + Len(<<>>) <= j /\ IsAt(<<>>, v, j)}
  BY <1>1, <1>2, <1>3
<1> QED BY <1>4 DEF Reads

\* A wildcard behind the first part of a pattern.
LEMMA FitsWildcard ==
    ASSUME NEW S, NEW v \in Seq(S), NEW w \in Seq(S), NEW ends, Fits(w, v, ends),
           NEW G, G.anchored, G.parts[1] = w
    PROVE  Reads(<<>>, v, Sought(G, Some(v), 1), MayEnd(v, ends, "*"))
<1> DEFINE found == Found(w, v) \cap {0}
<1>0. Len(v) \in Nat /\ Len(w) \in Nat /\ 0 \in 0..Len(v) /\ RestOf(v, 0) = v
  BY LenProperties, RestFacts
<1>1. Sought(G, Some(v), 1) = IF found = {} THEN None ELSE Some(Behind(v, Min(found), w))
  BY DEF Sought, Some, None
<1>2. 0 \in Found(w, v) <=> IsAt(w, v, Len(w))
  <2>1. 0 \in Found(w, RestOf(v, 0)) <=> IsAt(w, v, 0 + 0 + Len(w))
    BY <1>0, FoundMeans
  <2> QED BY <1>0, <2>1
<1>3. CASE ~IsAt(w, v, Len(w))
  <2>1. found = {} /\ ends = {}
    BY <1>2, <1>3 DEF Fits
  <2> QED BY <1>1, <2>1 DEF Reads, MayEnd
<1>4. CASE IsAt(w, v, Len(w))
  <2>1. found = {0} /\ Len(w) <= Len(v)
    BY <1>2, <1>4 DEF IsAt
  <2>2. Min(found) = 0
    BY <2>1 DEF Min
  <2>3. Behind(v, 0, w) = RestOf(v, Len(w))
    <3>1. Behind(RestOf(v, 0), 0, w) = RestOf(v, 0 + 0 + Len(w))
      BY <1>0, <2>1, BehindMeans
    <3> QED BY <1>0, <3>1
  <2>4. Len(w) \in ends /\ \A i \in ends : i \in 0..Len(v) /\ Len(w) <= i
    BY <1>0, <1>4, <2>1 DEF Fits
  <2>5. Reads(<<>>, v, Some(RestOf(v, Len(w))), MayEnd(v, ends, "*"))
    BY <1>0, <2>4, WildcardFrom
  <2> QED BY <1>1, <2>1, <2>2, <2>3, <2>5
<1> QED BY <1>3, <1>4

\* A wildcard behind a later part: the place where the part is first found is as good as
\* any other.
LEMMA ReadsPart ==
    ASSUME NEW S, NEW v \in Seq(S), NEW w \in Seq(S), NEW rest, NEW ends, Reads(w, v, rest, ends),
           NEW G, NEW k, G.parts[k] = w, ~(k = 1 /\ G.anchored)
    PROVE  Reads(<<>>, v, Sought(G, rest, k), MayEnd(v, ends, "*"))
<1>0. Len(v) \in Nat /\ Len(w) \in Nat
  BY LenProperties
<1>1. CASE rest = None /\ ends = {}
  <2>1. Sought(G, rest, k) = None /\ MayEnd(v, ends, "*") = {}
    BY <1>1 DEF Sought, MayEnd
  <2> QED BY <2>1 DEF Reads
<1>2. ASSUME NEW g \in 0..Len(v), rest = Some(RestOf(v, g)),
             ends = {j \in 0..Len(v) : g + Len(w) <= j /\ IsAt(w, v, j)}
      PROVE  Reads(<<>>, v, Sought(G, rest, k), MayEnd(v, ends, "*"))
  <2> DEFINE found == Found(w, RestOf(v, g))
  <2>1. Sought(G, rest, k) = IF found = {} THEN None ELSE Some(Behind(RestOf(v, g), Min(found), w))
    BY <1>2 DEF Sought, Some, None
  <2>2. \A i \in Nat : i \in found <=> IsAt(w, v, g + i + Len(w))
    BY FoundMeans
  <2>3. \A j \in ends : j \in 0..Len(v) /\ j - (g + Len(w)) \in Nat /\ j - (g + Len(w)) \in found
    <3> SUFFICES ASSUME NEW j \in ends
                 PROVE  j \in 0..Len(v) /\ j - (g + Len(w)) \in Nat /\ j - (g + Len(w)) \in found
      OBVIOUS
    <3>1. j \in 0..Len(v) /\ g + Len(w) <= j /\ IsAt(w, v, j)
      BY <1>2
    <3>2. j - (g + Len(w)) \in Nat /\ g + (j - (g + Len(w))) + Len(w) = j
      BY <1>0, <3>1
    <3> QED BY <2>2, <3>1, <3>2
  <2>4. found \in SUBSET Nat
    BY DEF Found
  <2> HIDE DEF found
  <2>5. CASE found = {}
    <3>1. ends = {}
      BY <2>3, <2>5
    <3> QED BY <2>1, <2>5, <3>1 DEF Reads, MayEnd
  <2>6. CASE found # {}
    <3>1. Min(found) \in found /\ \A i \in found : Min(found) <= i
      <4>1. \E m \in found : \A i \in found : m <= i
        BY <2>4, <2>6, HasLeast
      <4> QED BY <4>1 DEF Min
    <3> DEFINE m == Min(found)
               h == g + m + Len(w)
    <3>2. m \in found /\ m \in Nat /\ \A i \in found : m <= i
      BY <2>4, <3>1
    <3> HIDE DEF m
    <3>3. IsAt(w, v, h)
      BY <2>2, <3>2
    <3>4. h \in 0..Len(v) /\ h <= Len(v) /\ g + Len(w) <= h
      BY <1>0, <3>2, <3>3 DEF IsAt
    <3>5. h \in ends
      BY <1>2, <3>3, <3>4
    <3>6. \A i \in ends : i \in 0..Len(v) /\ h <= i
      <4> SUFFICES ASSUME NEW i \in ends PROVE i \in 0..Len(v) /\ h <= i
        OBVIOUS
      <4>1. i \in 0..Len(v) /\ m <= i - (g + Len(w))
        BY <2>3, <3>2
      <4> QED BY <1>0, <3>2, <4>1
    <3>7. Behind(RestOf(v, g), m, w) = RestOf(v, h)
      BY <3>2, <3>4, BehindMeans
    <3>8. Reads(<<>>, v, Some(RestOf(v, h)), MayEnd(v, ends, "*"))
      <4> HIDE DEF h
      <4> QED BY <1>0, <3>4, <3>5, <3>6, WildcardFrom
    <3>9. Sought(G, rest, k) = Some(RestOf(v, h))
      BY <2>1, <2>6, <3>7 DEF m
    <3> QED BY <3>8, <3>9
  <2> QED BY <2>5, <2>6
<1> QED BY <1>1, <1>2 DEF Reads
-----------------------------------------------------------------------------
(* The parts of what is read. *)

Starred(p, n) == \E i \in 1..n : p[i] = "*"

\* The part that the next character would belong to, and how many are behind it.
OpenPart(p, n) ==
    IF n = 0 \/ p[n] = "*" THEN <<>> ELSE PartsWithin(p, n)[Len(PartsWithin(p, n))]

DoneParts(p, n) ==
    IF n = 0 \/ p[n] = "*" THEN Len(PartsWithin(p, n)) ELSE Len(PartsWithin(p, n)) - 1

\* There is an open part where the last character is none of "*", it is all that was read
\* where no character was, and otherwise a pattern that begins with text has a part before it.
PartsInv(S, p, n) ==
    /\ PartsWithin(p, n) \in Seq(Seq(S))
    /\ OpenPart(p, n) \in Seq(S)
    /\ n # 0 /\ p[n] # "*" => PartsWithin(p, n) # <<>>
    /\ ~Starred(p, n) => /\ Len(OpenPart(p, n)) = n /\ DoneParts(p, n) = 0
                         /\ \A i \in 1..n : OpenPart(p, n)[i] = p[i]
    /\ Starred(p, n) /\ p[1] # "*" => DoneParts(p, n) >= 1

LEMMA PartsInvFirst ==
    ASSUME NEW S, NEW p
    PROVE  PartsInv(S, p, 0)
<1>1. PartsWithin(p, 0) = <<>> /\ <<>> \in Seq(Seq(S)) /\ <<>> \in Seq(S) /\ Len(<<>>) = 0
  BY PartsMore, EmptySeq
<1>2. OpenPart(p, 0) = <<>> /\ DoneParts(p, 0) = 0 /\ ~Starred(p, 0)
  BY <1>1 DEF OpenPart, DoneParts, Starred
<1>3. Len(OpenPart(p, 0)) = 0 /\ PartsWithin(p, 0) \in Seq(Seq(S)) /\ OpenPart(p, 0) \in Seq(S)
  BY <1>1, <1>2, Zenon
<1>4. \A i \in 1..0 : OpenPart(p, 0)[i] = p[i]
  OBVIOUS
<1> QED BY <1>2, <1>3, <1>4, Zenon DEF PartsInv

\* A character goes to the open part.
LEMMA PartsChar ==
    ASSUME NEW S, NEW p, NEW n \in Nat, PartsInv(S, p, n), p[n + 1] \in S, p[n + 1] # "*"
    PROVE  /\ PartsWithin(p, n + 1) \in Seq(Seq(S)) /\ PartsWithin(p, n + 1) # <<>>
           /\ OpenPart(p, n + 1) = Append(OpenPart(p, n), p[n + 1])
           /\ DoneParts(p, n + 1) = DoneParts(p, n) /\ DoneParts(p, n) \in Nat
           /\ \A k \in 1..DoneParts(p, n) : PartsWithin(p, n + 1)[k] = PartsWithin(p, n)[k]
<1> DEFINE X == PartsWithin(p, n)
           Y == PartsWithin(p, n + 1)
           c == p[n + 1]
           w == OpenPart(p, n)
<1>0. X \in Seq(Seq(S)) /\ w \in Seq(S) /\ Len(X) \in Nat /\ c \in S /\ c # "*" /\ n + 1 # 0
  BY LenProperties DEF PartsInv
<1>1. Y = SplitAt(p, X, n + 1)
  BY PartsMore
<1>2. OpenPart(p, n + 1) = Y[Len(Y)] /\ DoneParts(p, n + 1) = Len(Y) - 1
  BY <1>0 DEF OpenPart, DoneParts
<1>3. (n + 1 = 1 <=> n = 0) /\ (n + 1) - 1 = n
  OBVIOUS
<1>4. CASE n = 0 \/ p[n] = "*"
  <2>1. w = <<>> /\ DoneParts(p, n) = Len(X)
    BY <1>4 DEF OpenPart, DoneParts
  <2>2. Y = Append(X, <<c>>)
    BY <1>0, <1>1, <1>3, <1>4 DEF SplitAt
  <2>3. <<c>> \in Seq(S) /\ Append(<<>>, c) = <<c>>
    BY <1>0
  <2> HIDE DEF X, Y, c, w
  <2>4. /\ Y \in Seq(Seq(S)) /\ Len(Y) = Len(X) + 1 /\ Y[Len(X) + 1] = <<c>>
        /\ \A k \in 1..Len(X) : Y[k] = X[k]
    BY <1>0, <2>2, <2>3, AppendProperties
  <2>5. Y # <<>> /\ Len(Y) - 1 = Len(X)
    BY <1>0, <2>2, <2>4, AppendProperties, <2>3
  <2> QED BY <1>0, <1>2, <2>1, <2>3, <2>4, <2>5 DEF X, Y, c, w
<1>5. CASE ~(n = 0 \/ p[n] = "*")
  <2>1. w = X[Len(X)] /\ DoneParts(p, n) = Len(X) - 1 /\ X # <<>>
    BY <1>5 DEF OpenPart, DoneParts, PartsInv
  <2>2. Y = [X EXCEPT ![Len(X)] = Append(@, c)]
    BY <1>0, <1>1, <1>3, <1>5 DEF SplitAt
  <2> HIDE DEF X, Y, c, w
  <2>3. Len(X) # 0 /\ Len(X) \in 1..Len(X) /\ Len(X) - 1 \in Nat
    BY <1>0, <2>1, EmptySeq
  <2>4. Append(w, c) \in Seq(S)
    BY <1>0, AppendProperties
  <2>5. Y \in Seq(Seq(S)) /\ Len(Y) = Len(X)
    BY <1>0, <2>1, <2>2, <2>3, <2>4, ExceptSeq
  <2>6. Y[Len(X)] = Append(w, c) /\ \A k \in 1..(Len(X) - 1) : Y[k] = X[k]
    BY <1>0, <2>1, <2>2, <2>3, LenProperties
  <2>7. Y # <<>>
    BY <2>3, <2>5, EmptySeq
  <2> QED BY <1>2, <2>1, <2>3, <2>5, <2>6, <2>7 DEF X, Y, c, w
<1> QED BY <1>4, <1>5

\* A wildcard ends it.
LEMMA PartsWildcard ==
    ASSUME NEW S, NEW p, NEW n \in Nat, PartsInv(S, p, n), p[n + 1] = "*"
    PROVE  /\ PartsWithin(p, n + 1) = PartsWithin(p, n)
           /\ OpenPart(p, n + 1) = <<>>
           /\ DoneParts(p, n + 1) = Len(PartsWithin(p, n)) /\ Len(PartsWithin(p, n)) \in Nat
           /\ \/ /\ n = 0 \/ p[n] = "*"
                 /\ OpenPart(p, n) = <<>> /\ DoneParts(p, n) = Len(PartsWithin(p, n))
              \/ /\ ~(n = 0 \/ p[n] = "*") /\ DoneParts(p, n) \in Nat
                 /\ DoneParts(p, n) + 1 = Len(PartsWithin(p, n))
                 /\ PartsWithin(p, n)[DoneParts(p, n) + 1] = OpenPart(p, n)
<1> DEFINE X == PartsWithin(p, n)
<1>0. X \in Seq(Seq(S)) /\ Len(X) \in Nat
  BY LenProperties DEF PartsInv
<1>1. PartsWithin(p, n + 1) = X
  BY PartsMore DEF SplitAt
<1>2. OpenPart(p, n + 1) = <<>> /\ DoneParts(p, n + 1) = Len(X)
  BY <1>1 DEF OpenPart, DoneParts
<1>3. CASE n = 0 \/ p[n] = "*"
  BY <1>0, <1>1, <1>2, <1>3 DEF OpenPart, DoneParts
<1>4. CASE ~(n = 0 \/ p[n] = "*")
  <2>1. OpenPart(p, n) = X[Len(X)] /\ DoneParts(p, n) = Len(X) - 1 /\ X # <<>>
    BY <1>4 DEF OpenPart, DoneParts, PartsInv
  <2> HIDE DEF X
  <2>2. Len(X) # 0 /\ Len(X) - 1 \in Nat /\ (Len(X) - 1) + 1 = Len(X)
    BY <1>0, <2>1, EmptySeq
  <2> QED BY <1>0, <1>1, <1>2, <1>4, <2>1, <2>2 DEF X
<1> QED BY <1>3, <1>4

\* One character more.
LEMMA PartsInvMore ==
    ASSUME NEW S, NEW p, NEW n \in Nat, PartsInv(S, p, n), p[n + 1] \in S
    PROVE  PartsInv(S, p, n + 1)
<1>0. (n + 1 # 0) /\ n + 1 \in 1..(n + 1) /\ (\A i \in 1..(n + 1) : i \in 1..n \/ i = n + 1) /\ 1..n \subseteq 1..(n + 1)
  OBVIOUS
<1>1. CASE p[n + 1] # "*"
  <2>1. /\ PartsWithin(p, n + 1) \in Seq(Seq(S)) /\ PartsWithin(p, n + 1) # <<>>
        /\ OpenPart(p, n + 1) = Append(OpenPart(p, n), p[n + 1])
        /\ DoneParts(p, n + 1) = DoneParts(p, n) /\ DoneParts(p, n) \in Nat
    BY <1>1, PartsChar
  <2>2. OpenPart(p, n) \in Seq(S)
    BY DEF PartsInv
  <2>3. /\ OpenPart(p, n + 1) \in Seq(S) /\ Len(OpenPart(p, n + 1)) = Len(OpenPart(p, n)) + 1
        /\ OpenPart(p, n + 1)[Len(OpenPart(p, n)) + 1] = p[n + 1]
        /\ \A i \in 1..Len(OpenPart(p, n)) : OpenPart(p, n + 1)[i] = OpenPart(p, n)[i]
    <3>1. PICK w : w = OpenPart(p, n)
      OBVIOUS
    <3>2. w \in Seq(S) /\ OpenPart(p, n + 1) = Append(w, p[n + 1])
      BY <2>1, <2>2, <3>1
    <3>3. /\ OpenPart(p, n + 1) \in Seq(S) /\ Len(OpenPart(p, n + 1)) = Len(w) + 1
          /\ OpenPart(p, n + 1)[Len(w) + 1] = p[n + 1]
          /\ \A i \in 1..Len(w) : OpenPart(p, n + 1)[i] = w[i]
      BY <3>2, AppendProperties
    <3> QED BY <3>1, <3>3
  <2>4. Starred(p, n + 1) <=> Starred(p, n)
    BY <1>0, <1>1 DEF Starred
  <2>5. ~Starred(p, n + 1) => /\ Len(OpenPart(p, n + 1)) = n + 1 /\ DoneParts(p, n + 1) = 0
                              /\ \A i \in 1..(n + 1) : OpenPart(p, n + 1)[i] = p[i]
    BY <1>0, <2>1, <2>3, <2>4 DEF PartsInv
  <2>6. Starred(p, n + 1) /\ p[1] # "*" => DoneParts(p, n + 1) >= 1
    BY <2>1, <2>4 DEF PartsInv
  <2> QED BY <2>1, <2>3, <2>5, <2>6 DEF PartsInv
<1>2. CASE p[n + 1] = "*"
  <2>1. /\ PartsWithin(p, n + 1) = PartsWithin(p, n)
        /\ OpenPart(p, n + 1) = <<>>
        /\ DoneParts(p, n + 1) = Len(PartsWithin(p, n)) /\ Len(PartsWithin(p, n)) \in Nat
    BY <1>2, PartsWildcard
  <2>2. PartsWithin(p, n) \in Seq(Seq(S)) /\ <<>> \in Seq(S)
    BY EmptySeq DEF PartsInv
  <2>3. Starred(p, n + 1)
    BY <1>0, <1>2 DEF Starred
  <2>4. ASSUME p[1] # "*" PROVE DoneParts(p, n + 1) >= 1
    <3>1. n # 0
      BY <1>2, <2>4
    <3>2. CASE p[n] # "*"
      <4>1. PartsWithin(p, n) # <<>>
        BY <3>1, <3>2 DEF PartsInv
      <4>2. Len(PartsWithin(p, n)) # 0
        BY <2>2, <4>1, EmptySeq
      <4> QED BY <2>1, <4>2
    <3>3. CASE p[n] = "*"
      <4>1. Starred(p, n) /\ DoneParts(p, n) = Len(PartsWithin(p, n))
        BY <3>1, <3>3 DEF Starred, DoneParts
      <4> QED BY <2>1, <2>4, <4>1 DEF PartsInv
    <3> QED BY <3>2, <3>3
  <2> QED BY <1>2, <2>1, <2>2, <2>3, <2>4 DEF PartsInv
<1> QED BY <1>1, <1>2

-----------------------------------------------------------------------------
(* What is left behind the parts that are done, and where the rest may end. *)

Reading(p, n) == [parts |-> PartsWithin(p, n), anchored |-> Head(p) # "*"]

Left(p, v, n) == RestBehind(Reading(p, n), v, DoneParts(p, n))

ReadInv(p, v, n) ==
    IF Starred(p, n) THEN Reads(OpenPart(p, n), v, Left(p, v, n), EndsWithin(p, v, n))
    ELSE Fits(OpenPart(p, n), v, EndsWithin(p, v, n))

LEMMA ReadInvFirst ==
    ASSUME NEW S, NEW p \in Seq(S), NEW v \in Seq(S)
    PROVE  ReadInv(p, v, 0)
<1>1. EndsWithin(p, v, 0) = {0} /\ OpenPart(p, 0) = <<>> /\ ~Starred(p, 0)
  BY EndsFirst DEF OpenPart, Starred
<1>2. Len(v) \in Nat /\ 0 \in 0..Len(v) /\ IsAt(<<>>, v, 0)
  BY LenProperties, NothingIsAt
<1>3. Fits(<<>>, v, {0})
  BY <1>2 DEF Fits
<1> QED BY <1>1, <1>3 DEF ReadInv

LEMMA ReadInvMore ==
    ASSUME NEW S, NEW p \in Seq(S), NEW v \in Seq(S), NEW n \in Nat, n + 1 <= Len(p),
           PartsInv(S, p, n), ReadInv(p, v, n)
    PROVE  ReadInv(p, v, n + 1)
<1> DEFINE w == OpenPart(p, n)
           E == EndsWithin(p, v, n)
           k == DoneParts(p, n)
           G == Reading(p, n)
<1>0. /\ Len(p) \in Nat /\ p[n + 1] \in S /\ Head(p) = p[1] /\ w \in Seq(S)
      /\ \A i \in 1..(n + 1) : i \in 1..n \/ i = n + 1
      /\ 1..n \subseteq 1..(n + 1) /\ n + 1 \in 1..(n + 1)
  <2>1. Len(p) \in Nat /\ n + 1 \in 1..Len(p) /\ p # <<>>
    BY LenProperties, EmptySeq
  <2> QED BY <2>1, ElementOfSeq, HeadTailProperties DEF PartsInv
<1>1. EndsWithin(p, v, n + 1) = MayEnd(v, E, p[n + 1])
  BY EndsMore
<1>2. CASE p[n + 1] # "*"
  <2>1. /\ OpenPart(p, n + 1) = Append(w, p[n + 1])
        /\ DoneParts(p, n + 1) = k /\ k \in Nat
        /\ \A i \in 1..k : PartsWithin(p, n + 1)[i] = PartsWithin(p, n)[i]
    BY <1>0, <1>2, PartsChar
  <2>2. Starred(p, n + 1) <=> Starred(p, n)
    BY <1>0, <1>2 DEF Starred
  <2>3. Left(p, v, n + 1) = Left(p, v, n)
    <3>1. Reading(p, n + 1).anchored = G.anchored /\ \A i \in 1..k : Reading(p, n + 1).parts[i] = G.parts[i]
      BY <2>1 DEF Reading
    <3>2. RestBehind(Reading(p, n + 1), v, k) = RestBehind(G, v, k)
      <4> HIDE DEF k, G
      <4> QED BY <2>1, <3>1, RestSame
    <3> QED BY <2>1, <3>2 DEF Left
  <2>4. CASE Starred(p, n)
    <3>1. Reads(w, v, Left(p, v, n), E)
      BY <2>4 DEF ReadInv
    <3>2. Reads(Append(w, p[n + 1]), v, Left(p, v, n), MayEnd(v, E, p[n + 1]))
      BY <1>0, <1>2, <3>1, ReadsMore
    <3> QED BY <1>1, <2>1, <2>2, <2>3, <2>4, <3>2 DEF ReadInv
  <2>5. CASE ~Starred(p, n)
    <3>1. Fits(w, v, E)
      BY <2>5 DEF ReadInv
    <3>2. Fits(Append(w, p[n + 1]), v, MayEnd(v, E, p[n + 1]))
      BY <1>0, <1>2, <3>1, FitsMore
    <3> QED BY <1>1, <2>1, <2>2, <2>5, <3>2 DEF ReadInv
  <2> QED BY <2>4, <2>5
<1>3. CASE p[n + 1] = "*"
  <2>1. /\ PartsWithin(p, n + 1) = PartsWithin(p, n)
        /\ OpenPart(p, n + 1) = <<>> /\ DoneParts(p, n + 1) = Len(PartsWithin(p, n))
    BY <1>3, PartsWildcard
  <2>2. Starred(p, n + 1) /\ Reading(p, n + 1) = G
    BY <1>0, <1>3, <2>1 DEF Starred, Reading
  <2>3. SUFFICES Reads(<<>>, v, RestBehind(G, v, Len(PartsWithin(p, n))), MayEnd(v, E, "*"))
    BY <1>1, <1>3, <2>1, <2>2 DEF ReadInv, Left
  <2>4. CASE n = 0
    <3>1. k = 0 /\ Len(PartsWithin(p, n)) = 0 /\ E = {0}
      BY <2>4, PartsMore, EndsFirst DEF DoneParts
    <3>2. RestBehind(G, v, 0) = Some(v) /\ RestOf(v, 0) = v /\ Len(v) \in Nat
      BY RestMore, RestFacts, LenProperties
    <3>3. Reads(<<>>, v, Some(RestOf(v, 0)), MayEnd(v, E, "*"))
      BY <3>1, <3>2, WildcardFrom
    <3> QED BY <3>1, <3>2, <3>3
  <2>5. CASE n # 0 /\ p[n] = "*"
    <3>1. w = <<>> /\ k = Len(PartsWithin(p, n)) /\ Starred(p, n)
      BY <2>5 DEF OpenPart, DoneParts, Starred
    <3>2. Reads(<<>>, v, RestBehind(G, v, Len(PartsWithin(p, n))), E)
      BY <3>1 DEF ReadInv, Left
    <3> QED BY <3>2, ReadsWildcard
  <2>6. CASE n # 0 /\ p[n] # "*"
    <3>1. k \in Nat /\ k + 1 = Len(PartsWithin(p, n)) /\ G.parts[k + 1] = w
      BY <1>3, <2>6, PartsWildcard DEF Reading
    <3>2. RestBehind(G, v, k + 1) = Sought(G, RestBehind(G, v, k), k + 1) /\ RestBehind(G, v, 0) = Some(v)
      BY <3>1, RestMore
    <3>3. CASE Starred(p, n)
      <4>1. Reads(w, v, RestBehind(G, v, k), E)
        BY <3>3 DEF ReadInv, Left
      <4>2. ~(k + 1 = 1 /\ G.anchored)
        <5>1. p[1] # "*" => k >= 1
          BY <3>3 DEF PartsInv
        <5>2. G.anchored <=> p[1] # "*"
          BY <1>0 DEF Reading
        <5>3. k >= 1 => k + 1 # 1
          BY <3>1
        <5> QED BY <5>1, <5>2, <5>3
      <4>3. Reads(<<>>, v, Sought(G, RestBehind(G, v, k), k + 1), MayEnd(v, E, "*"))
        <5> HIDE DEF w, k, G, E
        <5> QED BY <1>0, <3>1, <4>1, <4>2, ReadsPart
      <4> QED BY <3>1, <3>2, <4>3
    <3>4. CASE ~Starred(p, n)
      <4>1. Fits(w, v, E) /\ k = 0
        BY <3>4 DEF ReadInv, PartsInv
      <4>2. G.anchored
        <5>1. 1 \in 1..n
          BY <2>6
        <5>2. p[1] # "*"
          BY <3>4, <5>1 DEF Starred
        <5> QED BY <1>0, <5>2 DEF Reading
      <4>3. Reads(<<>>, v, Sought(G, Some(v), 1), MayEnd(v, E, "*"))
        <5>1. G.parts[1] = w
          BY <3>1, <4>1
        <5> HIDE DEF w, k, G, E
        <5> QED BY <1>0, <4>1, <4>2, <5>1, FitsWildcard
      <4>4. k + 1 = 1 /\ Len(PartsWithin(p, n)) = 1 /\ RestBehind(G, v, 1) = Sought(G, Some(v), 1)
        BY <3>1, <3>2, <4>1
      <4> QED BY <4>3, <4>4
    <3> QED BY <3>3, <3>4
  <2> QED BY <2>4, <2>5, <2>6
<1> QED BY <1>2, <1>3

\* All of a pattern.
LEMMA ReadAll ==
    ASSUME NEW S, NEW p \in Seq(S), NEW v \in Seq(S)
    PROVE  PartsInv(S, p, Len(p)) /\ ReadInv(p, v, Len(p))
<1> DEFINE T == {n \in Nat : n <= Len(p) => PartsInv(S, p, n) /\ ReadInv(p, v, n)}
<1>0. Len(p) \in Nat
  BY LenProperties
<1>1. 0 \in T
  BY PartsInvFirst, ReadInvFirst
<1>2. ASSUME NEW n \in T PROVE n + 1 \in T
  <2> SUFFICES ASSUME n + 1 <= Len(p) PROVE PartsInv(S, p, n + 1) /\ ReadInv(p, v, n + 1)
    OBVIOUS
  <2>1. n \in Nat /\ n <= Len(p) /\ n + 1 \in 1..Len(p)
    BY <1>0
  <2>2. PartsInv(S, p, n) /\ ReadInv(p, v, n) /\ p[n + 1] \in S
    BY <2>1, ElementOfSeq
  <2> QED BY <2>1, <2>2, PartsInvMore, ReadInvMore
<1>3. T = Nat
  <2> HIDE DEF T
  <2>1. T \in SUBSET Nat
    BY DEF T
  <2> QED BY <1>1, <1>2, <2>1, NatSetInduction
<1>4. Len(p) \in T
  BY <1>0, <1>3
<1> QED BY <1>0, <1>4
\* A pattern matches nothing that it does not mean, and all of it if no text is behind a
\* wildcard.
LEMMA GlobRight ==
    ASSUME NEW S, NEW p \in Seq(S), NEW v \in Seq(S)
    PROVE  /\ GlobMatch(p, v) => GlobMeans(p, v)
           /\ ("*" \notin ToSet(p) \/ Last(p) = "*") /\ GlobMeans(p, v) => GlobMatch(p, v)
<1> DEFINE n == Len(p)
           w == OpenPart(p, n)
           E == EndsOf(p, v)
           X == Parts(p)
           G == Glob(p)
           k == DoneParts(p, n)
           rest == RestBehind(G, v, Len(X))
<1>0. n \in Nat /\ Len(v) \in Nat /\ Len(v) \in 0..Len(v)
  BY LenProperties
<1>1. PartsInv(S, p, n) /\ ReadInv(p, v, n)
  BY ReadAll
<1>2. X = PartsWithin(p, n) /\ G = Reading(p, n) /\ E = EndsWithin(p, v, n) /\ w \in Seq(S)
  BY <1>1, EndsFirst DEF Parts, Glob, Reading, PartsInv
<1>3. "*" \in ToSet(p) <=> Starred(p, n)
  <2>1. DOMAIN p = 1..n
    BY LenProperties
  <2> QED BY <2>1 DEF ToSet, Starred
<1>4. CASE ~Starred(p, n)
  <2>1. Len(w) = n /\ \A i \in 1..n : w[i] = p[i]
    BY <1>1, <1>4 DEF PartsInv
  <2>2. w = p
    <3> HIDE DEF w
    <3> QED BY <1>2, <2>1, SeqEqual
  <2>3. E = {j \in 0..Len(v) : j = n /\ IsAt(p, v, j)}
    BY <1>1, <1>2, <1>4, <2>2 DEF ReadInv, Fits
  <2>4. Len(v) \in E <=> Len(v) = n /\ IsAt(p, v, Len(v))
    BY <1>0, <2>3
  <2>5. Len(v) = n /\ IsAt(p, v, Len(v)) <=> p = v
    <3>1. ASSUME Len(v) = n, IsAt(p, v, Len(v)) PROVE p = v
      <4>1. \A i \in 1..n : (Len(v) - n) + i = i
        BY <1>0, <3>1
      <4>2. \A i \in 1..n : v[i] = p[i]
        BY <3>1, <4>1 DEF IsAt
      <4> QED BY <3>1, <4>2, SeqEqual
    <3>2. ASSUME p = v PROVE Len(v) = n /\ IsAt(p, v, Len(v))
      <4>1. \A i \in 1..n : (Len(v) - n) + i = i
        BY <1>0, <3>2
      <4> QED BY <1>0, <3>2, <4>1 DEF IsAt
    <3> QED BY <3>1, <3>2
  <2>6. GlobMatch(p, v) <=> p = v
    BY <1>3, <1>4 DEF GlobMatch
  <2>7. GlobMeans(p, v) <=> Len(v) \in E
    BY DEF GlobMeans
  <2> QED BY <2>4, <2>5, <2>6, <2>7
<1>5. CASE Starred(p, n)
  <2>1. GlobMatch(p, v) <=> rest # None /\ (X = <<>> \/ Last(p) = "*" \/ rest[1] = <<>>)
    BY <1>3, <1>5 DEF GlobMatch
  <2>2. Reads(w, v, RestBehind(G, v, k), E) /\ Last(p) = p[n] /\ n # 0
    BY <1>1, <1>2, <1>5 DEF ReadInv, Left, Last, Starred
  <2>3. GlobMeans(p, v) <=> Len(v) \in E
    BY DEF GlobMeans
  <2>4. CASE p[n] = "*"
    <3>1. w = <<>> /\ k = Len(X)
      BY <1>2, <2>4 DEF OpenPart, DoneParts
    <3>2. Reads(<<>>, v, rest, E)
      BY <2>2, <3>1
    <3>3. (rest = None /\ E = {}) \/ (rest # None /\ Len(v) \in E)
      <4>1. ASSUME NEW g \in 0..Len(v), rest = Some(RestOf(v, g)),
                   E = {j \in 0..Len(v) : g + Len(<<>>) <= j /\ IsAt(<<>>, v, j)}
            PROVE  rest # None /\ Len(v) \in E
        <5>1. g + Len(<<>>) <= Len(v) /\ IsAt(<<>>, v, Len(v))
          BY <1>0, NothingIsAt
        <5>2. Some(RestOf(v, g)) # None
          BY DEF Some, None
        <5> QED BY <1>0, <4>1, <5>1, <5>2
      <4> QED BY <3>2, <4>1 DEF Reads
    <3> QED BY <2>1, <2>2, <2>3, <2>4, <3>3
  <2>5. CASE p[n] # "*"
    <3>1. w = X[Len(X)] /\ k = Len(X) - 1 /\ X # <<>> /\ X \in Seq(Seq(S))
      BY <1>1, <1>2, <2>2, <2>5 DEF OpenPart, DoneParts, PartsInv
    <3>2. Len(X) \in Nat /\ Len(X) # 0 /\ k \in Nat /\ k + 1 = Len(X)
      <4> HIDE DEF X, k
      <4> QED BY <3>1, EmptySeq, LenProperties
    <3>3. G.parts[k + 1] = w /\ ~(k + 1 = 1 /\ G.anchored)
      <4>1. p # <<>> /\ Head(p) = p[1]
        BY <2>2, EmptySeq, HeadTailProperties
      <4>2. p[1] # "*" => k >= 1
        BY <1>1, <1>5 DEF PartsInv
      <4>3. G.parts = X /\ (G.anchored <=> p[1] # "*")
        BY <4>1 DEF Glob
      <4>4. k >= 1 => k + 1 # 1
        BY <3>2
      <4> QED BY <3>1, <3>2, <4>2, <4>3, <4>4
    <3>4. rest = Sought(G, RestBehind(G, v, k), k + 1)
      BY <3>2, RestMore
    <3>5. Reads(<<>>, v, rest, MayEnd(v, E, "*"))
      <4> HIDE DEF w, k, G, E, rest
      <4> QED BY <1>2, <2>2, <3>2, <3>3, <3>4, ReadsPart
    <3>6. ASSUME GlobMatch(p, v) PROVE Len(v) \in E
      <4>1. rest # None /\ rest[1] = <<>>
        BY <2>1, <2>2, <2>5, <3>1, <3>6
      <4>2. PICK h \in 0..Len(v) : /\ rest = Some(RestOf(v, h))
                                   /\ MayEnd(v, E, "*") = {j \in 0..Len(v) : h + Len(<<>>) <= j /\ IsAt(<<>>, v, j)}
        BY <3>5, <4>1 DEF Reads
      <4>3. RestOf(v, h) = <<>>
        BY <4>1, <4>2 DEF Some
      <4>4. h = Len(v)
        <5>1. Len(RestOf(v, h)) = Len(v) - h /\ Len(RestOf(v, h)) = 0
          BY <4>3, RestFacts, EmptySeq
        <5> QED BY <1>0, <5>1
      <4>5. Len(v) \in MayEnd(v, E, "*")
        BY <1>0, <4>2, <4>4, NothingIsAt
      <4>6. PICK i \in E : i <= Len(v)
        BY <4>5 DEF MayEnd
      <4>7. i \in 0..Len(v)
        <5>1. \A j \in E : j \in 0..Len(v)
          BY <2>2 DEF Reads
        <5> QED BY <5>1
      <4>8. i \in MayEnd(v, E, "*")
        BY <4>7 DEF MayEnd
      <4>9. h <= i
        BY <4>2, <4>8
      <4>10. i = Len(v)
        BY <1>0, <4>4, <4>7, <4>9
      <4> QED BY <4>10
    <3> QED BY <1>3, <1>5, <2>2, <2>3, <2>5, <3>6
  <2> QED BY <2>4, <2>5
<1> QED BY <1>4, <1>5

\* No host is matched by a pattern that does not mean it, and every host that a pattern
\* without text behind its last "*" means is matched, by any filters that a reload may
\* install (glob_match).
THEOREM GlobsAreSound == Spec => []GlobSound
<1> DEFINE Sound(p, v) ==
              /\ GlobMatch(p, v) => GlobMeans(p, v)
              /\ ("*" \notin ToSet(p) \/ Last(p) = "*") /\ GlobMeans(p, v) => GlobMatch(p, v)
<1>1. ASSUME NEW p, p \in Seq(ToSet(p)), NEW v, v \in Seq(ToSet(v)) PROVE Sound(p, v)
  <2> DEFINE S == ToSet(p) \cup ToSet(v)
  <2>1. p \in Seq(S) /\ v \in Seq(S)
    BY <1>1, SeqMonotonic
  <2> HIDE DEF S
  <2> QED BY <2>1, GlobRight
<1> HIDE DEF Sound
<1>2. ChainInv => GlobSound
  <2> SUFFICES ASSUME ChainInv, NEW f \in Flows, NEW a \in flow[f].set
               PROVE  /\ \A p \in a.hosts : Sound(p, Traffic[f].host)
                      /\ \A p \in a.paths : Sound(p, Traffic[f].path)
    BY DEF GlobSound, Sound
  <2>1. flow[f].set \in FilterSets \cup {{}}
    BY DEF ChainInv, OrderInv
  <2>2. FilterSetOK(flow[f].set)
    BY <2>1, NoFilters
  <2>3. \A p \in a.hosts \cup a.paths : p \in Seq(ToSet(p))
    BY <2>2 DEF FilterSetOK
  <2>4. /\ Traffic[f].host \in Seq(ToSet(Traffic[f].host))
        /\ Traffic[f].path \in Seq(ToSet(Traffic[f].path))
    BY ConstantsAssumption
  <2> QED BY <1>1, <2>3, <2>4
<1> QED BY <1>2, ChainInvariance, PTL
=============================================================================
