------------------------ MODULE FilterReload_proofs ------------------------
(***************************************************************************)
(* Proofs about FilterReload, for any number of files, of threads that run *)
(* filters, of edits and of failures.                                      *)
(***************************************************************************)
EXTENDS FilterReload, TLAPS

-----------------------------------------------------------------------------
(* The values a reload goes through.                                       *)

\* The empty set of filters, and the reload that has not begun.
LEMMA RestedFacts ==
    /\ Out \in [header : 0..MaxEdits, program : 0..MaxEdits]
    /\ NoFilters \in FilterSets
    /\ \A f \in Files : NoFilters[f] = Out
    /\ Rested \in Tasks /\ Rested.pc = "idle" /\ Rested.got = NoFilters
    /\ NoHook \in Hooks /\ NoHook.moved = {} /\ ~NoHook.running
<1>1. Out \in [header : 0..MaxEdits, program : 0..MaxEdits]
  BY ReloadAssumption DEF Out
<1>2. NoFilters \in FilterSets /\ \A f \in Files : NoFilters[f] = Out
  BY <1>1 DEF NoFilters, FilterSets
<1> QED BY <1>1, <1>2 DEF Rested, Tasks, NoHook, Hooks

\* The reload that an actor has just begun has read nothing.
Begun == [Rested EXCEPT !.pc = "load", !.todo = Files]

\* ... and is a reload all the same.
LEMMA BegunFacts == Begun \in Tasks /\ Begun.pc = "load" /\ Begun.got = NoFilters
BY RestedFacts DEF Begun, Rested, Tasks

\* What a path holds is nothing, of version 0, or a version from 1 on.
LEMMA ContentFacts ==
    ASSUME TypeOK, NEW f \in Files
    PROVE  /\ disk[f].v \in 0..MaxEdits
           /\ disk[f] = Absent => disk[f].v = 0
           /\ disk[f] # Absent => disk[f].v \in 1..MaxEdits /\ disk[f].class \in Classes
           /\ disk[f].v = 0 => disk[f] = Absent
<1>1. disk[f] \in Content
  BY DEF TypeOK
<1> QED BY <1>1, ReloadAssumption DEF Content, Absent

\* ReadSource leaves the filters read so far as they are, or adds the header of
\* one file and hands that file to the compiler.
LEMMA ReadResult ==
    ASSUME TypeOK, NEW a \in Actors, NEW f \in Files, ReadSource(a, f)
    PROVE  \E t \in Tasks :
             /\ task' = [task EXCEPT ![a] = t]
             /\ \/ t.pc = "load" /\ t.got = task[a].got
                \/ /\ t.pc = "compile" /\ t.file = f /\ disk[f].v # 0
                   /\ t.got[f].header = disk[f].v /\ t.got[f].program = task[a].got[f].program
                   /\ \A g \in Files \ {f} : t.got[g] = task[a].got[g]
<1>1. /\ task[a] \in Tasks /\ task[a].pc = "load"
      /\ task[a].got \in FilterSets /\ task[a].got[f] \in [header : 0..MaxEdits, program : 0..MaxEdits]
  BY DEF TypeOK, ReadSource, Tasks, FilterSets
<1> DEFINE read == [task[a] EXCEPT !.todo = @ \ {f}, !.names = @ \cup {f}]
<1>2. read \in Tasks /\ read.got = task[a].got /\ read.pc = "load"
  BY <1>1 DEF Tasks
<1>3. CASE task' = [task EXCEPT ![a].todo = @ \ {f}]
  <2> DEFINE t == [task[a] EXCEPT !.todo = @ \ {f}]
  <2>1. t \in Tasks /\ t.pc = "load" /\ t.got = task[a].got
    BY <1>1 DEF Tasks
  <2>2. task' = [task EXCEPT ![a] = t]
    BY <1>3
  <2> QED BY <2>1, <2>2
<1>4. CASE task' = [task EXCEPT ![a] = read]
  BY <1>2, <1>4
<1>5. CASE /\ disk[f].class \in {"ok", "badScript"}
           /\ task' = [task EXCEPT ![a] =
                         [read EXCEPT !.pc = "compile", !.file = f, !.got[f].header = disk[f].v]]
  <2>1. disk[f].v \in 1..MaxEdits
    BY <1>5, ContentFacts DEF Absent
  <2> DEFINE half == [read.got[f] EXCEPT !.header = disk[f].v]
             got  == [read.got EXCEPT ![f] = half]
             t    == [read EXCEPT !.pc = "compile", !.file = f, !.got = got]
  <2>2. /\ half \in [header : 0..MaxEdits, program : 0..MaxEdits]
        /\ half.header = disk[f].v /\ half.program = task[a].got[f].program
    BY <1>1, <1>2, <2>1, ReloadAssumption
  <2>3. got \in FilterSets /\ got[f] = half /\ \A g \in Files \ {f} : got[g] = task[a].got[g]
    BY <1>1, <1>2, <2>2 DEF FilterSets
  <2>4. t \in Tasks /\ t.pc = "compile" /\ t.file = f /\ t.got = got
    BY <1>2, <2>3 DEF Tasks
  <2>5. task' = [task EXCEPT ![a] = t]
    BY <1>5
  <2> HIDE DEF half, got, t
  <2>6. disk[f].v # 0
    BY <2>1
  <2> QED BY <2>2, <2>3, <2>4, <2>5, <2>6
<1> QED BY <1>3, <1>4, <1>5 DEF ReadSource

\* Compile completes the filter whose header was read, or takes it out again.
LEMMA CompileResult ==
    ASSUME TypeOK, TasksInv, NEW a \in Actors, Compile(a)
    PROVE  \E t \in Tasks, f \in Files :
             /\ task' = [task EXCEPT ![a] = t] /\ t.pc = "load" /\ f = task[a].file
             /\ \A g \in Files \ {f} : t.got[g] = task[a].got[g]
             /\ \/ t.got[f] = Out
                \/ /\ t.got[f].header = task[a].got[f].header
                   /\ t.got[f].program = disk[f].v /\ disk[f].v # 0
<1> DEFINE f == task[a].file
           ok == disk[f] # Absent /\ disk[f].class # "badScript"
           one == IF ok THEN [task[a].got[f] EXCEPT !.program = disk[f].v] ELSE Out
           got == [task[a].got EXCEPT ![f] = one]
           t == [task[a] EXCEPT !.pc = "load", !.file = NoFile, !.got = got]
<1>1. /\ task[a] \in Tasks /\ f \in Files /\ task[a].got \in FilterSets
      /\ task[a].got[f] \in [header : 0..MaxEdits, program : 0..MaxEdits]
  BY DEF TypeOK, Compile, TasksInv, Tasks, FilterSets
<1>2. ok => disk[f].v \in 1..MaxEdits
  BY <1>1, ContentFacts
<1>3. one \in [header : 0..MaxEdits, program : 0..MaxEdits]
  BY <1>1, <1>2, RestedFacts, ReloadAssumption
<1>4. got \in FilterSets /\ got[f] = one /\ \A g \in Files \ {f} : got[g] = task[a].got[g]
  BY <1>1, <1>3 DEF FilterSets
<1>5. t \in Tasks /\ t.pc = "load" /\ t.got = got
  BY <1>1, <1>4 DEF Tasks
<1>6. task' = [task EXCEPT ![a] = t]
  BY DEF Compile
<1>7. \/ one = Out
      \/ one.header = task[a].got[f].header /\ one.program = disk[f].v /\ disk[f].v # 0
  BY <1>1, <1>2
<1> HIDE DEF one, got, t, ok
<1> QED BY <1>1, <1>4, <1>5, <1>6, <1>7

\* Prune leaves what was read as it is.
LEMMA PruneResult ==
    ASSUME TypeOK, NEW a \in Actors, Prune(a)
    PROVE  \E t \in Tasks : /\ task' = [task EXCEPT ![a] = t]
                            /\ t.pc = "install" /\ t.got = task[a].got
<1> DEFINE t == [task[a] EXCEPT !.pc = "install"]
<1>1. task[a] \in Tasks
  BY DEF TypeOK
<1>2. t \in Tasks /\ t.pc = "install" /\ t.got = task[a].got
  BY <1>1 DEF Tasks
<1>3. task' = [task EXCEPT ![a] = t]
  BY DEF Prune
<1> QED BY <1>2, <1>3

\* An actor whose reload is over rests, and a thread that ran filters has
\* forgotten what it moved.
LEMMA ResumeResult ==
    ASSUME TypeOK, NEW a \in Actors, Resume(a)
    PROVE  /\ task' = [task EXCEPT ![a] = Rested]
           /\ hook' \in [Workers -> Hooks]
           /\ \A w \in Workers : hook'[w] = IF w = a THEN NoHook ELSE hook[w]
           /\ watching' \in {"boot", "first snapshot", "poll", "reload"}
<1>1. CASE a = Watcher
  BY <1>1, ReloadAssumption DEF Resume, TypeOK
<1>2. CASE a # Watcher
  BY <1>2, RestedFacts DEF Resume, TypeOK
<1> QED BY <1>1, <1>2
\* EndHook keeps what was moved and, if anything was, begins a reload.
LEMMA EndHookResult ==
    ASSUME TypeOK, NEW w \in Workers, EndHook(w)
    PROVE  /\ task' = task \/ task' = [task EXCEPT ![w] = Begun]
           /\ hook' \in [Workers -> Hooks]
           /\ ~hook'[w].running /\ hook'[w].moved = hook[w].moved
           /\ \A u \in Workers \ {w} : hook'[u] = hook[u]
<1> DEFINE h == [NoHook EXCEPT !.moved = hook[w].moved]
<1>1. h \in Hooks /\ ~h.running /\ h.moved = hook[w].moved
  BY RestedFacts DEF TypeOK, Hooks, NoHook
<1>2. hook' = [hook EXCEPT ![w] = h]
  BY DEF EndHook
<1>3. task' = task \/ task' = [task EXCEPT ![w] = Begun]
  BY DEF EndHook, StartReload, Begun
<1> HIDE DEF h
<1> QED BY <1>1, <1>2, <1>3 DEF TypeOK

\* StartHook runs the installed filters and has moved none.
LEMMA StartHookResult ==
    ASSUME TypeOK, NEW w \in Workers, StartHook(w)
    PROVE  /\ hook' \in [Workers -> Hooks]
           /\ hook'[w].moved = {} /\ task[w].pc = "idle"
           /\ \A u \in Workers \ {w} : hook'[u] = hook[u]
<1> DEFINE h == [NoHook EXCEPT !.running = TRUE, !.held = Installed(current)]
<1>1. h \in Hooks /\ h.moved = {}
  BY DEF Hooks, NoHook, Installed
<1>2. hook' = [hook EXCEPT ![w] = h] /\ task[w].pc = "idle"
  BY DEF StartHook
<1> HIDE DEF h
<1> QED BY <1>1, <1>2 DEF TypeOK

\* A quarantine moves nothing, or the version that the path of the slow filter
\* holds by now, which it then holds no more.
LEMMA QuarantineResult ==
    ASSUME TypeOK, NEW w \in Workers, NEW f \in Files, QuarantineSlowFilter(w, f)
    PROVE  /\ hook' \in [Workers -> Hooks] /\ hook[w].running
           /\ \A u \in Workers \ {w} : hook'[u] = hook[u]
           /\ \/ disk' = disk /\ hook'[w].moved = hook[w].moved
              \/ /\ disk' = [disk EXCEPT ![f] = Absent] /\ disk[f].v # 0
                 /\ hook'[w].moved = hook[w].moved \cup {<<f, disk[f].v>>}
<1>1. hook[w] \in Hooks /\ hook[w].running
  BY DEF TypeOK, QuarantineSlowFilter
<1>2. CASE hook' = [hook EXCEPT ![w].held = @ \ {f}] /\ disk' = disk
  <2> DEFINE h == [hook[w] EXCEPT !.held = @ \ {f}]
  <2>1. h \in Hooks /\ h.moved = hook[w].moved
    BY <1>1 DEF Hooks
  <2>2. hook' = [hook EXCEPT ![w] = h]
    BY <1>2
  <2> HIDE DEF h
  <2> QED BY <1>1, <1>2, <2>1, <2>2 DEF TypeOK
<1>3. CASE /\ disk[f] # Absent /\ disk' = [disk EXCEPT ![f] = Absent]
           /\ hook' = [hook EXCEPT ![w].held = @ \ {f}, ![w].moved = @ \cup {<<f, disk[f].v>>}]
  <2> DEFINE h == [hook[w] EXCEPT !.held = @ \ {f}, !.moved = @ \cup {<<f, disk[f].v>>}]
  <2>1. disk[f].v \in 1..MaxEdits
    BY <1>3, ContentFacts
  <2>2. h \in Hooks /\ h.moved = hook[w].moved \cup {<<f, disk[f].v>>}
    <3>1. <<f, disk[f].v>> \in Files \X (1..MaxEdits)
      BY <2>1
    <3> QED BY <1>1, <3>1 DEF Hooks
  <2>3. hook' = [hook EXCEPT ![w] = h]
    BY <1>3
  <2>4. disk[f].v # 0
    BY <2>1
  <2> HIDE DEF h
  <2> QED BY <1>1, <1>3, <2>2, <2>3, <2>4 DEF TypeOK
<1> QED BY <1>2, <1>3 DEF QuarantineSlowFilter

\* What was moved is a version of a file.
LEMMA MovedFacts ==
    ASSUME TypeOK, NEW w \in Workers, NEW m \in hook[w].moved
    PROVE  m[1] \in Files /\ m[2] \in Nat \ {0}
<1>1. hook[w] \in Hooks
  BY DEF TypeOK
<1>2. m \in Files \X (1..MaxEdits)
  BY <1>1 DEF Hooks
<1> QED BY <1>2, ReloadAssumption

\* Failures are counted up to their bound.
LEMMA FailuresType ==
    ASSUME TypeOK,
           failures' = failures \/ (failures < MaxFailures /\ failures' = failures + 1)
    PROVE  failures' \in 0..MaxFailures
<1>1. failures \in 0..MaxFailures /\ MaxFailures \in Nat
  BY ReloadAssumption DEF TypeOK
<1> QED BY <1>1

\* The versions a snapshot notes.
LEMMA VersionsType == TypeOK => Versions \in [Files -> 0..MaxEdits]
BY ContentFacts DEF Versions

\* A recorded status keeps the channel to the writer a channel of statuses.
LEMMA RecordType ==
    ASSUME TypeOK, NEW f \in Files, NEW word \in {"valid", "invalid", "disabled"}, Record(f, word)
    PROVE  statuses' \in Seq(StatusEvents)
<1>1. [file |-> f, word |-> word] \in StatusEvents
  BY DEF StatusEvents
<1>2. statuses \in Seq(StatusEvents) /\ statuses' = Append(statuses, [file |-> f, word |-> word])
  BY DEF TypeOK, Record
<1> QED BY <1>1, <1>2

\* What the database writer makes of a status keeps the table a table.
LEMMA WriteType ==
    ASSUME TypeOK, WriteStatus
    PROVE  /\ statuses' \in Seq(StatusEvents)
           /\ table' \in [Files -> {"none", "valid", "invalid", "disabled"}]
<1>1. Head(statuses) \in StatusEvents /\ statuses' \in Seq(StatusEvents)
  <2>1. statuses \in Seq(StatusEvents) /\ statuses # <<>> /\ statuses' = Tail(statuses)
    BY DEF TypeOK, WriteStatus
  <2> QED BY <2>1
<1>2. CASE Head(statuses).word = "prune"
  <2>1. table' = Pruned(Head(statuses).names)
    BY <1>2 DEF WriteStatus
  <2> QED BY <1>1, <2>1 DEF Pruned, TypeOK
<1>3. CASE Head(statuses).word # "prune"
  <2>1. table' = Inserted(Head(statuses))
    BY <1>3 DEF WriteStatus
  <2>2. /\ Head(statuses).file \in Files
        /\ Head(statuses).word \in {"valid", "invalid", "disabled"}
    BY <1>1, <1>3 DEF StatusEvents
  <2> QED BY <1>1, <2>1, <2>2 DEF Inserted, TypeOK
<1> QED BY <1>2, <1>3

\* An edit gives its path the next version, or removes the file.
LEMMA WriteFileType ==
    ASSUME TypeOK, DiskInv, NEW f \in Files,
           \/ \E class \in Classes : Write(f, [v |-> edits + 1, class |-> class])
           \/ Write(f, Absent)
    PROVE  /\ disk' \in [Files -> Content] /\ edits' \in 0..MaxEdits /\ edits' = edits + 1
           /\ disk'[f].v \in {0, edits + 1}
           /\ \A g \in Files \ {f} : disk'[g] = disk[g]
<1>0. edits \in Nat /\ MaxEdits \in Nat /\ edits < MaxEdits /\ edits' = edits + 1
  BY ReloadAssumption DEF Write, DiskInv
<1>1. PICK c \in Content : Write(f, c) /\ c.v \in {0, edits + 1}
  <2>1. CASE Write(f, Absent)
    BY <2>1 DEF Absent, Content
  <2>2. ASSUME NEW class \in Classes, Write(f, [v |-> edits + 1, class |-> class])
        PROVE  \E c \in Content : Write(f, c) /\ c.v \in {0, edits + 1}
    <3>1. edits + 1 \in 1..MaxEdits
      BY <1>0
    <3> QED BY <2>2, <3>1 DEF Content
  <2> QED BY <2>1, <2>2
<1>2. edits' = edits + 1 /\ edits' \in 0..MaxEdits
  BY <1>0
<1>3. disk' = [disk EXCEPT ![f] = c]
  BY <1>1 DEF Write
<1> QED BY <1>1, <1>2, <1>3 DEF TypeOK

\* What any step does to the files: a path keeps what it holds, loses it, or
\* gets a version that no path has had.
LEMMA DiskResult ==
    ASSUME ReloadInv, [Next]_vars
    PROVE  /\ edits' \in {edits, edits + 1}
           /\ \A f \in Files : \/ disk'[f] = disk[f]
                               \/ disk'[f].v = 0
                               \/ disk'[f].v = edits + 1 /\ edits' = edits + 1
<1> DEFINE Goal == /\ edits' \in {edits, edits + 1}
                   /\ \A f \in Files : \/ disk'[f] = disk[f]
                                       \/ disk'[f].v = 0
                                       \/ disk'[f].v = edits + 1 /\ edits' = edits + 1
<1> USE DEF ReloadInv, TypeOK
<1>1. CASE UNCHANGED files
  BY <1>1 DEF files
<1>2. ASSUME NEW w \in Workers, NEW f \in Files, QuarantineSlowFilter(w, f) PROVE Goal
  <2>1. edits' = edits /\ (disk' = disk \/ disk' = [disk EXCEPT ![f] = Absent])
    BY <1>2, QuarantineResult DEF QuarantineSlowFilter
  <2>2. Absent.v = 0
    BY DEF Absent
  <2>3. \A g \in Files : disk'[g] = disk[g] \/ disk'[g] = Absent
    BY <2>1
  <2> QED BY <2>1, <2>2, <2>3
<1>3. ASSUME NEW f \in Files, Edit(f) PROVE Goal
  BY <1>3, WriteFileType DEF Edit
<1>4. ASSUME NEW f \in Files, SaveGenerated(f) PROVE Goal
  BY <1>4, WriteFileType DEF SaveGenerated
<1>5. CASE ValidateGenerated
  <2>1. edits' = edits /\ (disk' = disk \/ disk' = [disk EXCEPT ![saving] = Absent])
    BY <1>5 DEF ValidateGenerated
  <2>2. Absent.v = 0
    BY DEF Absent
  <2>3. \A g \in Files : disk'[g] = disk[g] \/ disk'[g] = Absent
    BY <2>1
  <2> QED BY <2>1, <2>2, <2>3
<1>6. CASE WatcherStep \/ WriteStatus \/ UNCHANGED vars
  BY <1>1, <1>6 DEF WatcherStep, FirstSnapshot, Poll, WriteStatus, vars, files
<1>7. ASSUME NEW a \in Actors, ReloadStep(a) \/ ReloadFails(a) PROVE Goal
  BY <1>1, <1>7 DEF ReloadStep, ReloadFails, ReadSource, Compile, Prune, Install
<1>8. ASSUME NEW w \in Workers, StartHook(w) \/ EndHook(w) PROVE Goal
  BY <1>1, <1>8 DEF StartHook, EndHook
<1> QED BY <1>2, <1>3, <1>4, <1>5, <1>6, <1>7, <1>8 DEF Next
-----------------------------------------------------------------------------
(* The invariant, conjunct by conjunct.                                    *)

\* The process starts with nothing installed, nothing moved and one reload begun.
LEMMA InitInv == Init => ReloadInv
<1> SUFFICES ASSUME Init PROVE ReloadInv
  OBVIOUS
<1>1. \A a \in Actors : task[a] = IF a = Watcher THEN Begun ELSE Rested
  BY DEF Init, Begun, Actors
<1>2. \A w \in Workers : task[w] = Rested /\ hook[w] = NoHook
  BY <1>1, ReloadAssumption DEF Init, Actors
<1>3. disk \in [Files -> Content] /\ \A f \in Files : disk[f].v <= 1
  <2>1. {Absent} \cup [v : {1}, class : Classes] \subseteq Content
    BY ReloadAssumption DEF Content
  <2>2. \A c \in {Absent} \cup [v : {1}, class : Classes] : c.v <= 1
    BY DEF Absent
  <2> QED BY <2>1, <2>2 DEF Init
<1>4. TypeOK
  <2>1. edits \in 0..MaxEdits /\ failures \in 0..MaxFailures /\ snapshot \in [Files -> 0..MaxEdits]
    BY ReloadAssumption DEF Init
  <2>2. current \in FilterSets /\ \A f \in Files : current[f].header = 0 <=> current[f].program = 0
    BY RestedFacts DEF Init, Out
  <2>3. task \in [Actors -> Tasks] /\ hook \in [Workers -> Hooks]
    BY RestedFacts, BegunFacts DEF Init, Begun
  <2> QED BY <1>3, <2>1, <2>2, <2>3 DEF TypeOK, Init
<1>5. TasksInv
  BY <1>1, RestedFacts, BegunFacts DEF TasksInv, Out
<1>6. DiskInv
  BY <1>3 DEF DiskInv, Init
<1>7. HookInv /\ MovedIsNotReloaded
  BY <1>2, RestedFacts DEF HookInv, MovedIsNotReloaded
<1> QED BY <1>4, <1>5, <1>6, <1>7 DEF ReloadInv

\* Every step keeps the types, and installs no half-read filter.
LEMMA TypeStep == ReloadInv /\ [Next]_vars => TypeOK'
<1> SUFFICES ASSUME ReloadInv, [Next]_vars PROVE TypeOK'
  OBVIOUS
<1>0. TypeOK /\ TasksInv /\ DiskInv
  BY DEF ReloadInv
<1> USE DEF vars, files, rows
<1>1. CASE FirstSnapshot
  <2>1. snapshot' \in [Files -> 0..MaxEdits]
    <3>1. 0 \in 0..MaxEdits
      BY ReloadAssumption
    <3>2. Versions \in [Files -> 0..MaxEdits] /\ [f \in Files |-> 0] \in [Files -> 0..MaxEdits]
      BY <1>0, <3>1, VersionsType
    <3>3. snapshot' = Versions \/ snapshot' = [f \in Files |-> 0]
      BY <1>1 DEF FirstSnapshot
    <3> QED BY <3>2, <3>3
  <2>2. failures' \in 0..MaxFailures
    BY <1>0, <1>1, FailuresType DEF FirstSnapshot
  <2> QED BY <1>0, <1>1, <2>1, <2>2 DEF FirstSnapshot, TypeOK
<1>2. CASE Poll
  <2>1. snapshot' \in [Files -> 0..MaxEdits]
    BY <1>0, <1>2, VersionsType DEF Poll
  <2>2. task' \in [Actors -> Tasks]
    BY <1>0, <1>2, BegunFacts DEF Poll, StartReload, Begun, TypeOK
  <2> QED BY <1>0, <1>2, <2>1, <2>2 DEF Poll, TypeOK
<1>3. ASSUME NEW a \in Actors, NEW f \in Files, ReadSource(a, f) PROVE TypeOK'
  <2>1. task' \in [Actors -> Tasks]
    <3>1. \E t \in Tasks : task' = [task EXCEPT ![a] = t]
      BY <1>0, <1>3, ReadResult
    <3> QED BY <1>0, <3>1 DEF TypeOK
  <2>2. statuses' \in Seq(StatusEvents)
    BY <1>0, <1>3, RecordType DEF ReadSource, TypeOK
  <2> QED BY <1>0, <1>3, <2>1, <2>2 DEF ReadSource, TypeOK
<1>4. ASSUME NEW a \in Actors, Compile(a) PROVE TypeOK'
  <2>1. task' \in [Actors -> Tasks]
    BY <1>0, <1>4, CompileResult DEF TypeOK
  <2>2. \E word \in {"valid", "invalid"} : Record(task[a].file, word)
    BY <1>4 DEF Compile
  <2>3. task[a].file \in Files
    BY <1>0, <1>4 DEF Compile, TasksInv
  <2>4. statuses' \in Seq(StatusEvents)
    BY <1>0, <2>2, <2>3, RecordType
  <2> QED BY <1>0, <1>4, <2>1, <2>4 DEF Compile, TypeOK
<1>5. ASSUME NEW a \in Actors, Prune(a) PROVE TypeOK'
  <2>1. task' \in [Actors -> Tasks]
    BY <1>0, <1>5, PruneResult DEF TypeOK
  <2>2. [word |-> "prune", names |-> task[a].names] \in StatusEvents
    BY <1>0 DEF TypeOK, Tasks, StatusEvents
  <2>3. statuses \in Seq(StatusEvents) /\
        statuses' = Append(statuses, [word |-> "prune", names |-> task[a].names])
    BY <1>0, <1>5 DEF Prune, TypeOK
  <2>4. statuses' \in Seq(StatusEvents)
    BY <2>2, <2>3
  <2> QED BY <1>0, <1>5, <2>1, <2>4 DEF Prune, TypeOK
<1>6. ASSUME NEW a \in Actors, Resume(a) PROVE task' \in [Actors -> Tasks]
  BY <1>0, <1>6, ResumeResult, RestedFacts DEF TypeOK
<1>7. ASSUME NEW a \in Actors, Install(a) PROVE TypeOK'
  <2>1. /\ current' = task[a].got /\ current' \in FilterSets
        /\ \A f \in Files : current'[f].header = 0 <=> current'[f].program = 0
    <3>1. task[a].pc = "install" /\ current' = task[a].got /\ task[a] \in Tasks
      BY <1>0, <1>7 DEF Install, TypeOK
    <3> QED BY <1>0, <3>1 DEF TasksInv, Tasks
  <2>2. /\ hook' \in [Workers -> Hooks]
        /\ watching' \in {"boot", "first snapshot", "poll", "reload"}
        /\ task' \in [Actors -> Tasks]
    BY <1>0, <1>6, <1>7, ResumeResult DEF Install
  <2> QED BY <1>0, <1>7, <2>1, <2>2 DEF Install, TypeOK
<1>8. ASSUME NEW a \in Actors, ReloadFails(a) PROVE TypeOK'
  <2>1. failures' \in 0..MaxFailures
    BY <1>0, <1>8, FailuresType DEF ReloadFails
  <2>2. /\ hook' \in [Workers -> Hooks]
        /\ watching' \in {"boot", "first snapshot", "poll", "reload"}
        /\ task' \in [Actors -> Tasks]
    BY <1>0, <1>6, <1>8, ResumeResult DEF ReloadFails
  <2> QED BY <1>0, <1>8, <2>1, <2>2 DEF ReloadFails, TypeOK
<1>9. ASSUME NEW w \in Workers, StartHook(w) PROVE TypeOK'
  <2>1. hook' \in [Workers -> Hooks]
    BY <1>0, <1>9, StartHookResult
  <2> QED BY <1>0, <1>9, <2>1 DEF StartHook, TypeOK
<1>10. ASSUME NEW w \in Workers, EndHook(w) PROVE TypeOK'
  <2>1. hook' \in [Workers -> Hooks]
    BY <1>0, <1>10, EndHookResult
  <2>2. task' \in [Actors -> Tasks]
    BY <1>0, <1>10, EndHookResult, BegunFacts DEF TypeOK, Actors
  <2> QED BY <1>0, <1>10, <2>1, <2>2 DEF EndHook, TypeOK
<1>11. ASSUME NEW w \in Workers, NEW f \in Files, QuarantineSlowFilter(w, f) PROVE TypeOK'
  <2>1. hook' \in [Workers -> Hooks]
    BY <1>0, <1>11, QuarantineResult
  <2>2. disk' \in [Files -> Content]
    BY <1>0, <1>11, QuarantineResult DEF TypeOK, Content
  <2>3. seen' \subseteq Files
    BY <1>0, <1>11 DEF QuarantineSlowFilter, TypeOK
  <2> QED BY <1>0, <1>11, <2>1, <2>2, <2>3 DEF QuarantineSlowFilter, TypeOK
<1>12. ASSUME NEW f \in Files, Edit(f) PROVE TypeOK'
  <2>1. disk' \in [Files -> Content] /\ edits' \in 0..MaxEdits
    BY <1>0, <1>12, WriteFileType DEF Edit
  <2> QED BY <1>0, <1>12, <2>1 DEF Edit, TypeOK
<1>13. ASSUME NEW f \in Files, SaveGenerated(f) PROVE TypeOK'
  <2>1. disk' \in [Files -> Content] /\ edits' \in 0..MaxEdits
    BY <1>0, <1>13, WriteFileType DEF SaveGenerated
  <2> QED BY <1>0, <1>13, <2>1 DEF SaveGenerated, TypeOK
<1>14. CASE ValidateGenerated
  <2>1. disk' \in [Files -> Content]
    BY <1>0, <1>14 DEF ValidateGenerated, TypeOK, Content
  <2>2. failures' \in 0..MaxFailures
    BY <1>0, <1>14, FailuresType DEF ValidateGenerated
  <2> QED BY <1>0, <1>14, <2>1, <2>2 DEF ValidateGenerated, TypeOK
<1>15. CASE WriteStatus
  BY <1>0, <1>15, WriteType DEF WriteStatus, TypeOK
<1>16. CASE UNCHANGED vars
  BY <1>0, <1>16 DEF TypeOK
<1> QED
  BY <1>1, <1>2, <1>3, <1>4, <1>5, <1>7, <1>8, <1>9, <1>10, <1>11, <1>12, <1>13, <1>14,
     <1>15, <1>16 DEF Next, WatcherStep, ReloadStep

\* What may become of the reload of an actor in one step: it stays as it is,
\* rests, begins, reads a header, completes a filter or goes on to install.
TaskSteps(a) ==
    \/ task'[a] = task[a]
    \/ task'[a] = Rested
    \/ task'[a] = Begun
    \/ task'[a].pc \in {"load", "install"} /\ task[a].pc = "load" /\ task'[a].got = task[a].got
    \/ \E f \in Files :
          /\ task[a].pc = "load" /\ task'[a].pc = "compile" /\ task'[a].file = f
          /\ task'[a].got[f].header = disk[f].v /\ disk[f].v # 0
          /\ task'[a].got[f].program = task[a].got[f].program
          /\ \A g \in Files \ {f} : task'[a].got[g] = task[a].got[g]
    \/ \E f \in Files :
          /\ task[a].pc = "compile" /\ task'[a].pc = "load" /\ f = task[a].file
          /\ \A g \in Files \ {f} : task'[a].got[g] = task[a].got[g]
          /\ \/ task'[a].got[f] = Out
             \/ /\ task'[a].got[f].header = task[a].got[f].header
                /\ task'[a].got[f].program = disk[f].v /\ disk[f].v # 0

\* ... and nothing else.
LEMMA TaskResult ==
    ASSUME ReloadInv, [Next]_vars, NEW a \in Actors
    PROVE  TaskSteps(a)
<1>0. TypeOK /\ TasksInv /\ task \in [Actors -> Tasks]
  BY DEF ReloadInv, TypeOK
<1>1. CASE UNCHANGED task
  BY <1>1 DEF TaskSteps
<1>2. CASE Poll
  BY <1>0, <1>2 DEF Poll, StartReload, Begun, TaskSteps
<1>3. ASSUME NEW b \in Actors, NEW f \in Files, ReadSource(b, f) PROVE TaskSteps(a)
  <2>1. PICK t \in Tasks :
             /\ task' = [task EXCEPT ![b] = t]
             /\ \/ t.pc = "load" /\ t.got = task[b].got
                \/ /\ t.pc = "compile" /\ t.file = f /\ disk[f].v # 0
                   /\ t.got[f].header = disk[f].v /\ t.got[f].program = task[b].got[f].program
                   /\ \A g \in Files \ {f} : t.got[g] = task[b].got[g]
    BY <1>0, <1>3, ReadResult
  <2>2. task[b].pc = "load"
    BY <1>3 DEF ReadSource
  <2> QED BY <1>0, <2>1, <2>2 DEF TaskSteps
<1>4. ASSUME NEW b \in Actors, Compile(b) PROVE TaskSteps(a)
  <2>1. PICK t \in Tasks, f \in Files :
             /\ task' = [task EXCEPT ![b] = t] /\ t.pc = "load" /\ f = task[b].file
             /\ \A g \in Files \ {f} : t.got[g] = task[b].got[g]
             /\ \/ t.got[f] = Out
                \/ /\ t.got[f].header = task[b].got[f].header
                   /\ t.got[f].program = disk[f].v /\ disk[f].v # 0
    BY <1>0, <1>4, CompileResult
  <2>2. task[b].pc = "compile"
    BY <1>4 DEF Compile
  <2> QED BY <1>0, <2>1, <2>2 DEF TaskSteps
<1>5. ASSUME NEW b \in Actors, Prune(b) PROVE TaskSteps(a)
  BY <1>0, <1>5, PruneResult DEF Prune, TaskSteps
<1>6. ASSUME NEW b \in Actors, Install(b) \/ ReloadFails(b) PROVE TaskSteps(a)
  BY <1>0, <1>6, ResumeResult DEF Install, ReloadFails, TaskSteps
<1>7. ASSUME NEW w \in Workers, EndHook(w) PROVE TaskSteps(a)
  BY <1>0, <1>7, EndHookResult DEF TaskSteps, Actors
<1>8. CASE FirstSnapshot \/ ValidateGenerated \/ WriteStatus \/ UNCHANGED vars
  BY <1>1, <1>8 DEF FirstSnapshot, ValidateGenerated, WriteStatus, vars
<1>9. ASSUME NEW f \in Files, Edit(f) \/ SaveGenerated(f) PROVE TaskSteps(a)
  BY <1>1, <1>9 DEF Edit, SaveGenerated
<1>10. ASSUME NEW w \in Workers, StartHook(w) \/ \E f \in Files : QuarantineSlowFilter(w, f)
       PROVE  TaskSteps(a)
  BY <1>1, <1>10 DEF StartHook, QuarantineSlowFilter
<1> QED
  BY <1>2, <1>3, <1>4, <1>5, <1>6, <1>7, <1>8, <1>9, <1>10 DEF Next, WatcherStep, ReloadStep

\* Every step keeps filters whole, except the one at the compiler.
LEMMA TasksStep == ReloadInv /\ [Next]_vars => TasksInv'
<1> SUFFICES ASSUME ReloadInv, [Next]_vars, NEW a \in Actors
             PROVE  /\ task'[a].pc = "idle" => task'[a] = Rested
                    /\ task'[a].pc = "compile" => /\ task'[a].file \in Files
                                                  /\ task'[a].got[task'[a].file].header # 0
                    /\ \A f \in Files : (task'[a].pc = "compile" /\ f = task'[a].file)
                          \/ (task'[a].got[f].header = 0 <=> task'[a].got[f].program = 0)
  BY DEF TasksInv
<1>1. TasksInv
  BY DEF ReloadInv
<1>2. TaskSteps(a)
  BY TaskResult
<1>3. Out.header = 0 /\ Out.program = 0
  BY DEF Out
<1> QED BY <1>1, <1>2, <1>3, RestedFacts, BegunFacts DEF TasksInv, TaskSteps

\* Every step numbers versions upwards.
LEMMA DiskStep == ReloadInv /\ [Next]_vars => DiskInv'
<1> SUFFICES ASSUME ReloadInv, [Next]_vars PROVE DiskInv'
  OBVIOUS
<1>1. /\ edits \in Nat \ {0} /\ \A f \in Files : disk[f].v \in Nat /\ disk[f].v <= edits
  BY ContentFacts, ReloadAssumption DEF ReloadInv, DiskInv
<1> QED BY <1>1, DiskResult DEF DiskInv

\* What a thread has moved: what it had, or in addition the version that its
\* path held; a thread that runs filters does not reload.
LEMMA HookResult ==
    ASSUME ReloadInv, [Next]_vars, NEW w \in Workers
    PROVE  /\ hook'[w].running => task'[w].pc = "idle"
           /\ \A m \in hook'[w].moved :
                 \/ m \in hook[w].moved
                 \/ /\ m[2] = disk[m[1]].v /\ m[2] # 0 /\ m[1] \in Files
                    /\ disk'[m[1]].v = 0 /\ hook[w].running /\ task'[w] = task[w]
<1> DEFINE Goal == /\ hook'[w].running => task'[w].pc = "idle"
                   /\ \A m \in hook'[w].moved :
                         \/ m \in hook[w].moved
                         \/ /\ m[2] = disk[m[1]].v /\ m[2] # 0 /\ m[1] \in Files
                            /\ disk'[m[1]].v = 0 /\ hook[w].running /\ task'[w] = task[w]
<1>0. /\ TypeOK /\ HookInv /\ w \in Actors /\ task \in [Actors -> Tasks]
      /\ hook[w].running => task[w].pc = "idle"
  BY DEF ReloadInv, HookInv, Actors, TypeOK
<1>1. CASE UNCHANGED hook /\ task'[w] = task[w]
  BY <1>0, <1>1
<1>2. CASE Poll
  BY <1>0, <1>1, <1>2, ReloadAssumption DEF Poll, StartReload
<1>3. ASSUME NEW a \in Actors, (\E f \in Files : ReadSource(a, f)) \/ Compile(a) \/ Prune(a)
      PROVE  Goal
  <2>1. UNCHANGED hook /\ task[a].pc # "idle"
    BY <1>3 DEF ReadSource, Compile, Prune
  <2>2. CASE a = w
    BY <1>0, <2>1, <2>2
  <2>3. CASE a # w
    <3>1. task'[w] = task[w]
      BY <1>0, <1>3, <2>3 DEF ReadSource, Compile, Prune
    <3> QED BY <1>1, <2>1, <3>1
  <2> QED BY <2>2, <2>3
<1>4. ASSUME NEW a \in Actors, Install(a) \/ ReloadFails(a) PROVE Goal
  <2>1. Resume(a)
    BY <1>4 DEF Install, ReloadFails
  <2>2. task' = [task EXCEPT ![a] = Rested] /\ hook'[w] = IF w = a THEN NoHook ELSE hook[w]
    BY <1>0, <2>1, ResumeResult
  <2> QED BY <1>0, <2>2, RestedFacts
<1>5. ASSUME NEW u \in Workers, StartHook(u) PROVE Goal
  BY <1>0, <1>5, StartHookResult DEF StartHook
<1>6. ASSUME NEW u \in Workers, EndHook(u) PROVE Goal
  <2>1. CASE u = w
    BY <1>0, <1>6, <2>1, EndHookResult
  <2>2. CASE u # w
    <3>1. hook'[w] = hook[w] /\ task'[w] = task[w]
      BY <1>0, <1>6, <2>2, EndHookResult DEF Actors
    <3> QED BY <1>0, <3>1
  <2> QED BY <2>1, <2>2
<1>7. ASSUME NEW u \in Workers, NEW f \in Files, QuarantineSlowFilter(u, f) PROVE Goal
  <2>1. task' = task
    BY <1>7 DEF QuarantineSlowFilter
  <2>2. CASE u = w
    <3>1. CASE disk' = disk /\ hook'[w].moved = hook[w].moved
      BY <1>0, <1>7, <2>1, <2>2, <3>1, QuarantineResult
    <3>2. CASE /\ disk' = [disk EXCEPT ![f] = Absent] /\ disk[f].v # 0
               /\ hook'[w].moved = hook[w].moved \cup {<<f, disk[f].v>>}
      <4>1. disk'[f].v = 0
        BY <1>0, <3>2 DEF TypeOK, Absent
      <4>2. hook[w].running
        BY <1>7, <2>2 DEF QuarantineSlowFilter
      <4> QED BY <1>0, <2>1, <3>2, <4>1, <4>2
    <3> QED BY <1>0, <1>7, <2>2, <3>1, <3>2, QuarantineResult
  <2>3. CASE u # w
    BY <1>0, <1>7, <2>1, <2>3, QuarantineResult
  <2> QED BY <2>2, <2>3
<1>8. CASE FirstSnapshot \/ ValidateGenerated \/ WriteStatus \/ UNCHANGED vars
  BY <1>1, <1>8 DEF FirstSnapshot, ValidateGenerated, WriteStatus, vars
<1>9. ASSUME NEW f \in Files, Edit(f) \/ SaveGenerated(f) PROVE Goal
  BY <1>1, <1>9 DEF Edit, SaveGenerated
<1> QED
  BY <1>2, <1>3, <1>4, <1>5, <1>6, <1>7, <1>8, <1>9 DEF Next, WatcherStep, ReloadStep

\* Every step keeps what was moved off its path.
LEMMA HookStep == ReloadInv /\ [Next]_vars => HookInv'
<1> SUFFICES ASSUME ReloadInv, [Next]_vars, NEW w \in Workers, NEW m \in hook'[w].moved
             PROVE  m[2] <= edits' /\ disk'[m[1]].v # m[2]
  BY HookResult DEF HookInv
<1>1. /\ DiskInv /\ HookInv /\ TypeOK
      /\ \A f \in Files : disk[f].v \in Nat /\ disk[f].v <= edits
  BY ContentFacts, ReloadAssumption DEF ReloadInv, DiskInv
<1>2. edits \in Nat /\ edits <= edits' /\ edits' \in Nat
  BY <1>1, DiskResult DEF DiskInv
<1>3. CASE m \in hook[w].moved
  <2>1. /\ m[1] \in Files /\ m[2] \in Nat \ {0}
        /\ m[2] <= edits /\ disk[m[1]].v # m[2]
    BY <1>1, <1>3, MovedFacts DEF HookInv
  <2>2. \/ disk'[m[1]] = disk[m[1]]
        \/ disk'[m[1]].v = 0
        \/ disk'[m[1]].v = edits + 1
    BY <2>1, DiskResult
  <2> QED BY <1>2, <2>1, <2>2
<1>4. CASE m \notin hook[w].moved
  <2>1. /\ m[2] = disk[m[1]].v /\ m[2] # 0 /\ m[1] \in Files /\ disk'[m[1]].v = 0
    BY <1>4, HookResult
  <2> QED BY <1>1, <1>2, <2>1
<1> QED BY <1>3, <1>4

\* Every step of a thread's reload reads something else than what it moved.
LEMMA MovedStep == ReloadInv /\ [Next]_vars => MovedIsNotReloaded'
<1> SUFFICES ASSUME ReloadInv, [Next]_vars, NEW w \in Workers, NEW m \in hook'[w].moved
             PROVE  task'[w].got[m[1]].header # m[2] /\ task'[w].got[m[1]].program # m[2]
  BY DEF MovedIsNotReloaded
<1>1. TypeOK /\ TasksInv /\ HookInv /\ MovedIsNotReloaded /\ w \in Actors
  BY DEF ReloadInv, Actors
<1>2. Out.header = 0 /\ Out.program = 0
  BY DEF Out
<1>3. CASE m \in hook[w].moved
  <2>1. /\ m[1] \in Files /\ m[2] # 0 /\ disk[m[1]].v # m[2]
        /\ task[w].got[m[1]].header # m[2] /\ task[w].got[m[1]].program # m[2]
    BY <1>1, <1>3, MovedFacts DEF HookInv, MovedIsNotReloaded
  <2>2. TaskSteps(w)
    BY <1>1, TaskResult
  <2> QED BY <1>2, <2>1, <2>2, RestedFacts, BegunFacts DEF TaskSteps
<1>4. CASE m \notin hook[w].moved
  <2>1. m[2] # 0 /\ m[1] \in Files /\ hook[w].running /\ task'[w] = task[w]
    BY <1>4, HookResult
  <2>2. task[w] = Rested
    BY <1>1, <2>1 DEF HookInv, TasksInv
  <2> QED BY <1>2, <2>1, <2>2, RestedFacts
<1> QED BY <1>3, <1>4

\* Every step, and every stuttering step, preserves the invariant.
LEMMA ReloadInvStep == ReloadInv /\ [Next]_vars => ReloadInv'
BY TypeStep, TasksStep, DiskStep, HookStep, MovedStep DEF ReloadInv

\* The inductive invariant holds in every reachable state, for any number of
\* files, threads, edits and failures.
THEOREM Invariance == Spec => []ReloadInv
BY InitInv, ReloadInvStep, PTL DEF Spec

\* Type correctness, which says in particular that no reload, however it
\* overlaps with others and with changes of the files, installs a filter that
\* has a header without a program or a program without a header.
THEOREM TypeCorrect == Spec => []TypeOK
<1>1. ReloadInv => TypeOK
  BY DEF ReloadInv
<1> QED BY Invariance, <1>1, PTL

\* The reload that a thread makes after a quarantine never reads the version it
\* moved away, whatever the user and the editor write to the same path.  Reloads
\* of others, begun before the move, are not meant.
THEOREM MovedStaysOut == Spec => []MovedIsNotReloaded
<1>1. ReloadInv => MovedIsNotReloaded
  BY DEF ReloadInv
<1> QED BY Invariance, <1>1, PTL
=============================================================================
