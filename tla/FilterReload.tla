---------------------------- MODULE FilterReload ----------------------------
(***************************************************************************)
(* How filter files become the installed filter set (manager.rs), and who  *)
(* changes them: the user, the editor that saves generated filters         *)
(* (generated.rs), and the threads that run filters, which move a slow     *)
(* generated filter to quarantine (filter_runtime.rs).                     *)
(*                                                                         *)
(* A reload reads the directories file by file and takes no lock until it  *)
(* installs the result, so reloads of the watcher and of the threads       *)
(* overlap with one another and with changes on disk.  File names are      *)
(* taken to be distinct, without explicit ids, and every change of a file  *)
(* to give it another length or time of modification.                      *)
(***************************************************************************)
EXTENDS Naturals, Sequences

CONSTANTS
    Files,          \* paths of filter files
    Generated,      \* those in the directory of generated filters
    Workers,        \* threads that run filters
    Classes,        \* what files may hold: see Content
    Watcher,        \* the task that polls the directories
    NoFile,         \* no file
    MaxEdits,       \* bound: changes of files by the user and the editor
    MaxFailures     \* bound: reloads and snapshots that fail

ASSUME ReloadAssumption ==
    /\ Generated \subseteq Files
    /\ Watcher \notin Workers /\ NoFile \notin Files
    /\ Classes \subseteq {"ok", "disabled", "badHeader", "badScript"}
    /\ MaxEdits \in Nat \ {0} /\ MaxFailures \in Nat

Actors == Workers \cup {Watcher}

VARIABLES
    disk,           \* what each path holds: a version and its class
    edits,          \* the number of changes made, which numbers the versions
    failures,       \* the number of reloads and snapshots that failed
    current,        \* FilterManager::current, shared by all
    snapshot,       \* last_snapshot of the watcher: versions
    watching,       \* where the watcher is
    task,           \* the reload that each actor is carrying out
    hook,           \* the filters a thread is running
    seen,           \* quarantined_once
    saving,         \* the file the editor has written and not yet validated
    statuses,       \* status events on their way to the database
    table           \* the table of filter statuses

files == <<disk, edits>>
rows  == <<statuses, table>>
vars  == <<files, failures, current, snapshot, watching, task, hook, seen, saving, rows>>

Absent == [v |-> 0, class |-> "none"]
Content == {Absent} \cup [v : 1..MaxEdits, class : Classes]

\* A filter has the header of one read of the file and the program of another.
Out == [header |-> 0, program |-> 0]
Loadable(f) ==
    IF disk[f].class = "ok" THEN [header |-> disk[f].v, program |-> disk[f].v] ELSE Out
Versions == [f \in Files |-> disk[f].v]
Installed(set) == {f \in Files : set[f] # Out}
NoFilters == [f \in Files |-> Out]

Rested == [pc |-> "idle", todo |-> {}, file |-> NoFile, got |-> NoFilters, names |-> {}]

-----------------------------------------------------------------------------
(* A reload, by the watcher or by a thread.                                *)

\* reload, load_filter_set: the files are yet to be read, in any order.
StartReload(a) ==
    task' = [task EXCEPT ![a] = [Rested EXCEPT !.pc = "load", !.todo = Files]]

\* record_filter_status: an event for the database writer.
Record(f, word) == statuses' = Append(statuses, [file |-> f, word |-> word])

\* load_filter up to the compiler: a path that holds no file is passed over;
\* a header that cannot be parsed and a disabled filter are recorded and left out.
ReadSource(a, f) ==
    /\ task[a].pc = "load" /\ f \in task[a].todo
    /\ LET read == [task[a] EXCEPT !.todo = @ \ {f}, !.names = @ \cup {f}] IN
       \/ /\ disk[f] = Absent
          /\ task' = [task EXCEPT ![a].todo = @ \ {f}]
          /\ UNCHANGED statuses
       \/ /\ disk[f].class = "badHeader"
          /\ task' = [task EXCEPT ![a] = read]
          /\ Record(f, "invalid")
       \/ /\ disk[f].class = "disabled"
          /\ task' = [task EXCEPT ![a] = read]
          /\ Record(f, "disabled")
       \/ /\ disk[f].class \in {"ok", "badScript"}
          /\ task' = [task EXCEPT ![a] =
                        [read EXCEPT !.pc = "compile", !.file = f, !.got[f].header = disk[f].v]]
          /\ UNCHANGED statuses
    /\ UNCHANGED <<files, failures, current, snapshot, watching, hook, seen, saving, table>>

\* Fault: a filter that does not compile is not taken out again.
Compile_KeepsHeader(a) ==
    /\ task[a].pc = "compile"
    /\ LET f  == task[a].file
           ok == disk[f] # Absent /\ disk[f].class # "badScript"
       IN /\ task' = [task EXCEPT ![a].pc = "load", ![a].file = NoFile,
                                  ![a].got[f].program = IF ok THEN disk[f].v ELSE 0]
          /\ Record(f, IF ok THEN "valid" ELSE "invalid")
    /\ UNCHANGED <<files, failures, current, snapshot, watching, hook, seen, saving, table>>

\* compile_filter_definition reads the path once more; a file that has gone or
\* does not compile is recorded and left out.
Compile(a) ==
    /\ task[a].pc = "compile"
    /\ LET f  == task[a].file
           ok == disk[f] # Absent /\ disk[f].class # "badScript"
       IN /\ task' = [task EXCEPT ![a].pc = "load", ![a].file = NoFile,
                                  ![a].got[f] = IF ok THEN [@ EXCEPT !.program = disk[f].v] ELSE Out]
          /\ Record(f, IF ok THEN "valid" ELSE "invalid")
    /\ UNCHANGED <<files, failures, current, snapshot, watching, hook, seen, saving, table>>

\* prune_filter_statuses: rows of files that this reload did not list are to go.
Prune(a) ==
    /\ task[a].pc = "load" /\ task[a].todo = {}
    /\ task' = [task EXCEPT ![a].pc = "install"]
    /\ statuses' = Append(statuses, [word |-> "prune", names |-> task[a].names])
    /\ UNCHANGED <<files, failures, current, snapshot, watching, hook, seen, saving, table>>

NoHook == [running |-> FALSE, held |-> {}, moved |-> {}]

\* Where an actor goes when its reload is over, with or without success.
Resume(a) ==
    /\ task' = [task EXCEPT ![a] = Rested]
    /\ hook' = IF a = Watcher THEN hook ELSE [hook EXCEPT ![a] = NoHook]
    /\ watching' = IF a # Watcher THEN watching
                   ELSE IF watching = "boot" THEN "first snapshot" ELSE "poll"

\* Fault: what the watcher notes is what it finds after the reload.
Install_SnapshotsAfter(a) ==
    /\ task[a].pc = "install"
    /\ current' = task[a].got
    /\ snapshot' = IF a = Watcher THEN Versions ELSE snapshot
    /\ Resume(a)
    /\ UNCHANGED <<files, failures, seen, saving, rows>>

\* The new set replaces the old one, whatever has been installed meanwhile.
Install(a) ==
    /\ task[a].pc = "install"
    /\ current' = task[a].got
    /\ Resume(a)
    /\ UNCHANGED <<files, failures, snapshot, seen, saving, rows>>

\* A directory cannot be read: the previous set is kept, and nothing retried.
ReloadFails(a) ==
    /\ task[a].pc = "load" /\ failures < MaxFailures
    /\ failures' = failures + 1
    /\ Resume(a)
    /\ UNCHANGED <<files, current, snapshot, seen, saving, rows>>

ReloadStep(a) == (\E f \in Files : ReadSource(a, f)) \/ Compile(a) \/ Prune(a) \/ Install(a)

-----------------------------------------------------------------------------
(* The watcher: reload_loop.                                               *)

\* The first snapshot is read after the first reload; if it cannot be read, it is empty.
FirstSnapshot ==
    /\ watching = "first snapshot"
    /\ \/ /\ snapshot' = Versions
          /\ UNCHANGED failures
       \/ /\ failures < MaxFailures /\ failures' = failures + 1
          /\ snapshot' = [f \in Files |-> 0]
    /\ watching' = "poll"
    /\ UNCHANGED <<files, current, task, hook, seen, saving, rows>>

\* Fault: the change is not noted.
Poll_NotNoted ==
    /\ watching = "poll" /\ Versions # snapshot
    /\ watching' = "reload"
    /\ StartReload(Watcher)
    /\ UNCHANGED <<files, failures, current, snapshot, hook, seen, saving, rows>>

\* A poll that finds a change notes it and reloads.
Poll ==
    /\ watching = "poll" /\ Versions # snapshot
    /\ snapshot' = Versions
    /\ watching' = "reload"
    /\ StartReload(Watcher)
    /\ UNCHANGED <<files, failures, current, hook, seen, saving, rows>>

-----------------------------------------------------------------------------
(* The threads that run filters.                                           *)

\* A hook holds on to the set installed when it starts.
StartHook(w) ==
    /\ ~hook[w].running /\ task[w].pc = "idle"
    /\ Installed(current) # {}
    /\ hook' = [hook EXCEPT ![w] = [NoHook EXCEPT !.running = TRUE, !.held = Installed(current)]]
    /\ UNCHANGED <<files, failures, current, snapshot, watching, task, seen, saving, rows>>

\* Fault: the file is copied to quarantine and not removed.
QuarantineSlowFilter_Copies(w, f) ==
    /\ hook[w].running /\ f \in hook[w].held /\ f \notin seen
    /\ seen' = seen \cup {f}
    /\ f \in Generated /\ disk[f] # Absent
    /\ hook' = [hook EXCEPT ![w].held = @ \ {f}, ![w].moved = @ \cup {<<f, disk[f].v>>}]
    /\ UNCHANGED <<files, failures, current, snapshot, watching, task, saving, rows>>

\* A filter was slow: the first time its path is noted, and if it is generated
\* the file that is there by now is moved away, if it is there and can be moved.
QuarantineSlowFilter(w, f) ==
    /\ hook[w].running /\ f \in hook[w].held /\ f \notin seen
    /\ seen' = seen \cup {f}
    /\ \/ /\ hook' = [hook EXCEPT ![w].held = @ \ {f}]
          /\ UNCHANGED disk
       \/ /\ f \in Generated /\ disk[f] # Absent
          /\ disk' = [disk EXCEPT ![f] = Absent]
          /\ hook' = [hook EXCEPT ![w].held = @ \ {f}, ![w].moved = @ \cup {<<f, disk[f].v>>}]
    /\ UNCHANGED <<edits, failures, current, snapshot, watching, task, saving, rows>>

\* When the filters have run, a thread that moved one of them reloads.
EndHook(w) ==
    /\ hook[w].running
    /\ hook' = [hook EXCEPT ![w] = [NoHook EXCEPT !.moved = hook[w].moved]]
    /\ IF hook[w].moved # {} THEN StartReload(w) ELSE UNCHANGED task
    /\ UNCHANGED <<files, failures, current, snapshot, watching, seen, saving, rows>>

-----------------------------------------------------------------------------
(* Those who change files.                                                 *)

Write(f, content) ==
    /\ edits < MaxEdits
    /\ edits' = edits + 1
    /\ disk' = [disk EXCEPT ![f] = content]

\* The user writes or removes a file.
Edit(f) ==
    /\ \/ \E class \in Classes : Write(f, [v |-> edits + 1, class |-> class])
       \/ disk[f] # Absent /\ Write(f, Absent)
    /\ UNCHANGED <<failures, current, snapshot, watching, task, hook, seen, saving, rows>>

\* The editor writes a generated filter to a path that is not taken.
SaveGenerated(f) ==
    /\ saving = NoFile /\ f \in Generated /\ disk[f] = Absent
    /\ \E class \in Classes : Write(f, [v |-> edits + 1, class |-> class])
    /\ saving' = f
    /\ UNCHANGED <<failures, current, snapshot, watching, task, hook, seen, rows>>

\* ... and has a filter manager of its own load it and reload.  The filter is
\* kept, or moved to quarantine because it or the reload fails, if that can be done.
ValidateGenerated ==
    /\ saving # NoFile
    /\ saving' = NoFile
    /\ \/ UNCHANGED <<disk, failures>>
       \/ /\ disk[saving].class \in {"badHeader", "badScript"}
          /\ disk' = [disk EXCEPT ![saving] = Absent]
          /\ UNCHANGED failures
       \/ /\ disk[saving].class \in {"ok", "disabled"}
          /\ failures < MaxFailures /\ failures' = failures + 1
          /\ disk' = [disk EXCEPT ![saving] = Absent]
    /\ UNCHANGED <<edits, current, snapshot, watching, task, hook, seen, rows>>

-----------------------------------------------------------------------------
(* The database writer: insert_filter_status and prune_filter_statuses.    *)

\* Fault: the rows of the files that were listed go.
Pruned_Listed(names) == [f \in Files |-> IF f \in names THEN "none" ELSE table[f]]

\* The rows of files that were not listed go.
Pruned(names) == [f \in Files |-> IF f \in names THEN table[f] ELSE "none"]

\* One row for every file, that of its last status.
Inserted(status) == [table EXCEPT ![status.file] = status.word]

\* The writer takes the events in the order in which they were sent.
WriteStatus ==
    /\ statuses # <<>>
    /\ statuses' = Tail(statuses)
    /\ table' = IF Head(statuses).word = "prune" THEN Pruned(Head(statuses).names)
                                                  ELSE Inserted(Head(statuses))
    /\ UNCHANGED <<files, failures, current, snapshot, watching, task, hook, seen, saving>>

-----------------------------------------------------------------------------
\* The process starts: some files are there, nothing is installed.
Init ==
    /\ disk \in [Files -> {Absent} \cup [v : {1}, class : Classes]]
    /\ edits = 1 /\ failures = 0
    /\ current = NoFilters
    /\ snapshot = [f \in Files |-> 0]
    /\ watching = "boot"
    /\ task = [a \in Actors |-> IF a = Watcher THEN [Rested EXCEPT !.pc = "load", !.todo = Files]
                                               ELSE Rested]
    /\ hook = [w \in Workers |-> NoHook]
    /\ seen = {} /\ saving = NoFile
    /\ statuses = <<>> /\ table = [f \in Files |-> "none"]

WatcherStep == FirstSnapshot \/ Poll

Next ==
    \/ WatcherStep
    \/ \E a \in Actors : ReloadStep(a) \/ ReloadFails(a)
    \/ \E w \in Workers : StartHook(w) \/ EndHook(w)
                            \/ \E f \in Files : QuarantineSlowFilter(w, f)
    \/ \E f \in Files : Edit(f) \/ SaveGenerated(f)
    \/ ValidateGenerated
    \/ WriteStatus

\* The timer of the watcher fires, reloads and hooks run to their end, and the
\* database writer takes what it is sent.  Users and editors do as they like.
Fairness ==
    /\ WF_vars(WatcherStep)
    /\ \A a \in Actors : WF_vars(ReloadStep(a))
    /\ \A w \in Workers : WF_vars(EndHook(w))
    /\ WF_vars(ValidateGenerated)
    /\ WF_vars(WriteStatus)

Spec == Init /\ [][Next]_vars /\ Fairness

-----------------------------------------------------------------------------
(* Properties.                                                             *)

FilterSets == [Files -> [header : 0..MaxEdits, program : 0..MaxEdits]]
Tasks ==
    [pc : {"idle", "load", "compile", "install"}, todo : SUBSET Files,
     file : Files \cup {NoFile}, got : FilterSets, names : SUBSET Files]
Hooks == [running : BOOLEAN, held : SUBSET Files, moved : SUBSET (Files \X (1..MaxEdits))]
StatusEvents ==
    [file : Files, word : {"valid", "invalid", "disabled"}]
      \cup [word : {"prune"}, names : SUBSET Files]

\* The types of the reloads, of what they install and of what they record; a
\* set that is installed has no filter whose compilation was not completed.
TypeOK ==
    /\ disk \in [Files -> Content] /\ edits \in 0..MaxEdits /\ failures \in 0..MaxFailures
    /\ current \in FilterSets
    /\ \A f \in Files : current[f].header = 0 <=> current[f].program = 0
    /\ snapshot \in [Files -> 0..MaxEdits]
    /\ watching \in {"boot", "first snapshot", "poll", "reload"}
    /\ task \in [Actors -> Tasks]
    /\ hook \in [Workers -> Hooks]
    /\ seen \subseteq Files /\ saving \in Files \cup {NoFile}
    /\ statuses \in Seq(StatusEvents)
    /\ table \in [Files -> {"none", "valid", "invalid", "disabled"}]

\* A file that is there is installed as it is, or left out if it does not load.
Loaded(f) == disk[f] # Absent => current[f] = Loadable(f)

\* A change that the watcher finds is loaded: once it reloads, and from then on
\* no reload fails, the installed filters come to be those of the files that
\* are there and stay so, however files change while they are being read.
ChangesFoundAreLoaded ==
    (watching = "reload" /\ failures = MaxFailures) ~> [](\A f \in Files : Loaded(f))

\* The row of a file that is there says what the file is.
Listed(f) ==
    disk[f] # Absent =>
        table[f] = CASE disk[f].class = "ok" -> "valid"
                     [] disk[f].class = "disabled" -> "disabled"
                     [] OTHER -> "invalid"

\* A change that the watcher finds is listed: under the same conditions the rows
\* that the filter list shows come to say what the files are, and stay so,
\* through the statuses and prunes of the reloads in between.
ChangesFoundAreListed ==
    (watching = "reload" /\ failures = MaxFailures) ~> [](\A f \in Files : Listed(f))

\* The reload that a thread makes after its own quarantine does not read what it
\* moved away, whatever else is written to the same path in the meantime.  Only
\* this reload, begun after the move: one of the watcher or of another thread that
\* read the file before may still install it (run reload_overlap).
MovedIsNotReloaded ==
    \A w \in Workers : \A m \in hook[w].moved :
        task[w].got[m[1]].header # m[2] /\ task[w].got[m[1]].program # m[2]

\* Reloads come to an end when the files no longer change: neither a reload nor
\* a quarantine nor a failure makes the watcher and the threads reload for ever.
ReloadsSettle == <>[](\A a \in Actors : task[a] = Rested)

-----------------------------------------------------------------------------
(* The inductive invariant behind the safety properties (FilterReload_proofs). *)

\* A filter is half read only while its file is with the compiler, and the
\* actor whose reload is over has forgotten what it read.
TasksInv ==
    \A a \in Actors :
        /\ task[a].pc = "idle" => task[a] = Rested
        /\ task[a].pc = "compile" => task[a].file \in Files /\ task[a].got[task[a].file].header # 0
        /\ \A f \in Files : (task[a].pc = "compile" /\ f = task[a].file)
                               \/ (task[a].got[f].header = 0 <=> task[a].got[f].program = 0)

\* Versions are numbered by the changes: what is written next is new.
DiskInv == edits \in Nat \ {0} /\ \A f \in Files : disk[f].v <= edits

\* A thread moves files before it reloads, and a version that was moved is a
\* past one that its path does not hold any more.
HookInv ==
    \A w \in Workers :
        /\ hook[w].running => task[w].pc = "idle"
        /\ \A m \in hook[w].moved : m[2] <= edits /\ disk[m[1]].v # m[2]

\* Together they are preserved by every step of every reload, hook and edit.
ReloadInv == TypeOK /\ TasksInv /\ DiskInv /\ HookInv /\ MovedIsNotReloaded
=============================================================================
