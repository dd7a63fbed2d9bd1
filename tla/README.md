# A TLA+ development for inspect

`inspect` is a terminal proxy that intercepts HTTP(S) traffic, runs Roto filters on it,
captures requests and responses to files and a SQLite database, and shows them in a
terminal interface. This directory models the parts in which tasks, threads, queues and
files interact, and what filters and the filter editor make of a message. It checks them
with TLC on small instances, and proves the safety properties of the capture, the event
streams, the state store, the reloads, the filter chain, the packet list and the editor with
TLAPS for every instance; only what becomes of an edited body is left to TLC.

All line references are to the Rust code under `src/src/`. `PROJECT.json` maps every
definition that models code to its lines, lists the runs, the mutants that each property
must catch, the findings, the hazards and the theorems.

## 1. The system

| Part | State | Operations | Interacts with |
|---|---|---|---|
| Flow dispatcher (`mitm/flow/dispatcher.rs`) | one task per flow, a second one per streamed body, a shared flow counter | dispatch a request, run request filters, commit the request, call upstream or build a synthetic response, choose collect / probe / stream / event stream, run response filters, commit, answer, finalize a stream | filters, capture service, upstream client, event publisher |
| Capture service (`capture_service.rs`) | files of a flow | commit request, response, tunnel failure | file system, database channel |
| Database writer (`store_metadata.rs`) | an unbounded channel, one writer task, the SQLite pool | insert request, response, statistics, filter status; prune statuses; close | everyone who sends rows |
| Flow events (`flow_event.rs`, `event_bridge.rs`, `tui_sink.rs`) | a bounded channel, a sink | publish with `try_send`, receive | dispatcher, terminal interface |
| Filter manager (`filters/manager.rs`, `generated.rs`, `mitm/capture.rs`) | installed filter set behind a lock, last snapshot of the directories | load, poll, reload, install, quarantine, save generated filters | file system, database channel, filter runtime |
| Filter runtime (`filter_runtime.rs`, `filter_bridge.rs`) | paths quarantined once | run hooks, merge actions, measure, quarantine slow filters | filter manager, state store |
| State store (`state_store.rs`, `runtime_state.rs`) | entries and three byte counters behind a mutex | get, put, delete, sweep | filter scripts |
| SSE capture (`sse_capture.rs`) | a buffer, flags, a writer task | push a frame, finish | forwarded body, file system |
| WebSocket (`flow/websocket.rs`, `mitm/websocket.rs`) | handshake of a flow, a relay task | capture the handshake, relay messages | upstream |
| Outbound jobs (`http_client.rs`) | a bounded channel, a worker | enqueue, send | response filters |
| Packet list and details (`tui/`) | rows, index, search results, selection, open details | apply events, trim, search, select, load details | flow events, database, files |
| Generator, editor, diff engine (`filters/`) | an editing session | derive filters from edited messages, save | filter manager |

What is hard here: tasks that are dropped at any `await` because the client went away; a
streamed body that ends, fails and is dropped, and must be recorded exactly once; bounded
channels that drop what does not fit; a database pool closed while rows are queued;
capture writes of which one fails; clocks read before a lock is taken; reloads that read
files one by one while others change them and install without a lock; terminators that
fall between two frames; rows that move while indices, search results and selections refer
to them; several filters that patch one message; edits that are turned into patches which
must give the edited message again.

What makes each part correct:

* dispatcher, capture, writer: every row names files that exist; a response row follows
  the row of its request; each row exists once; a stream is recorded once and truthfully;
  nothing goes upstream that is not on record or that a filter held back; every request
  is answered.
* events: nothing is announced that is not captured, and the end comes after the start.
* filter manager: what is on disk comes to be what runs and what is listed; a quarantined
  filter does not come back with the reload that follows; reloads end.
* state store: counters cover what is stored, limits hold, expired entries go.
* SSE capture: what is captured depends on the bytes and not on the frames.
* packet list: the index leads to the row of its packet, a search shows what it matches, the
  selection stays on its packet, what completes is shown.
* filters: a phase runs the filters of one set, in order, each once, and the result is what
  these say; a changed body keeps no header of the old one; a job ends.
* editor: what was not changed makes no filter, and a filter gives the message it was made
  from the edited headers and body.

## 2. Modules

| Module | Models | Used by |
|---|---|---|
| `BodyPolicy` | `response_body_mode`, `probe_response_body` as operators | `FlowDispatch` |
| `CaptureLedger` | abstract: the rows and the answer of each flow | `FlowDispatch` (refinement) |
| `FlowDispatch` | the dispatcher composed with capture, writer, events, jobs, WebSocket handshakes and failed tunnels | `MC_FlowDispatch`, `FlowDispatch_proofs` |
| `FlowDispatch_proofs` | theorems about `FlowDispatch` | |
| `StateStore` | the filter state store and its threads | `MC_StateStore`, `StateStore_proofs` |
| `StateStore_proofs` | theorems about `StateStore` | |
| `FilterReload` | filter files, watcher, hooks that quarantine, editor that saves, status rows | `MC_FilterReload`, `FilterReload_proofs` |
| `FilterReload_proofs` | theorems about `FilterReload` | |
| `SseCapture` | event capture, and a definition of its result on the whole stream | `MC_SseCapture`, `SseCapture_proofs` |
| `SseCapture_proofs` | theorems about `SseCapture` | |
| `PacketList` | rows, index, search, selections and details of the interface, composed with the channel of packet events | `MC_PacketList`, `PacketList_proofs` |
| `PacketList_proofs` | theorems about `PacketList` | |
| `FilterActions` | the calls a script makes, the action they build up, how a patch is applied: operators | `FilterChain`, `BodyRewrite` |
| `FilterChain` | triggers and globs, the order of filters, the three phases of a flow, merging, outbound jobs, reloads | `MC_FilterChain`, `FilterChain_proofs` |
| `FilterChain_proofs` | theorems about `FilterChain` | |
| `BodyRewrite` | JSON differences and patches, the replacement of a text and its anchor: operators | `EditSession` |
| `EditSession` | the edit panel, from the captured message over the text to the saved filter, and what that does to the message | `EditDocuments`, `EditSession_proofs` |
| `EditDocuments` | the walks over JSON values and syntax trees that `EditSession` takes as constants, and the properties of edited bodies | `MC_EditSession` |
| `EditSession_proofs` | theorems about `EditSession` | |
| `FoldTheorems` | theorems about sums, sequences and finite sets of numbers, by induction over sets, and about the fold of a sequence by any operation, which is a constant | `StateStore_proofs`, `PacketList_proofs`, `FilterChain_proofs`, `SseCapture_proofs`, `EditSession_proofs` |

The `MC_` modules give constants their values for TLC.

Operators whose names have a suffix (`WriteFails_GoesOn`, `Get_StoresDeadline`) and that a
comment calls a fault are variants of the definition that follows: plausible mistakes in
the code, with which the property named in `PROJECT.json` must fail.

### FlowDispatch

`pc[f]` is where the task of flow `f` stands; a stage is the code between two points at
which others can see it: an `await`, or a send on a channel. The stages of a collected
response are `collect` (body and request filters), `reqHead`, `reqBody` (files), `reqSend`
(row), `reqPublish` (event, then drop, synthetic response or upstream), `upstream`,
`respond`, `resTls`, `resHead`, `resBody`, `resSend`, `resPublish`. A streamed response is
answered first and recorded by the finalizer's own task (`streaming`, `finalize`, then
the same writes). `ClientLeaves` drops a task at any of its awaits, `WriteFails` fails any
write, `Publish` drops the event when the channel is full. `CloseDatabase` is the quit: the
pool is closed at any time (`proxy.rs:336`), after which `main` returns. The model lets the
tasks go on from there, since they may for a while, and promises nothing of them (`Quitting`).
A checkpoint that fails skips the close and the process ends with the pool open: for what was
written by then this is a behaviour that stops. The filters of the phase `completed` run
before a response is published (`dispatcher.rs:552`, `816`); their hook can only pass
(`runtime.rs:1245`), and the sweep, the statistics and the quarantine that go with every hook
are in `StateStore` and `FilterReload`. The counter `seq` is bounded because every flow starts once. Bytes of a
streamed body are counted in `held` (buffered by the probe), `left`, `sent`; the contents
of messages are not modelled, a response being what `response_body_mode` reads of it. The
probed prefix ends one byte past the threshold (`ProbePrefix`); in the code it ends with the
frame that passes it.

`CaptureLedger` states what this amounts to: a request row, then at most one response row,
settled in this order, and no answer before what must be on record for it.

### StateStore

`entries` maps keys (connection, filter, key) to size, creation and last access. A thread
first reads the clock (`Call`) and carries the operation out later (`Get`, `Put`,
`SweepExpired`), as the code reads `Instant::now()` before it takes the mutex; `Delete`
reads no clock. `0` stands for an absent counter. A value over `max_entry_bytes` returns
before anything is read and is left out of `Call`.

### FilterReload

`disk` gives every path a version and a class: a filter that loads, a disabled one, one
with a bad header, one that does not compile. A reload visits the files in any order
(`ReadSource`), reads a file a second time to compile it (`Compile`), sends the prune
(`Prune`) and installs (`Install`); the watcher and the threads each may be in one. A
metadata-only filter is one for which the two reads are a single one. Noting a slow
filter's path and moving its file are one step: nobody reads the set in between except to
pass over the same filter. The snapshot is read at once; reading it file by file could
only make it older, and the next poll would find the difference. `moved` of a hook is the
code's `needs_reload`, with what was moved. A file that vanishes between the listing and its
read counts as not listed: the code skips it too, but its name is on the list, and its old
status row is spared by the prune (`manager.rs:347`, `395`) of this reload. What the editor's own manager does when a generated filter is
saved (validation, a reload and a quarantine of that manager) is one step
(`ValidateGenerated`): the proxy sees only the file.

### SseCapture

One step per frame (`Push`) and one per turn of the loop in `push`. The bytes are CR, LF
and any other. `EndsOf` and `EventsOf` define the result on the whole stream, independent of
the buffer, the frames and the discarding of oversized events.

### PacketList

Everything happens on the interface thread: an input (key, click, request of a popup, tick
of the timer) is taken (`input`), `poll_incoming` drains the channel event by event
(`ReceiveEvent`), since the proxy goes on sending meanwhile (`Publishing`), and then the handler
of the input runs in one step (`Handle`). `list` is the delegate: rows, `index` (`id_to_row_index`),
mode, both selections, query and search rows. A row is a packet, a system line or the line
that says the list is waiting. The publishers follow `tui_sink.rs`: an event is dropped when
the channel is full, and a tunnel that failed has one event. `pending` are the loads of
details and the events to the root pane under way, which `ReceiveUi` takes in any order
(`detail`, `tab`). Rows are counted from 1; what a query matches is a set of conditions on
url and status, what the full-text search finds is a constant. Scrolling and drawing are
left out. `Init` is a list after the capture was loaded: a stored packet has a status if its
response was captured, a stored tunnel its mark (`StoredRow`). Whether details are those of
a tunnel is said by the details and not by the packet: a stored tunnel whose load fails has
the tabs of a message (`TunnelInfo`, `mod.rs:1418`).

### FilterActions and FilterChain

A script is the sequence of calls it makes; `FilterActions` says what each does to the
action being built, for both interfaces of scripts, what body rewrites make of a body, and
what a patch does to headers, status and body (`filter_bridge.rs`). In `FilterChain` a flow
goes through the phases connect, request and response. `EnterPhase` takes the set that is
installed, `RunFilter` runs the next filter that matches on the message as it entered the
phase and merges its action, and `ConnectDone`, `RequestDone`, `ResponseDone` carry out
what came of it. `Reload` replaces the set at any moment, `StartJob` and `EndJob` are the
outbound worker. Streamed and event-stream responses do not come here, as in the code. A
trigger has phases, hosts, paths and methods (`MatchesTrigger`); the one of the phase
`completed` (`matches_completed`) is left out, as its hook changes no message. What is no
status, no header name or no header value is ignored as the code ignores it: a patch leaves
the old one, a tunnel is refused with 403, a synthetic response becomes a 500.

### BodyRewrite, EditSession and EditDocuments

`session` is the open panel with the original and the text in the editor, `preview` what
the panel derives from that text, `popup` what the last save said, and `saved` the filters
with what they were made from. An edit changes one field of the text (a header line, the
status, the path, the body); the text is then read back, compared, and turned into a filter
(`BodyRewrite` for bodies). `Replayed` runs the saved filter on the captured message by
`FilterActions`. A JSON document is one character whose value is a constant, so is the syntax
tree of a text: the parsers are libraries. Lengths of replaced texts and anchors are
constants (4096, 8 and 96 in the code); a character is one byte of them.

Reading the text back is modelled field by field (`Parse`): the sections are found by their
headings, header lines that begin with `#` are skipped, lines that are no headers or statuses
are errors, and the newline at the end of the body goes. Left out: values lose the blanks
around them, and an empty method or scheme becomes none. The body that the panel shows of a
compressed file that cannot be decoded is that of its raw bytes (`body.rs:35`), which is one
kind of binary here, and the message that stands for an event stream that cannot be read is
edited as if it were its body (`external_diff.rs:533`). The conditions of a filter are compared
by equality (`Applies`); the code asks whether the query contains the one of the filter and
makes no condition of a blank content type (`generator.rs:1268`), which for the message that a
filter was made from is the same. Captured messages have a host; for a blank one the code
would take the edited one (`generator.rs:1758`). A pair, an assignment or a declaration in a syntax tree that lacks the child
that names it is passed over by the code, and is a node of no such kind here.

The three walks over these trees are recursive: `diff_json_value`, an operation of the patch
library, and `smallest_node_covering_range`. `BodyRewrite` has them as constants (`DiffJson`,
`PatchAt`, `Enclosing`), so that what is proved about `EditSession` holds whatever they yield;
`EditDocuments` defines them as the code does, and the configurations name these definitions.

## 3. Runs

Passing runs finish within two minutes with two workers. Deadlock checking is off where a
behaviour ends because every flow, change, input, edit or byte the bounds allow was used.

| Run | Instance | Shows |
|---|---|---|
| `flow_one` | one flow of each kind; responses collected, without a body, event stream, streamed, probed, broken off; threshold 1; two events | types, the inductive invariant, files behind rows, rows once, truthful stream rows, event order, refinement of the ledger, answers, recorded streams, settled rows |
| `flow_two` | two flows, room for one event | order of rows and events of interleaved flows |
| `state_store` | two threads, connections and filters, values of 1 and 2 bytes, limits 2/3/4, time to live 1 | counters, limits, sweeps |
| `state_leak` | one thread, one key | **violation**: a put that fits is rejected |
| `reload_watch` | one path, all classes, three changes, one failed reload | changes found are loaded and listed |
| `reload_quarantine` | two paths, a thread and the watcher, one change | what a thread moved stays out of the reload it makes after the move; reloads end |
| `reload_overlap` | a thread and the watcher, one change | **violation**: an older set replaces a newer one for good |
| `sse_framing` | all streams of up to 8 bytes, frames of up to 3, 2 events of up to 3 bytes | framing, limits, the incomplete event, files |
| `packet_list` | packets 1 and 2, tunnel 3; nothing stored, an answered packet, or a packet without an answer and the tunnel; a channel of 2; trimmed beyond 2 rows; 2 inputs | index, search list, tabs, selection, completed packets shown |
| `filter_chain` | a tunnelled and a plain flow, three sets of filters with conditions on host, path and method, statuses and values that HTTP does not have, a job queue of 1, one client that hangs | which filters run and what comes of it, globs, headers of changed bodies, jobs end |
| `edit_session` | ten exchanges of all kinds of bodies, two edits, one save, a status 1000, an invalid value and a comment among the edits | no filter without a change; headers, status and body replayed |
| `generated_filter` | the same, one edit | **violation**: a patch that did not validate is relied on |

Why the bounds are enough. A flow meets others only in the database channel, the event
channel and the job channel; two flows give every order of two senders, and the theorems
cover any number. Threshold 1 with bodies of 1, 2 and 3 bytes has a body at, one past and
beyond the threshold. In the store, limits of 2, 3 and 4 are reached by two or three
values in different orders, and time up to 2 with a time to live of 1 separates fresh,
idle and old entries. Three changes of one file put a change before, between and after the
two reads of a reload; two paths and one change suffice for overlapping reloads. Eight bytes
hold two complete CRLF terminators, or an oversized event with a terminator split anywhere.
Three rows against a limit of two trim the list while a search is on or a selection is on
the row that goes; a channel of two drops the start, the end or the mark of a packet; two
inputs are a search and a move in it, or two loads of details that cross. The filters of
`filter_chain` deny, stop, drop, answer, rewrite, set headers that describe the body and
post jobs, at equal and different priorities, so that each two of them meet. The exchanges
of `edit_session` have every kind of body the editor tells apart, and the drafts change,
insert and remove characters, members and items, within and beyond the lengths that are
replaced in place; two edits change a body and a header of one message, or take an edit
back.

### Fairness

* `FlowDispatch`: weak fairness of a task's own steps, of the writer and of the event
  sink, as the runtime schedules ready tasks. A step that waits for the bytes of a peer
  is not fair (`AwaitsBody`): the body of a request, and a response body that is collected
  or probed, are awaited without a time limit. The upstream call is fair, since
  `client.rs:161` and `client.rs:233` bound it and answer 504. Clients, frames of a
  forwarded body and the quit are not fair. All of it holds only until the user quits
  (`Quitting`): once the pool is closed `main` returns (`main.rs:174`), and the tasks and the
  writer may go with their queues, so that `EveryRequestAnswered`, `StreamIsRecorded` and
  `RowsSettle` promise nothing after that. The other modules have no quit: their fairness is
  that of a process that goes on.
* `StateStore`: an operation that waits for the mutex gets it; time advances.
* `FilterReload`: the watcher's timer fires, reloads and hooks end, the editor validates,
  the writer writes. Users do as they like.
* `SseCapture`: the loop of `push` ends and its writer task runs.
* `PacketList`: the interface thread goes on (`InterfaceStep`), and each tick of its timer
  schedules the next. Users, publishers and loads of details are not fair.
* `FilterChain`: the worker takes jobs, and a job ends (`JobStep`), since each has the time
  limit of its client (`http_client.rs:84`), also where the server never answers. Flows and
  reloads are not fair.

## 4. Proofs

Each theorem is about the specification of its module, for every value of the constants
that satisfies the module's assumption.

### FlowDispatch_proofs

For any set of flows, any kinds and responses, any threshold and any capacities
(`ConstantsAssumption`):

| Theorem | Says |
|---|---|
| `Invariance` | `Spec => []IndInv` |
| `TypeCorrect` | the types; a probed prefix is never longer than the body (`PrefixFits`) |
| `RowOrder` | no response row settles before the row of its request |
| `RowsOnce` | each row is queued once |
| `RowFiles` | a row names only files that were written |
| `StreamTruth` | the row of a stream says what the client was sent |
| `EventsCaptured` | what is announced is captured |
| `CompletionLast` | the completion of a flow is the last that is announced of it |
| `UpstreamGuarded` | nothing goes upstream that is not captured or was held back |
| `ImplementsLedger` | `Spec` implements `CaptureLedger`; the rows and the answer are the mapping |

`ResponseRowFollowsRequestRow` is not inductive. That the writer never settles a response
row first follows from the order of the queue (`QueueOrder`: a response row stands behind
the waiting row of its request), which the send of a response row preserves because the
stage at which it is sent has the request row on record (`StageInv`); that the queue holds
what is queued, once (`QueueComplete`, `QueueSound`, `QueueOnce`), needs in turn that a
stage that sends a row has none yet, and for streamed bodies that only one party finalizes
(`BodyInv`). `RowsNameExistingFiles` needs which files are written when a stage is reached
(`FilesInv`), `StreamRowTruthful` that bytes are neither lost nor counted twice between
probe, body and client, and that the size in a row is taken when no more can be sent
(`StreamInv`), `UpstreamOnlyAfterCapture` that a verdict of the filters is acted upon before
the upstream call (`VerdictInv`). `AnnouncedIsCaptured` and `CompletedIsLast` are inductive
beside these. `IndInv` is the conjunction; TLC checks it in `flow_one`. The proof has one
lemma per conjunct with one step per action, and `LedgerStep` for the refinement.

### StateStore_proofs

For any keys, sizes, limits, threads and time to live (`StoreAssumption`): `StoreInvariance`
(`StoreInv`), `StoreTypes`, `NothingUncounted` (`CountersCover`), `LimitsKept`
(`WithinLimits`), `SweepLeavesFresh` (`SweepIsThorough`, an action property).

`WithinLimits` is about what the entries hold, and `put` compares the counters. So the
invariant has that the counters cover the entries and that the counters are within the
limits (`LimitsInv`), from which the limits follow. The counters may say too much (finding
1), hence "cover" and not "equal". How a sum over the entries changes when one of them is
put, replaced or removed, or when a sweep removes many, comes from `FoldTheorems`.

### FilterReload_proofs

For any files, threads, numbers of changes and of failures (`ReloadAssumption`; `MaxEdits`
is at least 1 because the first contents of the directory count as a change): `Invariance`
(`ReloadInv`), `TypeCorrect`, `MovedStaysOut` (`MovedIsNotReloaded`).

`MovedIsNotReloaded` is about the reload that a thread makes after it moved a filter, and only
about that one: a reload of the watcher or of another thread that read the file before the move
may still install it (finding 2 is of this kind).

The reload could read a file that was moved only if the path held that version again.
`HookInv` says that it does not, and that a hook that moves has no reload under way;
`DiskInv`, that a new version is a new one; `TasksInv`, that a reload forgets what it read
when it ends.

### FilterChain_proofs

For any filters, scripts, traffic, clients and reloads (`ConstantsAssumption`: a script
consists of calls that its phase offers, and no two filters of a set have the same path):
`ChainInvariance` (`ChainInv`), `ChainTypes`, `IntegrityHeadersGo` (`NoStaleIntegrity`),
`ChainAsExpected` (`ChainResult`), `GlobsAreSound` (`GlobSound`; hosts and patterns are
texts).

`ChainResult` speaks of a phase that has run. While it runs, the invariant has that what ran
and what is left are the matching filters of the set that was taken, in order (`OrderInv`),
and that no filter that ran stopped the next, but perhaps the last one, and the action is
that of those that ran together (`RunInv`, `Merged`). The proof shows that `Sorted` lists each
filter once, that a script leaves marks and jobs that are sequences whatever it calls
(`ActionIsGood`), and that merging one action more is what `Merged` says of one filter more.

`GlobSound` compares the search for one part after the other, each taken where it is first
found, with a table of all places where what was read of the pattern may end (`EndsOf`). The
induction is over the characters of the pattern (`ReadInv`): before the first `*` the pattern
fits at one place or not at all (`Fits`); behind one, with g the place behind the parts that
were found, the pattern may end wherever its open part stands from g on (`Reads`). A `*` closes
the part, and from its first place on every end is possible, so that no other place needs to
be tried (`ReadsPart`). Text behind the last `*` is where this argument stops: its first place
need not be the end of the host.

### EditSession_proofs

For any exchanges, drafts, header lines and bounds, and for any JSON diff, JSON patch and
syntax tree (`EditAssumption`: what was captured of a message has finitely many headers with
valid names, none of which begins a comment, and its texts are texts; `RewriteAssumption`: the
lengths):
`EditingIsConsistent` (`EditInv`), `UnchangedIsKept` (`UnchangedRoundTrip`),
`HeadersAreReplayed` (`HeadersReplayed`).

Both properties need that the preview is that of the text that is shown, and that a saved
filter was generated from what it is saved with (`SessionInv`, `SavedInv`): the panel keeps
text, preview and original apart and derives one from the other with each key. `EditedBody`
is what reading back makes of a body; that an empty one stays empty unless something was
typed is needed to tell a new body from the old one.

`UnchangedRoundTrip` then is that reading is the inverse of showing (`ParsedBack`), and that a
message compared with itself has no differences (`NoChanges`, `NoEvents`), for which the names
of its headers must differ: `header_value` finds the first.

`HeadersReplayed` follows the filter from the edit through the script to the message. The
editor takes any number of 16 bits for a status and any text for a value (`editor.rs:768`), the
proxy only those of HTTP (`filter_bridge.rs:282`, `357`): the property says that the message
keeps the status, or the value if it had the header, where the edited one is not of these.

* The calls for headers set what was added or changed and remove what is gone
  (`HeaderActionsTell`), no matter in which order, and the calls for the body do not displace
  them (`ScriptFacts`). What a sequence of calls comes to depends only on which they are
  (`CallsComeTo`).
* The filter applies to the message it was made from (`SavedApplies`). Of its conditions, the
  anchor is the one with an argument: a line of the trimmed body, cut to a length, occurs in
  the body (`AnchorOccurs`).
* Removing and then setting these headers gives the edited ones (`HeadersComeTo`).
* The headers that describe a body are excepted only where the body changed. So a body that
  the filter gives the message must be another one (`BodyDiffers`): a text replaced where it
  first occurs by a different one makes a difference (`ReplacedDiffers`), and the replacement
  that is found between the common prefix and the common suffix of two texts is a different
  one (`ReplacementDiffers`).

### SseCapture_proofs

For any limits, frames and streams (`SseAssumption`; CR and LF are different bytes):
`CaptureInvariance` (`CaptureInv`), `SseTypes`, `FramingIrrelevant` (`FramesDoNotMatter`),
`PartialRight` (`PartialIsTheRemainder`).

Both properties speak of the moments between two frames and of the end. Within `push` the
invariant has that what was sent are the first events of the stream so far (`SentAreFirst`),
and that the buffer is what follows the end of the last one (`Position`), unless that one was
stored truncated and its rest is being discarded: then every terminator that may end it lies
in the buffer, or is still to come (`InTruncated`). The steps of the argument:

* The code takes the terminator that begins first, and `EndsOf` the one that ends first. They
  end at the same place (`EventEndFacts`): CR LF LF ends where its LF LF does, and within CR LF
  CR LF no other terminator ends earlier. This is where CR and LF must differ.
* The buffer is a rest of the stream, and so is what the code finds in it (`EndInStream`).
* The three bytes that are kept are enough: a terminator of up to four bytes that ends behind
  them begins in them or later, and none has ended before (`IncompleteStep`, `PushStep`).
* The events of a stream are the first of those of a longer one (`GrownEvents`), also when an
  event was too long before its end: whole or not, the same is stored (`SameTruncated`).

### PacketList_proofs

For any packets, stored captures, queries, limits and channels (`PacketListAssumption`):

* `IndexStaysSound`. The invariant is `ListInv`: the list is `Sound`, and the channel holds
  packet events. `Sound` strengthens `IndexOK` by the fields of a list, the types of its rows,
  that the index has no entry for `NoId`, and that the waiting row is of no packet:
  `WithoutWaitingRow` clears the rows and leaves the index alone, which is right only because
  of that. Of the lemmas, `TrimSound` is the one with an argument: the last row of a packet in
  the trimmed list is the one the old index names, moved up.
* `PacketsOpenedOnce` (`OpenedOnce`): each packet is announced once, before which it has no row
  and after which it has at most one.
* `SelectionStays` (`SelectionKeepsPacket`), from these two: rows only move up together, and
  the selection with them (`Kept`); were there two rows of a packet, the selection could be
  on one and the index on the other.
* `SearchIsRight` (`SearchShowsMatches`) and `ListTypes`. The search list is a fold over the
  rows; a row more at the end, a row changed and a tunnel hidden are lemmas about that fold
  (`ListingMore`, `ListingSame`, `ListingWithout`), and where rows are removed the list is made
  anew. A packet that starts is appended if it matches, which keeps the order because its row
  is the last one; that it is listed once is `OpenedOnce`. The witness for a tunnel that fails
  is the old set of hidden ones with this one. `WorkOK` is what the input and the loads under
  way must be for the types to hold: the result that is to be selected is one of those found.
* `TabFits` (`TabIsOfDetail`), which is inductive as it stands.

`WholeInv`, their conjunction, is what `WholeStep` shows to be inductive.

### Induction over data

The provers cannot instantiate the induction theorems of the library, which take a predicate
as a parameter. `FoldTheorems` states induction with a set in its place (a set of numbers, or
of finite sets, that holds the empty one and with each the next), and derives from it what
sums, joined sequences and least elements do. A lemma for every fold needs its operation as a
parameter: in `FoldTheorems` this is a constant of the module, which a proof module instantiates
with the operation it folds.

### Only model-checked

* The liveness properties (`EveryRequestAnswered`, `StreamIsRecorded`, `RowsSettle`,
  `ChangesFoundAreLoaded`, `ChangesFoundAreListed`, `ReloadsSettle`, `EventsReachDisk`,
  `CompletedIsShown`, `JobsServed`): TLAPS does not prove properties under fairness.
* `BodyReplayed`: what becomes of a JSON body is decided by the recursive walks of
  `EditDocuments`, and what a recursive definition computes cannot be proved here.

## 5. Findings

1. `state_store.rs:136` (`state_leak`): replacing a value by a shorter one leaks its bytes in
   the counters, until puts that fit are rejected.
2. `manager.rs:228` (`reload_overlap`): overlapping reloads may leave an older set installed
   for good.
3. `editor.rs:1094-1103` (`generated_filter`): when the JSON patch does not validate, the
   filter says that it falls back to `set_body_text`, but keeps the patch and no
   `set_body_text` (an array that loses several items: they are removed at the indices they
   had).

Seen while modelling, without a run of its own. The models do what the code does here, and
the properties state what remains true.

* Capture: a stream whose every byte was delivered may be recorded as interrupted, as
  `is_end_stream` lets the server drop the body before its end is polled
  (`dispatcher.rs:1117-1128`). An incomplete event is stored with a note that it was truncated
  (`sse_capture.rs:126`, `192`).
* Filters: `sweep_interval_sec` is parsed and never used (`options.rs:46`). A change between
  the first reload and the first snapshot is not loaded (`manager.rs:260`). The editor reloads
  a filter manager of its own and reports "Filters were validated and reloaded."
  (`editor_pane.rs:304`); the proxy has the filter after the watcher's next poll. A job that
  posts the captured request posts it as it was before the request filters
  (`dispatcher.rs:789`). `bypass_upstream_proxy` (`roto_api.rs:125`, `types.rs:321`) is
  neither merged nor read. All filters of a phase see the message as it entered the phase,
  and the last patch replaces the earlier ones as a whole. A glob takes the first place
  where a part is found, so `*a` does not match `aba` (`types.rs:216`): `GlobSound` claims
  completeness only for patterns that end in `*` or have none. A `content-length` that a
  filter sets without changing the body is kept.
* Packet list: details come back in any order, and the last to come is shown
  (`mod.rs:1407`). A click carries the index of a row, which a trim meanwhile makes that of
  another (`mod.rs:2034`). A failed tunnel is missing from a search until the list is rebuilt
  (`mod.rs:1138`). When the start of a packet is dropped, its status and its marks are ignored.
  View and edit act on the selected packet, not on the one that is shown (`mod.rs:873`,
  `1465`). The waiting line stays once a system line follows it. A packet captured while the
  stored ones are loaded may have two rows; `Init` leaves this out.
* Editor: a status such as 1000 is accepted, saved and then ignored by the proxy, and so is an
  invalid value. A captured header whose name begins with `#` is lost when its message is
  edited (`editor.rs:1634`). A text is replaced where it first occurs (`body_tree_sitter.rs:469`), and a
  replacement of nothing, as a pure insertion is, does nothing (`runtime.rs:1775`). JSON typed
  into an empty body becomes a patch that cannot be applied. A condition on a content type
  with capital letters never holds. A content type the user sets is replaced by that of the
  new body. Base64 and event-stream bodies are shown with a heading that the body does not
  have, and a compressed body without `content-encoding` as a dump. Changes of method, host,
  path and query become notes only. A second filter of the same message is named `x-1.roto`,
  sorts before `x.roto`, and its patch is displaced by that of the first (`capture.rs:190`,
  `runtime.rs:1256`). Capital S and W typed in the editor are save commands
  (`editor_pane.rs:810`).

## 6. Not modelled, and the plan

Left out for good: TLS, certificates, listeners and connectors (I/O of libraries); the
WebSocket relay, one loop between two sockets of a library that keeps no state; body
compression, drawing and scrolling, HAR files, external programs and their temporary files,
SQL text, the Roto compiler and interpreter, parsers of JSON and of syntax trees, the parsing
of options and of search queries; JSON merge patches and filters made from a selected text,
which nothing calls.
