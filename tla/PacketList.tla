----------------------------- MODULE PacketList -----------------------------
(***************************************************************************)
(* The packet list of the terminal interface (tui/mod.rs): the rows, the   *)
(* index from packets to rows, the search list, the two selections, and    *)
(* the loading of details.                                                 *)
(*                                                                         *)
(* Everything the list does happens on the thread of the interface.  An    *)
(* input (a key, a click, a request of a popup, or a tick of the timer)    *)
(* first drains the channel of packet events, one step per event because   *)
(* the proxy goes on sending, and then runs its handler.  Details are      *)
(* loaded by tasks of their own and come back in any order.                *)
(*                                                                         *)
(* Rows are counted from 1, and a selection in an empty list is 1.         *)
(***************************************************************************)
EXTENDS Naturals, FiniteSets, SequencesExt

CONSTANTS
    Packets,        \* packets by their sequence numbers, id and flow key in one
    Tunnels,        \* the packets that are CONNECT tunnels that failed
    Sessions,       \* what the database holds at the start, and the flows that come
    Queries,        \* sets of search conditions, as parsed from a query
    Texts,          \* for a query of the full-text search, the files it is found in:
                    \* the flow of each, and the tab that shows it
    Labels,         \* labels of marks
    MaxRows,        \* MAX_ROWS
    TrimRows,       \* TRIM_ROWS
    Page,           \* rows of page_up and page_down
    MaxResults,     \* MAX_FULL_TEXT_RESULTS_DISPLAYED
    ExternalCommands,   \* external_diff_command and external_view_command are set
    ChannelCap,     \* TUI_EVENT_BUFFER
    MaxInputs,      \* bound: inputs of the user
    NoId            \* the empty id of a row that is no packet

ASSUME PacketListAssumption ==
    /\ Packets \subseteq Nat /\ Tunnels \subseteq Packets
    /\ NoId \notin Packets
    /\ \A session \in Sessions :
        /\ session.stored \in Seq(Packets) /\ session.flows \subseteq Packets
        /\ session.answered \subseteq Packets \ Tunnels
        /\ \A i, j \in DOMAIN session.stored :
            session.stored[i] \notin session.flows /\ (session.stored[i] = session.stored[j] => i = j)
    /\ \A text \in Texts :
        IsFiniteSet(text) /\ text \subseteq [id : Packets, tab : {"message", "SslTls", "Info"}]
    /\ {MaxRows, TrimRows, Page, MaxResults, ChannelCap, MaxInputs} \subseteq Nat
    /\ ExternalCommands \in BOOLEAN

VARIABLES
    list,       \* PacketListDelegate: rows, index, mode, selections, search
    failures,   \* the keys of tunnel_failures
    diff,       \* DiffSelection: left and right
    retained,   \* retained_full_text_results and the one selected
    rx,         \* the channel of packet events
    sent,       \* how far the events of a packet have been published
    input,      \* the input the interface is handling
    changed,    \* poll_incoming has received something
    inputs,     \* the number of inputs so far
    pending,    \* UiEvents under way to the root pane, in the order they were asked for
    detail,     \* the packet in the detail pane, NoId for the placeholder; tunnel_info is there
    tab         \* the primary tab: of a message, SslTls or Info

listVars   == <<list, failures, diff, retained>>
feedVars   == <<rx, sent>>
inputVars  == <<input, changed, inputs>>
detailVars == <<pending, detail, tab>>
vars == <<listVars, feedVars, inputVars, detailVars>>

-----------------------------------------------------------------------------
(* Rows and the search. *)

PacketRow(p, status, marks) == [kind |-> "packet", id |-> p, status |-> status, marks |-> marks]
WaitingRow == [kind |-> "waiting", id |-> NoId, status |-> "none", marks |-> {}]
SystemRow  == [kind |-> "system",  id |-> NoId, status |-> "none", marks |-> {}]

Statuses == {"none", "done"}
Rows == [kind : {"packet"}, id : Packets, status : Statuses,
         marks : SUBSET (Labels \cup {"TLS FAILED"})]
        \cup {WaitingRow, SystemRow}

\* SearchCondition::matches: a condition on the method or the address is the set
\* of packets that have it, one on the status the set of statuses.
Satisfies(row, c) ==
    (IF c.field = "status" THEN row.status \in c.values ELSE row.id \in c.values) # c.negated

\* SearchMatcher::matches: all the conditions joined by &&.
Matches(q, row) == \A c \in q : Satisfies(row, c)

\* A row comes after those listed if it is of a packet and the query matches it.
Listed(of, ids, row) ==
    IF row.id # NoId /\ row.id \notin of.without /\ Matches(of.query, row)
    THEN Append(ids, row.id) ELSE ids

\* The ids of the rows that match in the order of the rows, those of some packets left out.
Listing(rows, q, without) ==
    LET of == [query |-> q, without |-> without]
    IN FoldLeft(LAMBDA ids, row : Listed(of, ids, row), <<>>, rows)

\* The rows of a search.
MatchingIds(rows, q) == Listing(rows, q, {})

\* id_to_row_index of the rows: a later row of the same packet wins.
IndexOf(rows) ==
    [p \in {rows[i].id : i \in DOMAIN rows} \ {NoId} |->
        CHOOSE i \in DOMAIN rows :
            rows[i].id = p /\ \A j \in DOMAIN rows : rows[j].id = p => j <= i]

VisibleLen(l) == IF l.mode = "main" THEN Len(l.rows) ELSE Len(l.searchRows)
Selected(l)   == IF l.mode = "main" THEN l.mainSel ELSE l.searchSel

Least(m, n) == IF m < n THEN m ELSE n
\* A selection cut down to the rows there are.
Within(sel, len) == IF len = 0 THEN 1 ELSE Least(sel, len)
\* saturating_sub, for a selection counted from 1
Back(sel, n) == IF sel > n THEN sel - n ELSE 1

Select(l, sel) ==
    IF l.mode = "main" THEN [l EXCEPT !.mainSel = sel] ELSE [l EXCEPT !.searchSel = sel]

ClampSelected(l) == Select(l, Within(Selected(l), VisibleLen(l)))

\* current_row_index: 0 when there is none.
CurrentIndex(l) ==
    IF l.mode = "main"
    THEN IF l.mainSel \in DOMAIN l.rows THEN l.mainSel ELSE 0
    ELSE IF l.searchSel \in DOMAIN l.searchRows /\ l.searchRows[l.searchSel] \in DOMAIN l.index
         THEN l.index[l.searchRows[l.searchSel]] ELSE 0

\* selected_packet_id
CurrentId(l) == IF CurrentIndex(l) = 0 THEN NoId ELSE l.rows[CurrentIndex(l)].id

\* rebuild_search_rows_if_needed: the list anew, the selection only cut down.
RebuildSearch(l) ==
    IF l.mode # "search" THEN l
    ELSE LET ids == MatchingIds(l.rows, l.query)
         IN [l EXCEPT !.searchRows = ids, !.searchSel = Within(@, Len(ids))]

\* Fault: the index is not rebuilt when rows go.
TrimRowsIfNeeded_StaleIndex(l) ==
    IF Len(l.rows) <= MaxRows THEN l
    ELSE LET n == Least(TrimRows, Len(l.rows))
             kept == SubSeq(l.rows, n + 1, Len(l.rows))
         IN ClampSelected(RebuildSearch([l EXCEPT !.rows = kept, !.mainSel = Back(@, n)]))

\* Fault: the selection stays where it is when rows go.
TrimRowsIfNeeded_SelectionStays(l) ==
    IF Len(l.rows) <= MaxRows THEN l
    ELSE LET n == Least(TrimRows, Len(l.rows))
             kept == SubSeq(l.rows, n + 1, Len(l.rows))
         IN ClampSelected(RebuildSearch([l EXCEPT !.rows = kept, !.index = IndexOf(kept)]))

\* trim_rows_if_needed
TrimRowsIfNeeded(l) ==
    IF Len(l.rows) <= MaxRows THEN l
    ELSE LET n == Least(TrimRows, Len(l.rows))
             kept == SubSeq(l.rows, n + 1, Len(l.rows))
         IN ClampSelected(RebuildSearch(
                [l EXCEPT !.rows = kept, !.index = IndexOf(kept), !.mainSel = Back(@, n)]))

\* append_system_line
AppendSystemLine(l) == TrimRowsIfNeeded([l EXCEPT !.rows = Append(@, SystemRow)])

-----------------------------------------------------------------------------
(* Packet events: published by the sink of flow events, received by the list. *)

\* try_send: an event that finds the channel full is lost.
Offer(queue, event) == IF Len(queue) < ChannelCap THEN Append(queue, event) ELSE queue

Event(kind, p, mark) == [kind |-> kind, id |-> p, mark |-> mark]
NoMark == "unmarked"

\* An event of a flow and the mark that comes with it, if any.
Publish(kind, p) ==
    \E mark \in Labels \cup {NoMark} :
        LET queue == Offer(rx, Event(kind, p, NoMark))
        IN rx' = IF mark = NoMark THEN queue ELSE Offer(queue, Event("Marked", p, mark))

PublishRequest(p) ==
    /\ p \notin Tunnels /\ sent[p] = "nothing"
    /\ Publish("Started", p)
    /\ sent' = [sent EXCEPT ![p] = "request"]
    /\ UNCHANGED <<listVars, inputVars, detailVars>>

PublishResponse(p) ==
    /\ sent[p] = "request"
    /\ Publish("Completed", p)
    /\ sent' = [sent EXCEPT ![p] = "all"]
    /\ UNCHANGED <<listVars, inputVars, detailVars>>

PublishTunnelFailed(p) ==
    /\ p \in Tunnels /\ sent[p] = "nothing"
    /\ \E mark \in Labels \cup {NoMark} : rx' = Offer(rx, Event("TunnelFailed", p, mark))
    /\ sent' = [sent EXCEPT ![p] = "all"]
    /\ UNCHANGED <<listVars, inputVars, detailVars>>

\* remove_waiting_row_if_needed
WithoutWaitingRow(l) ==
    IF Len(l.rows) = 1 /\ l.rows[1].kind = "waiting"
    THEN [l EXCEPT !.rows = <<>>, !.searchRows = <<>>, !.mainSel = 1, !.searchSel = 1]
    ELSE l

WithRow(l, row) ==
    [l EXCEPT !.rows = Append(@, row),
              !.index = [p \in DOMAIN @ \cup {row.id} |->
                            IF p = row.id THEN Len(l.rows) + 1 ELSE @[p]]]

\* on_packet_started: a row that the search matches is listed at once.
OnPacketStarted(l, p) ==
    LET row == PacketRow(p, "none", {})
        l1  == WithRow(l, row)
    IN IF l.mode = "search" /\ Matches(l.query, row)
       THEN [l1 EXCEPT !.searchRows = Append(@, p)] ELSE l1

\* on_tunnel_failed: the row is listed by a search only when it is rebuilt.
OnTunnelFailed(l, p, mark) ==
    WithRow(l, PacketRow(p, "none", {IF mark = NoMark THEN "TLS FAILED" ELSE mark}))

\* Fault: the search list is not rebuilt when a status comes.
OnPacketCompleted_NotRebuilt(l, p) ==
    IF p \notin DOMAIN l.index \/ l.index[p] \notin DOMAIN l.rows THEN l
    ELSE [l EXCEPT !.rows[l.index[p]].status = "done"]

\* Fault: the status of a row is lost when another came after it.
OnPacketCompleted_LastRow(l, p) ==
    IF p \notin DOMAIN l.index \/ l.index[p] # Len(l.rows) THEN l
    ELSE RebuildSearch([l EXCEPT !.rows[l.index[p]].status = "done"])

\* on_packet_completed
OnPacketCompleted(l, p) ==
    IF p \notin DOMAIN l.index \/ l.index[p] \notin DOMAIN l.rows THEN l
    ELSE RebuildSearch([l EXCEPT !.rows[l.index[p]].status = "done"])

\* on_packet_marked: by the index, or else the first row of the flow key.
OnPacketMarked(l, p, mark) ==
    LET of == {i \in DOMAIN l.rows : l.rows[i].id = p}
        i  == IF p \in DOMAIN l.index THEN l.index[p]
              ELSE CHOOSE j \in of : \A k \in of : j <= k
    IN IF (p \notin DOMAIN l.index /\ of = {}) \/ i \notin DOMAIN l.rows THEN l
       ELSE [l EXCEPT !.rows[i].marks = @ \cup {mark}]

\* poll_incoming, one event.
ReceiveEvent ==
    /\ input.kind # "idle" /\ rx # <<>>
    /\ rx' = Tail(rx)
    /\ LET e == Head(rx)
           l == WithoutWaitingRow(list)
       IN /\ list' = CASE e.kind = "Started"      -> OnPacketStarted(l, e.id)
                       [] e.kind = "Completed"    -> OnPacketCompleted(l, e.id)
                       [] e.kind = "Marked"       -> OnPacketMarked(l, e.id, e.mark)
                       [] e.kind = "TunnelFailed" -> OnTunnelFailed(l, e.id, e.mark)
          /\ failures' = IF e.kind = "TunnelFailed" THEN failures \cup {e.id} ELSE failures
    /\ changed' = TRUE
    /\ UNCHANGED <<sent, diff, retained, input, inputs, detailVars>>

-----------------------------------------------------------------------------
(* Inputs.  A handler runs when the channel of packet events is found empty. *)

Input(kind, arg) == [kind |-> kind, arg |-> arg]
Idle == Input("idle", 0)

\* tick: taken to come only when there is something to receive.
Tick ==
    /\ input.kind = "idle" /\ rx # <<>>
    /\ input' = Input("tick", 0)
    /\ UNCHANGED <<listVars, feedVars, changed, inputs, detailVars>>

\* search_capture_files: the files among those of captured flows, whether these still
\* have a row or not, in the order of the flows' numbers.
Found(text) ==
    LET found == {file \in text : sent[file.id] # "nothing"}
        all   == CHOOSE s \in [1..Cardinality(found) -> found] :
                    \A i, j \in DOMAIN s : i < j => s[i].id <= s[j].id /\ s[i] # s[j]
    IN SubSeq(all, 1, Least(Len(all), MaxResults))

DrawnIn(index, ids, p) == IF p \in DOMAIN index THEN Append(ids, p) ELSE ids

\* sync_list: the rows that are drawn, by their ids.
Drawn(l) ==
    IF l.mode = "main" THEN [i \in DOMAIN l.rows |-> l.rows[i].id]
    ELSE FoldLeft(LAMBDA ids, p : DrawnIn(l.index, ids, p), <<>>, l.searchRows)

\* What the user does, in the list, in the detail pane or in a popup.  A click is on
\* a row as it is drawn, and a result is of a search that is over, before what waits in
\* the channel is received; which key it is matters only to the handler.
UserInput ==
    /\ input.kind = "idle" /\ inputs < MaxInputs
    /\ \/ input' = Input("key", 0)
       \/ \E i \in DOMAIN Drawn(list) : input' = Input("click", i)
       \/ \E text \in Texts : \E k \in DOMAIN Found(text) :
            input' = Input("select", [found |-> Found(text), k |-> k])
    /\ inputs' = inputs + 1
    /\ UNCHANGED <<listVars, feedVars, changed, detailVars>>

\* SegmentedControl of the detail pane: a tunnel that failed has no tabs of messages.
SwitchTab(t) ==
    /\ input.kind = "idle" /\ inputs < MaxInputs /\ t # tab
    /\ t = "message" => ~detail.tunnel
    /\ tab' = t /\ inputs' = inputs + 1
    /\ UNCHANGED <<listVars, feedVars, input, changed, pending, detail>>

\* The end of poll_incoming, before the handler.
Polled == IF changed THEN ClampSelected(TrimRowsIfNeeded(list)) ELSE list

Handling(kind) ==
    /\ input.kind = kind /\ rx = <<>>
    /\ input' = Idle /\ changed' = FALSE
    /\ UNCHANGED <<feedVars, failures, inputs, detail, tab>>

\* A UiEvent is sent at once, or by a task that loads what it shows.
UiEvent(kind, p, t, how) == [kind |-> kind, id |-> p, tab |-> t, sent |-> how]

\* show_detail_with: the details of a failed tunnel are at hand, others are loaded.
ShowDetail(l, t) ==
    LET p   == CurrentId(l)
        how == IF p \in failures THEN "atOnce" ELSE "byTask"
    IN pending' = IF p = NoId THEN pending
                  ELSE Append(pending, UiEvent("ShowDetail", p, t, how))

HandleTick ==
    /\ Handling("tick")
    /\ list' = Polled
    /\ UNCHANGED <<diff, retained, pending>>

\* Fault: the selection goes below the first row.
MoveUp_Below(l) == Select(l, Selected(l) - 1)

MoveUp(l)   == Select(l, Back(Selected(l), 1))
MoveDown(l) == IF Selected(l) < VisibleLen(l) THEN Select(l, Selected(l) + 1) ELSE l
PageUp(l)   == Select(l, Back(Selected(l), Page))
PageDown(l) == IF VisibleLen(l) = 0 THEN l ELSE Select(l, Within(Selected(l) + Page, VisibleLen(l)))
JumpToBottom(l) == IF VisibleLen(l) = 0 THEN l ELSE Select(l, VisibleLen(l))

\* The keys that move the selection; the details of where it is are shown.
MoveKey ==
    /\ Handling("key")
    /\ list' \in {MoveUp(Polled), MoveDown(Polled), PageUp(Polled), PageDown(Polled),
                  JumpToBottom(Polled)}
    /\ ShowDetail(list', "keep")
    /\ UNCHANGED <<diff, retained>>

\* Enter, and Esc outside a search
EnterKey ==
    /\ Handling("key")
    /\ list' = Polled
    /\ ShowDetail(list', "keep")
    /\ UNCHANGED <<diff, retained>>

\* select_row, of a click
HandleClick ==
    /\ Handling("click")
    /\ IF input.arg <= VisibleLen(Polled)
       THEN list' = Select(Polled, input.arg) /\ ShowDetail(list', "keep")
       ELSE list' = Polled /\ UNCHANGED <<pending>>
    /\ UNCHANGED <<diff, retained>>

\* The part of clear_search and of select_flow_key that leaves the search.
LeaveSearch(l) == [l EXCEPT !.mode = "main", !.query = {}, !.searchRows = <<>>]

ResetDetail == pending' = Append(pending, UiEvent("ShowDetail", NoId, "keep", "atOnce"))

\* Esc in a search, and a query that is empty
ClearSearch ==
    /\ Handling("key")
    /\ list' = ClampSelected(LeaveSearch(Polled))
    /\ ResetDetail
    /\ UNCHANGED <<diff, retained>>

SearchUrl ==
    /\ Handling("key")
    /\ \E q \in Queries :
        list' = [Polled EXCEPT !.mode = "search", !.query = q, !.searchSel = 1,
                               !.searchRows = MatchingIds(Polled.rows, q)]
    /\ ResetDetail
    /\ UNCHANGED <<diff, retained>>

InvalidQuery ==
    /\ Handling("key")
    /\ list' = AppendSystemLine(Polled)
    /\ UNCHANGED <<diff, retained, pending>>

\* select_retained_full_text_result and select_flow_key: the first row of the flow.
SelectRetained(found, k) ==
    LET l  == Polled
        of == {i \in DOMAIN l.rows : l.rows[i].id = found[k].id}
    IN /\ retained' = [found |-> found, sel |-> k]
       /\ IF of = {} THEN list' = AppendSystemLine(l) /\ UNCHANGED <<pending>>
          ELSE /\ list' = [LeaveSearch(l) EXCEPT
                              !.mainSel = CHOOSE i \in of : \A j \in of : i <= j]
               /\ ShowDetail(list', found[k].tab)

\* poll_full_text_select_requests
SelectFound ==
    /\ Handling("select")
    /\ SelectRetained(input.arg.found, input.arg.k)
    /\ UNCHANGED diff

\* move_retained_full_text_next and _previous, round and round
MoveRetained ==
    LET n == Len(retained.found) IN
    /\ Handling("key")
    /\ IF n = 0
       THEN list' = AppendSystemLine(Polled) /\ UNCHANGED <<retained, pending>>
       ELSE \/ SelectRetained(retained.found, (retained.sel % n) + 1)
            \/ SelectRetained(retained.found, IF retained.sel = 1 THEN n ELSE retained.sel - 1)
    /\ UNCHANGED diff

\* set_diff_left_from_selected and set_diff_right_from_selected: a packet is not
\* compared with itself.
MarkDiff(side, other) ==
    LET p == CurrentId(Polled)
    IN /\ Handling("key")
       /\ diff' = IF p = NoId \/ diff[other] = p THEN diff ELSE [diff EXCEPT ![side] = p]
       /\ list' = AppendSystemLine(Polled)
       /\ UNCHANGED <<retained, pending>>

ClearDiff ==
    /\ Handling("key")
    /\ diff' = [left |-> NoId, right |-> NoId]
    /\ list' = AppendSystemLine(Polled)
    /\ UNCHANGED <<retained, pending>>

\* poll_external_diff_requests and poll_external_view_requests: a program is started
\* on files of the packets, or a line says why not.
ExternalTool ==
    /\ Handling("key") /\ tab # "Info"
    /\ \E ready \in {diff.left # NoId /\ diff.right # NoId, CurrentId(Polled) # NoId} :
        list' = IF ExternalCommands /\ ready THEN Polled ELSE AppendSystemLine(Polled)
    /\ UNCHANGED <<diff, retained, pending>>

\* open_filter_stats
OpenFilterStats ==
    /\ Handling("key")
    /\ list' = Polled
    /\ pending' = Append(pending, UiEvent("OpenFilterStats", NoId, "Info", "byTask"))
    /\ UNCHANGED <<diff, retained>>

\* open_edit_for_selected_detail: of the packet selected, which need not be shown.
OpenEdit ==
    LET p == CurrentId(Polled) IN
    /\ Handling("key")
    /\ IF p = NoId \/ tab # "message"
       THEN list' = AppendSystemLine(Polled) /\ UNCHANGED pending
       ELSE list' = Polled /\ pending' = Append(pending, UiEvent("OpenEdit", p, tab, "byTask"))
    /\ UNCHANGED <<diff, retained>>

-----------------------------------------------------------------------------
(* The root pane, which receives details. *)

\* Fault: the tab of a message stays for a tunnel.
TabFor_Stays(e, tunnel) == IF e.tab # "keep" /\ ~tunnel THEN e.tab ELSE tab

\* set_content of the detail pane: a tunnel has the tabs SslTls and Info only.
TabFor(e, tunnel) ==
    IF tunnel THEN IF tab = "message" THEN "SslTls" ELSE tab
    ELSE IF e.tab # "keep" THEN e.tab ELSE tab

\* Whether tunnel_info is there: not for a tunnel whose details could not be loaded, or
\* whose file was gone, which is shown as a message.
TunnelInfo(e) ==
    IF e.id \notin Tunnels THEN {FALSE} ELSE IF e.sent = "atOnce" THEN {TRUE} ELSE BOOLEAN

\* poll_ui_events, one event, and set_content of the detail pane.  Tasks end in any
\* order; what is sent at once comes after what was sent at once before it, and
\* before what is asked for later.  Statistics that cannot be read are shown as an error.
ReceiveUi(i) ==
    /\ input.kind = "idle"
    /\ \A j \in 1..(i - 1) : pending[j].sent = "byTask"
    /\ pending' = SubSeq(pending, 1, i - 1) \o SubSeq(pending, i + 1, Len(pending))
    /\ LET e == pending[i]
       IN \/ e.kind # "ShowDetail" /\ UNCHANGED <<detail, tab>>
          \/ /\ e.kind # "OpenEdit"
             /\ \E tunnel \in TunnelInfo(e) :
                  detail' = [id |-> e.id, tunnel |-> tunnel] /\ tab' = TabFor(e, tunnel)
    /\ UNCHANGED <<listVars, feedVars, inputVars>>

-----------------------------------------------------------------------------
\* The row of a stored packet: it has a status if it was answered, and a tunnel that failed
\* is marked.
StoredRow(p, answered) ==
    PacketRow(p, IF p \in answered THEN "done" ELSE "none",
              IF p \in Tunnels THEN {"TLS FAILED"} ELSE {})

\* PacketListDelegate::new: what is stored, or the row that waits for traffic; a
\* capture selects the last row, a viewer the first.
Init ==
    /\ \E session \in Sessions, viewer \in BOOLEAN :
        LET rows == IF session.stored = <<>> THEN <<WaitingRow>>
                    ELSE [i \in DOMAIN session.stored |-> StoredRow(session.stored[i], session.answered)]
        IN /\ list = [rows |-> rows, index |-> IndexOf(rows), mode |-> "main",
                      mainSel |-> IF viewer THEN 1 ELSE Len(rows), searchSel |-> 1,
                      query |-> {}, searchRows |-> <<>>]
           /\ sent = [p \in Packets |-> IF p \in session.flows THEN "nothing" ELSE "all"]
    /\ failures = {} /\ diff = [left |-> NoId, right |-> NoId]
    /\ retained = [found |-> <<>>, sel |-> 1]
    /\ rx = <<>> /\ input = Idle /\ changed = FALSE /\ inputs = 0
    /\ pending = <<>> /\ detail = [id |-> NoId, tunnel |-> FALSE] /\ tab = "message"

Handle ==
    \/ HandleTick \/ MoveKey \/ EnterKey \/ HandleClick
    \/ ClearSearch \/ SearchUrl \/ InvalidQuery
    \/ SelectFound \/ MoveRetained
    \/ MarkDiff("left", "right") \/ MarkDiff("right", "left")
    \/ ClearDiff \/ ExternalTool \/ OpenFilterStats \/ OpenEdit

Publishing ==
    \E p \in Packets : PublishRequest(p) \/ PublishResponse(p) \/ PublishTunnelFailed(p)

Next ==
    \/ Publishing
    \/ Tick \/ UserInput \/ (\E t \in {"message", "SslTls", "Info"} : SwitchTab(t))
    \/ ReceiveEvent \/ Handle
    \/ (\E i \in DOMAIN pending : ReceiveUi(i))

\* The thread of the interface goes on, and its timer is scheduled again by each tick:
\* what the steps Tick, ReceiveEvent and Handle, and no others, do to the channel and
\* to the input.
InterfaceStep ==
    \/ input.kind = "idle" /\ rx # <<>> /\ input' = Input("tick", 0) /\ rx' = rx
    \/ input.kind # "idle" /\ rx # <<>> /\ rx' = Tail(rx) /\ input' = input
    \/ input.kind # "idle" /\ rx = <<>> /\ input' = Idle /\ rx' = rx

Fairness == WF_<<input, rx>>(InterfaceStep)

Spec == Init /\ [][Next]_vars /\ Fairness

-----------------------------------------------------------------------------
(* Properties *)

ListType ==
    /\ list.rows \in Seq(Rows)
    /\ DOMAIN list.index \subseteq Packets
    /\ list.mode \in {"main", "search"}
    /\ list.mainSel \in Nat \ {0} /\ list.searchSel \in Nat \ {0}
    /\ list.searchRows \in Seq(Packets)

\* The state is of its types, and the retained result is one of the results
\* (retained_full_text_selected stays within the results, however they are walked).
TypeOK ==
    /\ ListType
    /\ failures \subseteq Tunnels
    /\ {diff.left, diff.right} \subseteq Packets \cup {NoId}
    /\ retained.found # <<>> => retained.sel \in DOMAIN retained.found
    /\ detail \in [id : Packets \cup {NoId}, tunnel : BOOLEAN]
    /\ tab \in {"message", "SslTls", "Info"}

\* For every list the index names, for exactly the packets that have rows, their last
\* row: through events, system lines and the trimming that moves every row, the code's
\* id_to_row_index never leads on_packet_completed, the search or the editor to a row
\* of another packet.
IndexOK(l) ==
    /\ \A p \in DOMAIN l.index :
        /\ l.index[p] \in DOMAIN l.rows /\ l.rows[l.index[p]].id = p
        /\ \A j \in DOMAIN l.rows : l.rows[j].id = p => j <= l.index[p]
    /\ \A i \in DOMAIN l.rows : l.rows[i].id # NoId => l.rows[i].id \in DOMAIN l.index

IndexSound == IndexOK(list)

\* While a search is on, the list drawn is what the query matches, row for row in the
\* order of the rows, whatever was received, completed or trimmed meanwhile; only
\* tunnels that failed may be missing, which on_tunnel_failed does not list.
SearchShowsMatches ==
    list.mode = "search" =>
        \E hidden \in SUBSET Tunnels :
            list.searchRows = Listing(list.rows, list.query, hidden)

\* The pane never offers a message of a tunnel that failed, once its details are loaded:
\* whatever order the details asked for come in, and whichever tab the user or a search
\* result left it on, its tab is one that what it shows has (set_content); and only a
\* tunnel is shown as one.
TabIsOfDetail == detail.tunnel => detail.id \in Tunnels /\ tab # "message"

\* In the whole list the selection stays on its packet while that packet has a row,
\* until the user moves it: receiving, trimming (which moves all rows up) and system
\* lines do not move it to another packet.
SelectionKeepsPacket ==
    [][ LET p == CurrentId(list)
        IN (/\ list.mode = "main" /\ list'.mode = "main"
            /\ p # NoId /\ p \in DOMAIN list'.index /\ CurrentId(list') # p)
           => (MoveKey \/ HandleClick \/ SelectFound \/ MoveRetained) ]_vars

\* A packet completed while it has a row is eventually shown with its status, unless
\* its row is trimmed first: poll_incoming is run again by each tick.
CompletedIsShown ==
    \A p \in Packets \ Tunnels :
        (\E i \in DOMAIN rx : rx[i].kind = "Completed" /\ rx[i].id = p)
            ~> (\A i \in DOMAIN list.rows : list.rows[i].id = p => list.rows[i].status = "done")

-----------------------------------------------------------------------------
(* What the properties rest on. *)

Opening == {"Started", "TunnelFailed"}

\* A packet is announced once, before which it has no row and after which it has at
\* most one: of what is stored nothing is announced.
OpenedOnce ==
    /\ \A i, j \in DOMAIN list.rows :
        list.rows[i].id # NoId /\ list.rows[i].id = list.rows[j].id => i = j
    /\ \A i, j \in DOMAIN rx :
        rx[i].kind \in Opening /\ rx[j].kind \in Opening /\ rx[i].id = rx[j].id => i = j
    /\ \A i \in DOMAIN rx : rx[i].kind \in Opening =>
        /\ sent[rx[i].id] # "nothing"
        /\ \A k \in DOMAIN list.rows : list.rows[k].id # rx[i].id
    /\ \A k \in DOMAIN list.rows :
        list.rows[k].id # NoId => sent[list.rows[k].id] # "nothing"
    /\ DOMAIN sent = Packets

Tabs  == {"message", "SslTls", "Info"}
Files == [id : Packets, tab : Tabs]

\* What the interface has taken up and not done yet is something it can do: the row of a
\* click, the result to be selected, and what the root pane is to show.
WorkOK ==
    /\ input.kind = "click" => input.arg \in Nat \ {0}
    /\ input.kind = "select" =>
        input.arg.found \in Seq(Files) /\ input.arg.k \in DOMAIN input.arg.found
    /\ retained.found \in Seq(Files)
    /\ pending \in Seq([kind : {"ShowDetail", "OpenFilterStats", "OpenEdit"},
                        id : Packets \cup {NoId}, tab : Tabs \cup {"keep"},
                        sent : {"atOnce", "byTask"}])
    /\ DOMAIN retained = {"found", "sel"} /\ DOMAIN diff = {"left", "right"}

=============================================================================
