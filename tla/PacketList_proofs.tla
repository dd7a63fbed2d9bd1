------------------------- MODULE PacketList_proofs -------------------------
(***************************************************************************)
(* Proofs about PacketList, for any packets, queries, limits and channel   *)
(* capacity: through every operation of the list the index of the rows     *)
(* stays right, each packet has one row, the selection stays on its packet *)
(* and a search shows what matches; and the detail pane is on a tab its    *)
(* packet has.                                                             *)
(***************************************************************************)
EXTENDS PacketList, FoldTheorems

\* Events as they are published: only a tunnel fails, and it is not started.
EventKinds == {"Started", "Completed", "Marked", "TunnelFailed"}
AnyEvent ==
    {e \in [kind : EventKinds, id : Packets, mark : Labels \cup {NoMark}] :
        /\ e.kind = "Started" => e.id \notin Tunnels
        /\ e.kind = "TunnelFailed" => e.id \in Tunnels
        /\ e.kind = "Marked" => e.mark \in Labels}

\* A row is of a packet or of none.
LEMMA RowFacts ==
    ASSUME NEW row \in Rows
    PROVE  /\ row.id \in Packets \cup {NoId}
           /\ row.id # NoId => row.kind = "packet"
           /\ row.kind = "packet" => row \in [kind : {"packet"}, id : Packets, status : Statuses,
                                             marks : SUBSET (Labels \cup {"TLS FAILED"})]
<1>0. /\ WaitingRow.id = NoId /\ WaitingRow.kind # "packet"
      /\ SystemRow.id = NoId /\ SystemRow.kind # "packet"
  BY DEF WaitingRow, SystemRow
<1>1. CASE row = WaitingRow \/ row = SystemRow
  BY <1>0, <1>1
<1>2. CASE row \in [kind : {"packet"}, id : Packets, status : Statuses,
                    marks : SUBSET (Labels \cup {"TLS FAILED"})]
  BY <1>2
<1> QED BY <1>1, <1>2 DEF Rows

\* A row of a packet changes its status, or is marked.
LEMMA ChangedRow ==
    ASSUME NEW row \in Rows, row.id # NoId
    PROVE  /\ [row EXCEPT !.status = "done"] \in Rows
           /\ [row EXCEPT !.status = "done"].id = row.id
           /\ [row EXCEPT !.status = "done"].kind = row.kind
           /\ \A mark \in Labels : /\ [row EXCEPT !.marks = @ \cup {mark}] \in Rows
                                   /\ [row EXCEPT !.marks = @ \cup {mark}].id = row.id
                                   /\ [row EXCEPT !.marks = @ \cup {mark}].kind = row.kind
                                   /\ [row EXCEPT !.marks = @ \cup {mark}].status = row.status
<1>1. row \in [kind : {"packet"}, id : Packets, status : Statuses,
                marks : SUBSET (Labels \cup {"TLS FAILED"})]
  BY RowFacts
<1> QED BY <1>1 DEF Rows, Statuses

\* A list has the fields of PacketListDelegate that the model keeps.
Fields(l) ==
    DOMAIN l = {"rows", "index", "mode", "mainSel", "searchSel", "query", "searchRows"}

\* The row that waits for traffic is of no packet.
WaitingIsNone(l) == \A i \in DOMAIN l.rows : l.rows[i].kind = "waiting" => l.rows[i].id = NoId

\* The index is right, for a list of these fields and rows.
Sound(l) ==
    /\ Fields(l) /\ l.rows \in Seq(Rows) /\ NoId \notin DOMAIN l.index /\ IndexOK(l)
    /\ WaitingIsNone(l)

\* Nothing but the rows and the index matters to the index.
LEMMA SameRows ==
    ASSUME NEW l, NEW m, Sound(l), Fields(m), m.rows = l.rows, m.index = l.index
    PROVE  Sound(m)
BY DEF Sound, IndexOK, WaitingIsNone

\* Moving the selection.
LEMMA SelectSound ==
    ASSUME NEW l, NEW sel, Sound(l)
    PROVE  Sound(Select(l, sel))
<1>1. Fields(Select(l, sel)) /\ Select(l, sel).rows = l.rows /\ Select(l, sel).index = l.index
  BY DEF Sound, Fields, Select
<1> QED BY <1>1, SameRows

\* clamp_current_selected moves a selection only.
LEMMA ClampSound ==
    ASSUME NEW l, Sound(l)
    PROVE  Sound(ClampSelected(l))
BY SelectSound DEF ClampSelected

\* rebuild_search_rows_if_needed leaves rows and index alone.
LEMMA RebuildSound ==
    ASSUME NEW l, Sound(l)
    PROVE  Sound(RebuildSearch(l))
<1> DEFINE ids == MatchingIds(l.rows, l.query)
           m == [l EXCEPT !.searchRows = ids, !.searchSel = Within(@, Len(ids))]
<1>1. Fields(m) /\ m.rows = l.rows /\ m.index = l.index
  <2> HIDE DEF ids
  <2> QED BY DEF Sound, Fields
<1>2. Sound(m)
  BY <1>1, SameRows
<1> QED BY <1>2 DEF RebuildSearch

\* The index made anew is right for rows each of which has a last row of its packet.
LEMMA IndexOfRows ==
    ASSUME NEW rows \in Seq(Rows),
           \A i \in DOMAIN rows : rows[i].id # NoId =>
              \E k \in DOMAIN rows : /\ rows[k].id = rows[i].id
                                     /\ \A j \in DOMAIN rows : rows[j].id = rows[i].id => j <= k
    PROVE  /\ DOMAIN IndexOf(rows) = {rows[i].id : i \in DOMAIN rows} \ {NoId}
           /\ \A p \in DOMAIN IndexOf(rows) :
                /\ IndexOf(rows)[p] \in DOMAIN rows /\ rows[IndexOf(rows)[p]].id = p
                /\ \A j \in DOMAIN rows : rows[j].id = p => j <= IndexOf(rows)[p]
<1>1. DOMAIN IndexOf(rows) = {rows[i].id : i \in DOMAIN rows} \ {NoId}
  BY DEF IndexOf
<1>2. ASSUME NEW p \in DOMAIN IndexOf(rows)
      PROVE  /\ IndexOf(rows)[p] \in DOMAIN rows /\ rows[IndexOf(rows)[p]].id = p
             /\ \A j \in DOMAIN rows : rows[j].id = p => j <= IndexOf(rows)[p]
  <2> DEFINE LastOf(k) == rows[k].id = p /\ \A j \in DOMAIN rows : rows[j].id = p => j <= k
  <2>1. \E k \in DOMAIN rows : LastOf(k)
    BY <1>1
  <2>2. IndexOf(rows)[p] = CHOOSE k \in DOMAIN rows : LastOf(k)
    BY <1>1 DEF IndexOf
  <2> HIDE DEF LastOf
  <2>3. IndexOf(rows)[p] \in DOMAIN rows /\ LastOf(IndexOf(rows)[p])
    BY <2>1, <2>2
  <2> QED BY <2>3 DEF LastOf
<1> QED BY <1>1, <1>2

\* Trimming: the last row of a packet that is left is the last row it had.
LEMMA TrimmedSound ==
    ASSUME NEW l, Sound(l)
    PROVE  LET n    == Least(TrimRows, Len(l.rows))
               kept == SubSeq(l.rows, n + 1, Len(l.rows))
           IN Sound([l EXCEPT !.rows = kept, !.index = IndexOf(kept), !.mainSel = Back(@, n)])
<1> DEFINE n    == Least(TrimRows, Len(l.rows))
           kept == SubSeq(l.rows, n + 1, Len(l.rows))
           m    == [l EXCEPT !.rows = kept, !.index = IndexOf(kept), !.mainSel = Back(@, n)]
<1>1. n \in Nat /\ n <= Len(l.rows)
  BY PacketListAssumption DEF Sound, Least
<1>2. /\ kept \in Seq(Rows) /\ DOMAIN kept = 1..(Len(l.rows) - n)
      /\ \A i \in DOMAIN kept : kept[i] = l.rows[i + n] /\ i + n \in DOMAIN l.rows
  <2> HIDE DEF n
  <2> QED BY <1>1 DEF Sound
<1>3. ASSUME NEW i \in DOMAIN kept, kept[i].id # NoId
      PROVE  \E k \in DOMAIN kept :
                kept[k].id = kept[i].id /\ \A j \in DOMAIN kept : kept[j].id = kept[i].id => j <= k
  <2> DEFINE p == kept[i].id
             k == l.index[p] - n
  <2>1. p \in DOMAIN l.index /\ i + n <= l.index[p] /\ l.index[p] \in DOMAIN l.rows
    BY <1>2, <1>3 DEF Sound, IndexOK
  <2>2. DOMAIN l.rows = 1..Len(l.rows) /\ Len(l.rows) \in Nat
    BY DEF Sound
  <2>3. k \in DOMAIN kept /\ k + n = l.index[p]
    <3> HIDE DEF n, kept
    <3> QED BY <1>1, <1>2, <2>1, <2>2
  <2>4. kept[k].id = p
    BY <1>2, <2>1, <2>3 DEF Sound, IndexOK
  <2>5. \A j \in DOMAIN kept : kept[j].id = p => j <= k
    <3> SUFFICES ASSUME NEW j \in DOMAIN kept, kept[j].id = p PROVE j <= k
      OBVIOUS
    <3>1. j + n \in DOMAIN l.rows /\ l.rows[j + n].id = p
      BY <1>2
    <3>2. j + n <= l.index[p]
      BY <3>1, <2>1 DEF Sound, IndexOK
    <3>3. j \in Nat
      BY <1>2
    <3> HIDE DEF n, kept
    <3> QED BY <1>1, <2>1, <2>2, <3>2, <3>3
  <2> QED BY <2>3, <2>4, <2>5
<1>4. Sound(m)
  <2> HIDE DEF n, kept
  <2>1. Fields(m) /\ m.rows = kept /\ m.index = IndexOf(kept)
    BY DEF Sound, Fields
  <2>2. /\ DOMAIN IndexOf(kept) = {kept[i].id : i \in DOMAIN kept} \ {NoId}
        /\ \A p \in DOMAIN IndexOf(kept) :
             /\ IndexOf(kept)[p] \in DOMAIN kept /\ kept[IndexOf(kept)[p]].id = p
             /\ \A j \in DOMAIN kept : kept[j].id = p => j <= IndexOf(kept)[p]
    BY <1>2, <1>3, IndexOfRows
  <2>3. IndexOK(m) /\ NoId \notin DOMAIN m.index
    <3> HIDE DEF m
    <3> QED BY <2>1, <2>2 DEF IndexOK
  <2>4. WaitingIsNone(m)
    BY <1>2, <2>1 DEF Sound, WaitingIsNone
  <2> QED BY <1>2, <2>1, <2>3, <2>4 DEF Sound
<1> QED BY <1>4

\* trim_rows_if_needed: what is trimmed, then searched and clamped, is sound.
LEMMA TrimSound ==
    ASSUME NEW l, Sound(l)
    PROVE  Sound(TrimRowsIfNeeded(l))
BY TrimmedSound, RebuildSound, ClampSound DEF TrimRowsIfNeeded

\* A row of no packet at the end.
LEMMA LineSound ==
    ASSUME NEW l, Sound(l)
    PROVE  Sound([l EXCEPT !.rows = Append(@, SystemRow)])
<1> DEFINE m == [l EXCEPT !.rows = Append(@, SystemRow)]
<1>1. SystemRow \in Rows
  BY DEF Rows
<1>2. Fields(m) /\ m.rows = Append(l.rows, SystemRow) /\ m.index = l.index
  BY DEF Sound, Fields
<1>3. IndexOK(m)
  BY <1>2 DEF Sound, IndexOK, SystemRow
<1>4. WaitingIsNone(m)
  BY <1>2 DEF Sound, WaitingIsNone, SystemRow
<1>5. Sound(m)
  BY <1>1, <1>2, <1>3, <1>4 DEF Sound
<1> QED BY <1>5

\* append_system_line adds a row of no packet and trims.
LEMMA SystemLineSound ==
    ASSUME NEW l, Sound(l)
    PROVE  Sound(AppendSystemLine(l))
BY LineSound, TrimSound DEF AppendSystemLine

\* The row that waits for traffic is of no packet: without it the index is empty too.
LEMMA WithoutWaitingSound ==
    ASSUME NEW l, Sound(l)
    PROVE  Sound(WithoutWaitingRow(l))
<1> DEFINE m == [l EXCEPT !.rows = <<>>, !.searchRows = <<>>, !.mainSel = 1, !.searchSel = 1]
<1> SUFFICES ASSUME Len(l.rows) = 1, l.rows[1].kind = "waiting" PROVE Sound(m)
  BY DEF WithoutWaitingRow
<1>1. DOMAIN l.rows = {1} /\ l.rows[1].id = NoId
  <2>1. DOMAIN l.rows = 1..1
    BY DEF Sound
  <2> QED BY <2>1 DEF Sound, WaitingIsNone
<1>2. DOMAIN l.index = {}
  BY <1>1 DEF Sound, IndexOK
<1>3. Fields(m) /\ m.rows = <<>> /\ m.index = l.index
  BY DEF Sound, Fields
<1> QED BY <1>2, <1>3 DEF Sound, IndexOK, WaitingIsNone

\* A new row is the last of its packet.
LEMMA WithRowSound ==
    ASSUME NEW l, Sound(l), NEW row \in Rows, row.id # NoId, row.kind = "packet"
    PROVE  Sound(WithRow(l, row))
<1> DEFINE m == WithRow(l, row)
<1>1. /\ Fields(m) /\ m.rows = Append(l.rows, row)
      /\ m.index = [p \in DOMAIN l.index \cup {row.id} |->
                        IF p = row.id THEN Len(l.rows) + 1 ELSE l.index[p]]
  BY DEF Sound, Fields, WithRow
<1>2. IndexOK(m)
  BY <1>1 DEF Sound, IndexOK
<1>3. WaitingIsNone(m)
  BY <1>1 DEF Sound, WaitingIsNone
<1> QED BY <1>1, <1>2, <1>3 DEF Sound

\* A row that changes stays of its packet.
LEMMA RowChangeSound ==
    ASSUME NEW l, Sound(l), NEW i \in DOMAIN l.rows, NEW row \in Rows,
           row.id = l.rows[i].id, row.kind = l.rows[i].kind
    PROVE  Sound([l EXCEPT !.rows = [l.rows EXCEPT ![i] = row]])
<1> DEFINE rows == [l.rows EXCEPT ![i] = row]
           m == [l EXCEPT !.rows = rows]
<1>1. /\ rows \in Seq(Rows) /\ DOMAIN rows = DOMAIN l.rows
      /\ \A j \in DOMAIN l.rows : rows[j].id = l.rows[j].id /\ rows[j].kind = l.rows[j].kind
  BY DEF Sound
<1>2. Fields(m) /\ m.rows = rows /\ m.index = l.index
  <2> HIDE DEF rows
  <2> QED BY DEF Sound, Fields
<1>3. IndexOK(m)
  BY <1>1, <1>2 DEF Sound, IndexOK
<1>4. WaitingIsNone(m)
  BY <1>1, <1>2 DEF Sound, WaitingIsNone
<1> QED BY <1>1, <1>2, <1>3, <1>4 DEF Sound

\* on_packet_started: the new row is the last one of its packet.
LEMMA StartedSound ==
    ASSUME NEW l, Sound(l), NEW p \in Packets
    PROVE  Sound(OnPacketStarted(l, p))
<1> DEFINE row == PacketRow(p, "none", {})
           m == WithRow(l, row)
           s == [m EXCEPT !.searchRows = Append(@, p)]
<1>1. row \in Rows /\ row.id # NoId /\ row.kind = "packet"
  BY PacketListAssumption DEF PacketRow, Rows, Statuses
<1>2. Sound(m)
  BY <1>1, WithRowSound
<1>3. Fields(s) /\ s.rows = m.rows /\ s.index = m.index
  <2> HIDE DEF m
  <2> QED BY <1>2 DEF Sound, Fields
<1>4. Sound(s)
  BY <1>2, <1>3, SameRows
<1> QED BY <1>2, <1>4 DEF OnPacketStarted

\* on_tunnel_failed: likewise, for a row that is marked at once.
LEMMA TunnelSound ==
    ASSUME NEW l, Sound(l), NEW p \in Packets, NEW mark \in Labels \cup {NoMark}
    PROVE  Sound(OnTunnelFailed(l, p, mark))
<1> DEFINE row == PacketRow(p, "none", {IF mark = NoMark THEN "TLS FAILED" ELSE mark})
<1>1. row \in Rows /\ row.id # NoId /\ row.kind = "packet"
  BY PacketListAssumption DEF PacketRow, Rows, Statuses
<1> QED BY <1>1, WithRowSound DEF OnTunnelFailed

\* on_packet_completed changes the status of the row that the index names.
LEMMA CompletedSound ==
    ASSUME NEW l, Sound(l), NEW p \in Packets
    PROVE  Sound(OnPacketCompleted(l, p))
<1> SUFFICES ASSUME p \in DOMAIN l.index, l.index[p] \in DOMAIN l.rows
             PROVE  Sound(OnPacketCompleted(l, p))
  BY DEF OnPacketCompleted
<1> DEFINE i == l.index[p]
           row == [l.rows[i] EXCEPT !.status = "done"]
           m == [l EXCEPT !.rows = [l.rows EXCEPT ![i] = row]]
<1>1. row \in Rows /\ row.id = l.rows[i].id /\ row.kind = l.rows[i].kind
  <2>1. l.rows[i] \in Rows /\ l.rows[i].id # NoId
    BY DEF Sound, IndexOK
  <2> QED BY <2>1, ChangedRow
<1>2. Sound(m)
  <2> HIDE DEF row
  <2> QED BY <1>1, RowChangeSound
<1>3. [l EXCEPT !.rows[l.index[p]].status = "done"] = m
  OBVIOUS
<1> QED BY <1>2, <1>3, RebuildSound DEF OnPacketCompleted

\* on_packet_marked changes the marks of a row of the packet.
LEMMA MarkedSound ==
    ASSUME NEW l, Sound(l), NEW p \in Packets, NEW mark \in Labels
    PROVE  Sound(OnPacketMarked(l, p, mark))
<1> DEFINE of == {j \in DOMAIN l.rows : l.rows[j].id = p}
           i  == IF p \in DOMAIN l.index THEN l.index[p]
                 ELSE CHOOSE j \in of : \A k \in of : j <= k
<1> SUFFICES ASSUME i \in DOMAIN l.rows, ~(p \notin DOMAIN l.index /\ of = {})
             PROVE  Sound([l EXCEPT !.rows[i].marks = @ \cup {mark}])
  BY DEF OnPacketMarked
<1>0. l.rows[i].id = p /\ p # NoId
  <2>1. CASE p \in DOMAIN l.index
    BY <2>1, PacketListAssumption DEF Sound, IndexOK
  <2>2. CASE p \notin DOMAIN l.index
    <3>1. \E j \in DOMAIN l.rows : l.rows[j].id = p
      BY <2>2
    <3> QED BY <2>2, <3>1, PacketListAssumption DEF Sound, IndexOK
  <2> QED BY <2>1, <2>2
<1> HIDE DEF i
<1> DEFINE row == [l.rows[i] EXCEPT !.marks = @ \cup {mark}]
           m == [l EXCEPT !.rows = [l.rows EXCEPT ![i] = row]]
<1>1. row \in Rows /\ row.id = l.rows[i].id /\ row.kind = l.rows[i].kind
  <2>1. l.rows[i] \in Rows
    BY DEF Sound
  <2> QED BY <1>0, <2>1, ChangedRow
<1>2. Sound(m)
  <2> HIDE DEF row
  <2> QED BY <1>1, RowChangeSound
<1>3. [l EXCEPT !.rows[i].marks = @ \cup {mark}] = m
  OBVIOUS
<1> QED BY <1>2, <1>3

-----------------------------------------------------------------------------
(* The handlers of inputs. *)

LEMMA PolledSound ==
    ASSUME Sound(list)
    PROVE  Sound(Polled)
BY TrimSound, ClampSound DEF Polled

\* The keys that move the selection.
LEMMA MovesSound ==
    ASSUME NEW l, Sound(l)
    PROVE  /\ Sound(MoveUp(l)) /\ Sound(MoveDown(l)) /\ Sound(PageUp(l)) /\ Sound(PageDown(l))
           /\ Sound(JumpToBottom(l))
BY SelectSound DEF MoveUp, MoveDown, PageUp, PageDown, JumpToBottom

\* Leaving the search leaves rows and index alone.
LEMMA LeaveSound ==
    ASSUME NEW l, Sound(l)
    PROVE  Sound(LeaveSearch(l))
<1>1. Fields(LeaveSearch(l)) /\ LeaveSearch(l).rows = l.rows /\ LeaveSearch(l).index = l.index
  BY DEF Sound, Fields, LeaveSearch
<1> QED BY <1>1, SameRows

\* select_retained_full_text_result adds a line, or moves a selection.
LEMMA SelectRetainedSound ==
    ASSUME Sound(list), NEW found, NEW k, SelectRetained(found, k)
    PROVE  Sound(list')
<1>1. Sound(Polled)
  BY PolledSound
<1>2. CASE list' = AppendSystemLine(Polled)
  BY <1>1, <1>2, SystemLineSound
<1>3. ASSUME NEW sel, list' = [LeaveSearch(Polled) EXCEPT !.mainSel = sel] PROVE Sound(list')
  <2>1. Sound(LeaveSearch(Polled))
    BY <1>1, LeaveSound
  <2>2. /\ Fields(list') /\ list'.rows = LeaveSearch(Polled).rows
        /\ list'.index = LeaveSearch(Polled).index
    BY <1>3, <2>1 DEF Sound, Fields
  <2> QED BY <2>1, <2>2, SameRows
<1> QED BY <1>2, <1>3 DEF SelectRetained

\* Every handler leaves the index right.
LEMMA HandleSound ==
    ASSUME Sound(list), Handle
    PROVE  Sound(list') /\ rx' = rx
<1>1. Sound(Polled)
  BY PolledSound
<1>2. Sound(AppendSystemLine(Polled))
  BY <1>1, SystemLineSound
<1>3. CASE HandleTick
  BY <1>1, <1>3 DEF HandleTick, Handling, feedVars
<1>4. CASE MoveKey
  BY <1>1, <1>4, MovesSound DEF MoveKey, Handling, feedVars
<1>5. CASE EnterKey
  BY <1>1, <1>5 DEF EnterKey, Handling, feedVars
<1>6. CASE HandleClick
  BY <1>1, <1>6, SelectSound DEF HandleClick, Handling, feedVars
<1>7. CASE ClearSearch
  BY <1>1, <1>7, LeaveSound, ClampSound DEF ClearSearch, Handling, feedVars
<1>8. CASE SearchUrl
  <2>1. PICK q \in Queries :
          list' = [Polled EXCEPT !.mode = "search", !.query = q, !.searchSel = 1,
                                 !.searchRows = MatchingIds(Polled.rows, q)]
    BY <1>8 DEF SearchUrl
  <2>2. Fields(list') /\ list'.rows = Polled.rows /\ list'.index = Polled.index
    BY <1>1, <2>1 DEF Sound, Fields
  <2> QED BY <1>1, <1>8, <2>2, SameRows DEF SearchUrl, Handling, feedVars
<1>9. CASE InvalidQuery
  BY <1>2, <1>9 DEF InvalidQuery, Handling, feedVars
<1>10. CASE SelectFound
  BY <1>10, SelectRetainedSound DEF SelectFound, Handling, feedVars
<1>11. CASE MoveRetained
  BY <1>2, <1>11, SelectRetainedSound DEF MoveRetained, Handling, feedVars
<1>12. CASE MarkDiff("left", "right") \/ MarkDiff("right", "left")
  BY <1>2, <1>12 DEF MarkDiff, Handling, feedVars
<1>13. CASE ClearDiff
  BY <1>2, <1>13 DEF ClearDiff, Handling, feedVars
<1>14. CASE ExternalTool
  BY <1>1, <1>2, <1>14 DEF ExternalTool, Handling, feedVars
<1>15. CASE OpenFilterStats
  BY <1>1, <1>15 DEF OpenFilterStats, Handling, feedVars
<1>16. CASE OpenEdit
  BY <1>1, <1>2, <1>16 DEF OpenEdit, Handling, feedVars
<1> QED
  BY <1>3, <1>4, <1>5, <1>6, <1>7, <1>8, <1>9, <1>10, <1>11, <1>12, <1>13, <1>14, <1>15, <1>16
  DEF Handle

-----------------------------------------------------------------------------
(* The selected packet. *)

\* No packet has two rows.
Unique(l) ==
    \A i, j \in DOMAIN l.rows : l.rows[i].id # NoId /\ l.rows[i].id = l.rows[j].id => i = j

\* The rows of packets in m are rows of l, each moved up as far as the others.
IdsKept(l, m) ==
    \E n \in Nat : \A i \in DOMAIN m.rows :
        m.rows[i].id # NoId => i + n \in DOMAIN l.rows /\ l.rows[i + n].id = m.rows[i].id

\* In the whole list, the packet that is selected in l is selected in m if it has a row.
Stays(l, m) ==
    l.mode = "main" =>
        /\ m.mode = "main"
        /\ CurrentId(l) # NoId /\ CurrentId(l) \in DOMAIN m.index => CurrentId(m) = CurrentId(l)

Kept(l, m) == IdsKept(l, m) /\ Stays(l, m)

\* The packet that is selected in the whole list.
LEMMA MainId ==
    ASSUME NEW l, Sound(l), l.mode = "main"
    PROVE  CurrentId(l) = IF l.mainSel \in DOMAIN l.rows THEN l.rows[l.mainSel].id ELSE NoId
<1>1. 0 \notin DOMAIN l.rows
  BY DEF Sound
<1> QED BY <1>1 DEF CurrentId, CurrentIndex

\* Where the index is right it has the packets that have rows.
LEMMA HasRow ==
    ASSUME NEW l, Sound(l), NEW p, p # NoId
    PROVE  p \in DOMAIN l.index <=> \E i \in DOMAIN l.rows : l.rows[i].id = p
BY DEF Sound, IndexOK

\* Rows that are those of before, moved up, are of different packets if those were.
LEMMA KeptUnique ==
    ASSUME NEW l, NEW m, Sound(m), Unique(l), IdsKept(l, m)
    PROVE  Unique(m)
<1>1. PICK n \in Nat : \A i \in DOMAIN m.rows :
          m.rows[i].id # NoId => i + n \in DOMAIN l.rows /\ l.rows[i + n].id = m.rows[i].id
  BY DEF IdsKept
<1>2. \A i \in DOMAIN m.rows : i \in Nat
  BY DEF Sound
<1> SUFFICES ASSUME NEW i \in DOMAIN m.rows, NEW j \in DOMAIN m.rows,
                    m.rows[i].id # NoId, m.rows[i].id = m.rows[j].id
             PROVE  i = j
  BY DEF Unique
<1>3. i + n = j + n
  BY <1>1 DEF Unique
<1> QED BY <1>2, <1>3

\* Two operations that keep the selected packet keep it one after the other.
LEMMA KeptTrans ==
    ASSUME NEW l, NEW m, NEW k, Sound(l), Sound(m), Sound(k), Kept(l, m), Kept(m, k)
    PROVE  Kept(l, k)
<1>1. PICK n1 \in Nat : \A i \in DOMAIN m.rows :
          m.rows[i].id # NoId => i + n1 \in DOMAIN l.rows /\ l.rows[i + n1].id = m.rows[i].id
  BY DEF Kept, IdsKept
<1>2. PICK n2 \in Nat : \A i \in DOMAIN k.rows :
          k.rows[i].id # NoId => i + n2 \in DOMAIN m.rows /\ m.rows[i + n2].id = k.rows[i].id
  BY DEF Kept, IdsKept
<1>3. IdsKept(l, k)
  <2>1. n2 + n1 \in Nat /\ \A i \in DOMAIN k.rows : (i + n2) + n1 = i + (n2 + n1)
    BY DEF Sound
  <2>2. \A i \in DOMAIN k.rows : k.rows[i].id # NoId =>
          i + (n2 + n1) \in DOMAIN l.rows /\ l.rows[i + (n2 + n1)].id = k.rows[i].id
    BY <1>1, <1>2, <2>1
  <2> QED BY <2>1, <2>2 DEF IdsKept
<1>4. Stays(l, k)
  <2> SUFFICES ASSUME l.mode = "main"
               PROVE  /\ k.mode = "main"
                      /\ CurrentId(l) # NoId /\ CurrentId(l) \in DOMAIN k.index =>
                            CurrentId(k) = CurrentId(l)
    BY DEF Stays
  <2>1. m.mode = "main" /\ k.mode = "main"
    BY DEF Kept, Stays
  <2>2. ASSUME CurrentId(l) # NoId, CurrentId(l) \in DOMAIN k.index
        PROVE  CurrentId(k) = CurrentId(l)
    <3>1. CurrentId(l) \in DOMAIN m.index
      BY <1>2, <2>2, HasRow
    <3> QED BY <2>1, <2>2, <3>1 DEF Kept, Stays
  <2> QED BY <2>1, <2>2
<1> QED BY <1>3, <1>4 DEF Kept

\* The same rows, and in the whole list the same selection.
LEMMA SameIsKept ==
    ASSUME NEW l, NEW m, Sound(l), Sound(m), m.rows = l.rows,
           l.mode = "main" => /\ m.mode = "main"
                              /\ l.mainSel \in DOMAIN l.rows => m.mainSel = l.mainSel
    PROVE  Kept(l, m)
<1>1. \A i \in DOMAIN l.rows : i + 0 = i
  BY DEF Sound
<1>2. IdsKept(l, m)
  BY <1>1 DEF IdsKept
<1>3. Stays(l, m)
  BY MainId DEF Stays
<1> QED BY <1>2, <1>3 DEF Kept

\* clamp_current_selected keeps the packet that is selected in the list.
LEMMA ClampKept ==
    ASSUME NEW l, Sound(l)
    PROVE  Kept(l, ClampSelected(l))
<1> DEFINE m == ClampSelected(l)
<1>1. Sound(m)
  BY ClampSound
<1>2. m.rows = l.rows /\ m.mode = l.mode
  BY DEF ClampSelected, Select, Sound, Fields
<1>3. ASSUME l.mode = "main", l.mainSel \in DOMAIN l.rows PROVE m.mainSel = l.mainSel
  <2>1. m.mainSel = Within(l.mainSel, Len(l.rows))
    BY <1>3 DEF ClampSelected, Select, Selected, VisibleLen, Sound, Fields
  <2>2. l.mainSel \in 1..Len(l.rows) /\ Len(l.rows) \in Nat
    BY <1>3 DEF Sound
  <2> QED BY <2>1, <2>2 DEF Within, Least
<1> QED BY <1>1, <1>2, <1>3, SameIsKept

\* rebuild_search_rows_if_needed keeps the packet that is selected in the list.
LEMMA RebuildKept ==
    ASSUME NEW l, Sound(l)
    PROVE  Kept(l, RebuildSearch(l))
<1> DEFINE ids == MatchingIds(l.rows, l.query)
           m == [l EXCEPT !.searchRows = ids, !.searchSel = Within(@, Len(ids))]
<1>1. m.rows = l.rows /\ m.mode = l.mode /\ m.mainSel = l.mainSel
  <2> HIDE DEF ids
  <2> QED BY DEF Sound, Fields
<1>2. RebuildSearch(l) = l \/ RebuildSearch(l) = m
  BY DEF RebuildSearch
<1>3. Sound(RebuildSearch(l))
  BY RebuildSound
<1> HIDE DEF m
<1> QED BY <1>1, <1>2, <1>3, SameIsKept

\* Trimming moves the rows and the selection alike.
LEMMA TrimKept ==
    ASSUME NEW l, Sound(l), Unique(l)
    PROVE  Kept(l, TrimRowsIfNeeded(l))
<1>0. CASE Len(l.rows) <= MaxRows
  <2>1. TrimRowsIfNeeded(l) = l
    BY <1>0 DEF TrimRowsIfNeeded
  <2> QED BY <2>1, SameIsKept
<1>1. CASE ~(Len(l.rows) <= MaxRows)
  <2> DEFINE n    == Least(TrimRows, Len(l.rows))
             kept == SubSeq(l.rows, n + 1, Len(l.rows))
             m    == [l EXCEPT !.rows = kept, !.index = IndexOf(kept), !.mainSel = Back(@, n)]
  <2>1. n \in Nat /\ n <= Len(l.rows)
    BY PacketListAssumption DEF Sound, Least
  <2>2. /\ kept \in Seq(Rows) /\ DOMAIN kept = 1..(Len(l.rows) - n)
        /\ \A i \in DOMAIN kept : kept[i] = l.rows[i + n] /\ i + n \in DOMAIN l.rows
    <3> HIDE DEF n
    <3> QED BY <2>1 DEF Sound
  <2>3. Sound(m)
    BY <1>1, TrimmedSound
  <2>4. TrimRowsIfNeeded(l) = ClampSelected(RebuildSearch(m))
    BY <1>1 DEF TrimRowsIfNeeded
  <2> HIDE DEF n, kept
  <2>5. m.rows = kept /\ m.mode = l.mode /\ m.mainSel = Back(l.mainSel, n)
    BY DEF Sound, Fields
  <2> HIDE DEF m
  <2>6. IdsKept(l, m)
    BY <2>1, <2>2, <2>5 DEF IdsKept
  <2>7. ASSUME l.mode = "main", CurrentId(l) # NoId, CurrentId(l) \in DOMAIN m.index
        PROVE  CurrentId(m) = CurrentId(l)
    <3> DEFINE p == CurrentId(l)
    <3>1. l.mainSel \in DOMAIN l.rows /\ p = l.rows[l.mainSel].id
      BY <2>7, MainId
    <3>2. l.mainSel \in 1..Len(l.rows) /\ Len(l.rows) \in Nat
      BY <3>1 DEF Sound
    <3>3. PICK i \in DOMAIN kept : kept[i].id = p
      BY <2>3, <2>5, <2>7, HasRow
    <3>4. i + n = l.mainSel
      BY <2>2, <2>7, <3>1, <3>3 DEF Unique
    <3>5. i \in Nat \ {0}
      BY <2>2
    <3>6. m.mainSel = i
      BY <2>1, <2>5, <3>2, <3>4, <3>5 DEF Back
    <3> QED BY <2>3, <2>5, <2>7, <3>3, <3>6, MainId
  <2>8. Kept(l, m)
    BY <2>5, <2>6, <2>7 DEF Kept, Stays
  <2>9. Sound(RebuildSearch(m)) /\ Kept(m, RebuildSearch(m))
    BY <2>3, RebuildSound, RebuildKept
  <2>10. Kept(l, RebuildSearch(m))
    BY <2>3, <2>8, <2>9, KeptTrans
  <2>11. Kept(RebuildSearch(m), ClampSelected(RebuildSearch(m)))
    BY <2>9, ClampKept
  <2>12. Sound(ClampSelected(RebuildSearch(m)))
    BY <2>9, ClampSound
  <2> QED BY <2>4, <2>9, <2>10, <2>11, <2>12, KeptTrans
<1> QED BY <1>0, <1>1

\* append_system_line keeps the packet that is selected, unless its row is trimmed.
LEMMA SystemLineKept ==
    ASSUME NEW l, Sound(l), Unique(l)
    PROVE  Kept(l, AppendSystemLine(l))
<1> DEFINE m == [l EXCEPT !.rows = Append(@, SystemRow)]
<1>1. Sound(m)
  BY LineSound
<1>2. m.rows = Append(l.rows, SystemRow) /\ m.mode = l.mode /\ m.mainSel = l.mainSel
  BY DEF Sound, Fields
<1>3. /\ DOMAIN l.rows \subseteq DOMAIN m.rows /\ \A i \in DOMAIN l.rows : m.rows[i] = l.rows[i]
      /\ \A i \in DOMAIN m.rows : i + 0 = i /\ (m.rows[i].id # NoId => i \in DOMAIN l.rows)
  BY <1>2 DEF Sound, SystemRow
<1> HIDE DEF m
<1>4. IdsKept(l, m)
  BY <1>3 DEF IdsKept
<1>5. Stays(l, m)
  BY <1>1, <1>2, <1>3, MainId DEF Stays
<1>6. Kept(l, m)
  BY <1>4, <1>5 DEF Kept
<1>7. Unique(m)
  BY <1>1, <1>4, KeptUnique
<1>8. Kept(m, TrimRowsIfNeeded(m)) /\ Sound(TrimRowsIfNeeded(m))
  BY <1>1, <1>7, TrimKept, TrimSound
<1>9. Kept(l, TrimRowsIfNeeded(m))
  BY <1>1, <1>6, <1>8, KeptTrans
<1> QED BY <1>9 DEF AppendSystemLine, m

\* The end of poll_incoming.
LEMMA PolledKept ==
    ASSUME Sound(list), Unique(list)
    PROVE  Kept(list, Polled) /\ Unique(Polled)
<1> DEFINE m == TrimRowsIfNeeded(list)
<1>1. Sound(m) /\ Kept(list, m)
  BY TrimSound, TrimKept
<1>2. Sound(ClampSelected(m)) /\ Kept(m, ClampSelected(m))
  BY <1>1, ClampSound, ClampKept
<1>3. Kept(list, ClampSelected(m))
  BY <1>1, <1>2, KeptTrans
<1>4. Kept(list, list)
  BY SameIsKept
<1>5. Kept(list, Polled)
  BY <1>3, <1>4 DEF Polled
<1> QED BY <1>5, PolledSound, KeptUnique DEF Kept

\* One handler after another.
LEMMA KeptLine ==
    ASSUME Sound(list), Unique(list)
    PROVE  Kept(list, AppendSystemLine(Polled))
BY PolledKept, PolledSound, SystemLineKept, SystemLineSound, KeptTrans

\* Rows that are the same are kept as they were.
LEMMA SameIds ==
    ASSUME NEW l, NEW m, NEW k, IdsKept(l, m), k.rows = m.rows
    PROVE  IdsKept(l, k)
BY DEF IdsKept

\* A selection leaves the rows alone.
LEMMA SelectRows ==
    ASSUME NEW l, Sound(l), NEW sel
    PROVE  Select(l, sel).rows = l.rows
BY DEF Sound, Fields, Select

\* select_retained_full_text_result adds a line, or moves the selection.
LEMMA SelectRetainedIds ==
    ASSUME Sound(list), Unique(list), NEW found, NEW k, SelectRetained(found, k)
    PROVE  IdsKept(list, list')
<1>1. CASE list' = AppendSystemLine(Polled)
  BY <1>1, KeptLine DEF Kept
<1>2. ASSUME NEW sel, list' = [LeaveSearch(Polled) EXCEPT !.mainSel = sel]
      PROVE  IdsKept(list, list')
  <2>1. list'.rows = Polled.rows
    BY <1>2, PolledSound DEF LeaveSearch, Sound, Fields
  <2> QED BY <2>1, PolledKept, SameIds DEF Kept
<1> QED BY <1>1, <1>2 DEF SelectRetained

\* What a handler does to the rows, and to the packet selected unless the user moves it.
LEMMA HandleKept ==
    ASSUME Sound(list), Unique(list), Handle
    PROVE  /\ IdsKept(list, list')
           /\ \/ MoveKey \/ HandleClick \/ SelectFound \/ MoveRetained
              \/ Stays(list, list') \/ list'.mode = "search"
<1>1. Sound(Polled) /\ Kept(list, Polled) /\ Kept(list, AppendSystemLine(Polled))
  BY PolledSound, PolledKept, KeptLine
<1>2. CASE list' = Polled \/ list' = AppendSystemLine(Polled)
  BY <1>1, <1>2 DEF Kept
<1>3. CASE MoveKey
  <2>1. list' = Polled \/ \E sel : list' = Select(Polled, sel)
    BY <1>3 DEF MoveKey, MoveUp, MoveDown, PageUp, PageDown, JumpToBottom
  <2>2. list'.rows = Polled.rows
    BY <1>1, <2>1, SelectRows
  <2> QED BY <1>1, <1>3, <2>2, SameIds DEF Kept
<1>4. CASE HandleClick
  <2>1. list' = Polled \/ \E sel : list' = Select(Polled, sel)
    BY <1>4 DEF HandleClick
  <2>2. list'.rows = Polled.rows
    BY <1>1, <2>1, SelectRows
  <2> QED BY <1>1, <1>4, <2>2, SameIds DEF Kept
<1>5. CASE ClearSearch
  <2> DEFINE m == LeaveSearch(Polled)
  <2>1. Sound(m) /\ Sound(ClampSelected(m)) /\ list' = ClampSelected(m)
    BY <1>1, <1>5, LeaveSound, ClampSound DEF ClearSearch
  <2>2. m.rows = Polled.rows /\ m.mode = "main" /\ m.mainSel = Polled.mainSel
    BY <1>1 DEF LeaveSearch, Sound, Fields
  <2> HIDE DEF m
  <2>3. Kept(Polled, m)
    BY <1>1, <2>1, <2>2, SameIsKept
  <2>4. Kept(list, m)
    BY <1>1, <2>1, <2>3, KeptTrans
  <2>5. Kept(list, list')
    BY <2>1, <2>4, ClampKept, KeptTrans
  <2> QED BY <2>5 DEF Kept
<1>6. CASE SearchUrl
  <2>1. PICK q \in Queries :
          list' = [Polled EXCEPT !.mode = "search", !.query = q, !.searchSel = 1,
                                 !.searchRows = MatchingIds(Polled.rows, q)]
    BY <1>6 DEF SearchUrl
  <2>2. list'.rows = Polled.rows /\ list'.mode = "search"
    BY <1>1, <2>1 DEF Sound, Fields
  <2> QED BY <1>1, <2>2, SameIds DEF Kept
<1>7. CASE SelectFound
  BY <1>7, SelectRetainedIds DEF SelectFound
<1>8. CASE MoveRetained
  <2>1. list' = AppendSystemLine(Polled) \/ \E found, k : SelectRetained(found, k)
    BY <1>8 DEF MoveRetained
  <2> QED BY <1>1, <1>8, <2>1, SelectRetainedIds DEF Kept
<1>9. CASE HandleTick \/ EnterKey \/ InvalidQuery \/ MarkDiff("left", "right")
           \/ MarkDiff("right", "left") \/ ClearDiff \/ ExternalTool \/ OpenFilterStats \/ OpenEdit
  <2>1. list' = Polled \/ list' = AppendSystemLine(Polled)
    BY <1>9 DEF HandleTick, EnterKey, InvalidQuery, MarkDiff, ClearDiff, ExternalTool,
       OpenFilterStats, OpenEdit
  <2> QED BY <1>2, <2>1
<1> QED BY <1>3, <1>4, <1>5, <1>6, <1>7, <1>8, <1>9 DEF Handle

-----------------------------------------------------------------------------
(* The invariant. *)

\* The index is right, and only packets are announced.
ListInv == Sound(list) /\ rx \in Seq(AnyEvent)

\* What a stored packet is shown as.
LEMMA StoredRowFacts ==
    ASSUME NEW p, NEW answered
    PROVE  /\ StoredRow(p, answered).id = p /\ StoredRow(p, answered).kind = "packet"
           /\ p \in Packets => StoredRow(p, answered) \in Rows
<1> DEFINE status == IF p \in answered THEN "done" ELSE "none"
           marks == IF p \in Tunnels THEN {"TLS FAILED"} ELSE {}
<1>1. status \in Statuses /\ marks \in SUBSET (Labels \cup {"TLS FAILED"})
  BY DEF Statuses
<1>2. StoredRow(p, answered) = [kind |-> "packet", id |-> p, status |-> status, marks |-> marks]
  BY DEF StoredRow, PacketRow
<1> HIDE DEF status, marks
<1>3. StoredRow(p, answered).id = p /\ StoredRow(p, answered).kind = "packet"
  BY ONLY <1>2
<1>4. ASSUME p \in Packets PROVE StoredRow(p, answered) \in Rows
  <2> DEFINE all == SUBSET (Labels \cup {"TLS FAILED"})
  <2>1. status \in Statuses /\ marks \in all
    BY <1>1
  <2>2. Rows = [kind : {"packet"}, id : Packets, status : Statuses, marks : all]
               \cup {WaitingRow, SystemRow}
    BY DEF Rows
  <2> HIDE DEF all
  <2>3. StoredRow(p, answered) \in [kind : {"packet"}, id : Packets, status : Statuses, marks : all]
    BY ONLY <1>2, <1>4, <2>1
  <2> QED BY ONLY <2>2, <2>3
<1> QED BY <1>3, <1>4

\* The list after the capture was loaded is sound.
LEMMA InitList == Init => ListInv
<1> SUFFICES ASSUME Init PROVE ListInv
  OBVIOUS
<1>1. PICK session \in Sessions, viewer \in BOOLEAN :
        LET rows == IF session.stored = <<>> THEN <<WaitingRow>>
                    ELSE [i \in DOMAIN session.stored |-> StoredRow(session.stored[i], session.answered)]
        IN list = [rows |-> rows, index |-> IndexOf(rows), mode |-> "main",
                   mainSel |-> IF viewer THEN 1 ELSE Len(rows), searchSel |-> 1,
                   query |-> {}, searchRows |-> <<>>]
  BY DEF Init
<1> DEFINE stored == session.stored
           rows == list.rows
<1>2. /\ Fields(list) /\ list.index = IndexOf(rows)
      /\ rows = IF stored = <<>> THEN <<WaitingRow>>
                ELSE [i \in DOMAIN stored |-> StoredRow(stored[i], session.answered)]
  BY <1>1 DEF Fields
<1>3. /\ stored \in Seq(Packets)
      /\ \A i, j \in DOMAIN stored : stored[i] = stored[j] => i = j
  BY PacketListAssumption
<1> HIDE DEF rows, stored
<1> DEFINE Single ==
             /\ rows \in Seq(Rows)
             /\ \A i \in DOMAIN rows : rows[i].kind = "waiting" => rows[i].id = NoId
             /\ \A i, j \in DOMAIN rows : rows[i].id # NoId /\ rows[i].id = rows[j].id => i = j
<1>4. Single
  <2>1. CASE stored = <<>>
    <3>1. rows = <<WaitingRow>> /\ WaitingRow \in Rows /\ WaitingRow.id = NoId
      BY <1>2, <2>1 DEF WaitingRow, Rows
    <3>2. rows \in Seq(Rows) /\ DOMAIN rows = 1..1 /\ rows[1].id = NoId
      BY <3>1
    <3> QED BY <3>2
  <2>2. CASE stored # <<>>
    <3>1. rows = [i \in 1..Len(stored) |-> StoredRow(stored[i], session.answered)]
      BY <1>2, <1>3, <2>2
    <3>2. \A i \in 1..Len(stored) : StoredRow(stored[i], session.answered) \in Rows
      BY <1>3, StoredRowFacts
    <3>3. rows \in Seq(Rows) /\ DOMAIN rows = DOMAIN stored
      BY <1>3, <3>1, <3>2
    <3>4. \A i \in DOMAIN rows : rows[i].id = stored[i] /\ rows[i].kind = "packet"
      BY <1>3, <3>1, StoredRowFacts
    <3> QED BY <1>3, <3>3, <3>4
  <2> QED BY <2>1, <2>2
<1>5. /\ DOMAIN IndexOf(rows) = {rows[i].id : i \in DOMAIN rows} \ {NoId}
      /\ \A p \in DOMAIN IndexOf(rows) :
           /\ IndexOf(rows)[p] \in DOMAIN rows /\ rows[IndexOf(rows)[p]].id = p
           /\ \A j \in DOMAIN rows : rows[j].id = p => j <= IndexOf(rows)[p]
  <2>1. DOMAIN rows = 1..Len(rows) /\ Len(rows) \in Nat
    BY <1>4
  <2>2. ASSUME NEW i \in DOMAIN rows, rows[i].id # NoId
        PROVE  \E k \in DOMAIN rows :
                 rows[k].id = rows[i].id /\ \A j \in DOMAIN rows : rows[j].id = rows[i].id => j <= k
    BY <1>4, <2>1, <2>2
  <2> QED BY <1>4, <2>2, IndexOfRows
<1>6. IndexOK(list) /\ NoId \notin DOMAIN list.index
  BY <1>2, <1>5 DEF IndexOK, rows
<1>7. rx \in Seq(AnyEvent)
  BY DEF Init
<1> QED BY <1>2, <1>4, <1>6, <1>7 DEF ListInv, Sound, WaitingIsNone, rows

\* An event offered to the channel of events.
LEMMA OfferType ==
    ASSUME NEW q \in Seq(AnyEvent), NEW e \in AnyEvent
    PROVE  Offer(q, e) \in Seq(AnyEvent)
BY DEF Offer

\* What TuiSink publishes is an event.
LEMMA PublishType ==
    ASSUME rx \in Seq(AnyEvent), NEW kind \in {"Started", "Completed"}, NEW p \in Packets,
           kind = "Started" => p \notin Tunnels, Publish(kind, p)
    PROVE  rx' \in Seq(AnyEvent)
<1>1. Event(kind, p, NoMark) \in AnyEvent
  BY DEF Event, AnyEvent, EventKinds
<1>2. Offer(rx, Event(kind, p, NoMark)) \in Seq(AnyEvent)
  BY <1>1, OfferType
<1>3. PICK mark \in Labels \cup {NoMark} :
        rx' = IF mark = NoMark THEN Offer(rx, Event(kind, p, NoMark))
              ELSE Offer(Offer(rx, Event(kind, p, NoMark)), Event("Marked", p, mark))
  BY DEF Publish
<1>4. mark = NoMark \/ Event("Marked", p, mark) \in AnyEvent
  BY DEF Event, AnyEvent, EventKinds
<1> QED BY <1>2, <1>3, <1>4, OfferType

\* The publishers leave the list alone.
LEMMA PublishingSound ==
    ASSUME ListInv, Publishing
    PROVE  ListInv'
<1>1. PICK p \in Packets : PublishRequest(p) \/ PublishResponse(p) \/ PublishTunnelFailed(p)
  BY DEF Publishing
<1>2. list' = list
  BY <1>1 DEF PublishRequest, PublishResponse, PublishTunnelFailed, listVars
<1>3. rx' \in Seq(AnyEvent)
  <2>1. CASE PublishRequest(p)
    BY <2>1, PublishType DEF PublishRequest, ListInv
  <2>2. CASE PublishResponse(p)
    BY <2>2, PublishType DEF PublishResponse, ListInv
  <2>3. CASE PublishTunnelFailed(p)
    <3>1. \A mark \in Labels \cup {NoMark} : Event("TunnelFailed", p, mark) \in AnyEvent
      BY <2>3 DEF PublishTunnelFailed, Event, AnyEvent, EventKinds
    <3> QED BY <2>3, <3>1, OfferType DEF PublishTunnelFailed, ListInv
  <2> QED BY <1>1, <2>1, <2>2, <2>3
<1> QED BY <1>2, <1>3 DEF ListInv

\* poll_incoming: one step for each kind of event.
LEMMA ReceiveSound ==
    ASSUME ListInv, ReceiveEvent
    PROVE  ListInv'
<1> DEFINE e == Head(rx)
           l == WithoutWaitingRow(list)
<1>1. Sound(l)
  BY WithoutWaitingSound DEF ListInv
<1>2. e \in AnyEvent /\ rx' \in Seq(AnyEvent)
  BY DEF ListInv, ReceiveEvent
<1>3. /\ e.id \in Packets /\ e.mark \in Labels \cup {NoMark}
      /\ e.kind = "Marked" => e.mark \in Labels
  BY <1>2 DEF AnyEvent
<1>4. \A p \in Packets, mark \in Labels \cup {NoMark} :
        /\ Sound(OnPacketStarted(l, p)) /\ Sound(OnPacketCompleted(l, p))
        /\ mark \in Labels => Sound(OnPacketMarked(l, p, mark))
        /\ Sound(OnTunnelFailed(l, p, mark))
  BY <1>1, StartedSound, CompletedSound, MarkedSound, TunnelSound
<1>5. CASE e.kind = "Started"
  BY <1>2, <1>3, <1>4, <1>5 DEF ReceiveEvent, ListInv
<1>6. CASE e.kind = "Completed"
  BY <1>2, <1>3, <1>4, <1>6 DEF ReceiveEvent, ListInv
<1>7. CASE e.kind = "Marked"
  BY <1>2, <1>3, <1>4, <1>7 DEF ReceiveEvent, ListInv
<1>8. CASE e.kind = "TunnelFailed"
  BY <1>2, <1>3, <1>4, <1>8 DEF ReceiveEvent, ListInv
<1> QED BY <1>2, <1>5, <1>6, <1>7, <1>8 DEF AnyEvent, EventKinds

\* An event changes no id of a row, adds a row for the packet it announces, and moves no
\* selection.
LEMMA ReceivedRows ==
    ASSUME ListInv, ReceiveEvent
    PROVE  LET e == Head(rx)
               l == WithoutWaitingRow(list)
           IN /\ Stays(list, list')
              /\ \/ /\ e.kind \in Opening /\ Len(list'.rows) = Len(l.rows) + 1
                    /\ list'.rows[Len(l.rows) + 1].id = e.id
                    /\ \A i \in DOMAIN l.rows : list'.rows[i].id = l.rows[i].id
                 \/ /\ e.kind \notin Opening /\ DOMAIN list'.rows = DOMAIN l.rows
                    /\ \A i \in DOMAIN l.rows : list'.rows[i].id = l.rows[i].id
<1> DEFINE e == Head(rx)
           l == WithoutWaitingRow(list)
           Ids == \/ /\ e.kind \in Opening /\ Len(list'.rows) = Len(l.rows) + 1
                     /\ list'.rows[Len(l.rows) + 1].id = e.id
                     /\ \A i \in DOMAIN l.rows : list'.rows[i].id = l.rows[i].id
                  \/ /\ e.kind \notin Opening /\ DOMAIN list'.rows = DOMAIN l.rows
                     /\ \A i \in DOMAIN l.rows : list'.rows[i].id = l.rows[i].id
<1>1. Sound(l) /\ Sound(list) /\ Sound(list')
  BY WithoutWaitingSound, ReceiveSound DEF ListInv
<1>2. e \in AnyEvent
  BY DEF ListInv, ReceiveEvent
<1>3. e.kind \in EventKinds
  BY <1>2 DEF AnyEvent
<1>4. DOMAIN l.rows = 1..Len(l.rows) /\ Len(l.rows) \in Nat
  BY <1>1 DEF Sound
<1>5. ASSUME NEW row, list'.rows = Append(l.rows, row), row.id = e.id, e.kind \in Opening
      PROVE  Ids
  <2> HIDE DEF l, e
  <2> QED BY <1>1, <1>5 DEF Sound
<1>6. ASSUME list'.rows = l.rows, e.kind \notin Opening PROVE Ids
  BY <1>6
<1>7. ASSUME NEW i \in DOMAIN l.rows, NEW row, list'.rows = [l.rows EXCEPT ![i] = row],
             row.id = l.rows[i].id, e.kind \notin Opening
      PROVE  Ids
  <2> HIDE DEF l, e
  <2> QED BY <1>1, <1>7 DEF Sound
<1>8. ASSUME NEW m, Sound(m) PROVE RebuildSearch(m).rows = m.rows /\ RebuildSearch(m).mode = m.mode
                                   /\ RebuildSearch(m).mainSel = m.mainSel
  <2> DEFINE ids == MatchingIds(m.rows, m.query)
             r == [m EXCEPT !.searchRows = ids, !.searchSel = Within(@, Len(ids))]
  <2>1. r.rows = m.rows /\ r.mode = m.mode /\ r.mainSel = m.mainSel
    <3> HIDE DEF ids
    <3> QED BY <1>8 DEF Sound, Fields
  <2> QED BY <2>1 DEF RebuildSearch
<1> HIDE DEF Ids
<1>9. Ids /\ list'.mode = l.mode /\ list'.mainSel = l.mainSel
  <2>0. Fields(l)
    BY <1>1 DEF Sound
  <2>1. CASE e.kind = "Started"
    <3> DEFINE row == PacketRow(e.id, "none", {})
               m == WithRow(l, row)
    <3>1. list' = m \/ list' = [m EXCEPT !.searchRows = Append(@, e.id)]
      BY <2>1 DEF ReceiveEvent, OnPacketStarted
    <3>2. Fields(m) /\ m.rows = Append(l.rows, row) /\ m.mode = l.mode /\ m.mainSel = l.mainSel
      <4> HIDE DEF l
      <4> QED BY <2>0 DEF WithRow, Fields
    <3>3. list'.rows = m.rows /\ list'.mode = m.mode /\ list'.mainSel = m.mainSel
      <4> HIDE DEF m
      <4> QED BY <3>1, <3>2 DEF Fields
    <3>4. row.id = e.id
      BY DEF PacketRow
    <3> QED BY <1>5, <2>1, <3>2, <3>3, <3>4 DEF Opening
  <2>2. CASE e.kind = "TunnelFailed"
    <3> DEFINE row == PacketRow(e.id, "none", {IF e.mark = NoMark THEN "TLS FAILED" ELSE e.mark})
    <3>1. list' = WithRow(l, row)
      BY <2>2 DEF ReceiveEvent, OnTunnelFailed
    <3>2. list'.rows = Append(l.rows, row) /\ list'.mode = l.mode /\ list'.mainSel = l.mainSel
      <4> HIDE DEF l, row
      <4> QED BY <2>0, <3>1 DEF WithRow, Fields
    <3>3. row.id = e.id
      BY DEF PacketRow
    <3> QED BY <1>5, <2>2, <3>2, <3>3 DEF Opening
  <2>3. CASE e.kind = "Completed"
    <3>1. list' = OnPacketCompleted(l, e.id)
      BY <2>3 DEF ReceiveEvent
    <3>2. CASE list' = l
      BY <1>6, <2>3, <3>2 DEF Opening
    <3>3. CASE list' # l
      <4> DEFINE i == l.index[e.id]
                 row == [l.rows[i] EXCEPT !.status = "done"]
                 m == [l EXCEPT !.rows = [l.rows EXCEPT ![i] = row]]
      <4>0. e.id \in DOMAIN l.index
        BY <3>1, <3>3 DEF OnPacketCompleted
      <4>1. i \in DOMAIN l.rows /\ list' = RebuildSearch([l EXCEPT !.rows[i].status = "done"])
        BY <3>1, <3>3 DEF OnPacketCompleted
      <4>9. l.rows[i].id # NoId
        BY <1>1, <4>0 DEF Sound, IndexOK
      <4> HIDE DEF i, l
      <4>2. [l EXCEPT !.rows[i].status = "done"] = m
        OBVIOUS
      <4>3. l.rows[i] \in Rows /\ l.rows[i].id # NoId
        BY <1>1, <4>1, <4>9 DEF Sound
      <4>4. row \in Rows /\ row.id = l.rows[i].id /\ row.kind = l.rows[i].kind
        BY <4>3, ChangedRow
      <4> HIDE DEF row
      <4>5. Sound(m)
        BY <1>1, <4>1, <4>4, RowChangeSound
      <4>6. m.rows = [l.rows EXCEPT ![i] = row] /\ m.mode = l.mode /\ m.mainSel = l.mainSel
        BY <2>0 DEF Fields
      <4>7. list'.rows = m.rows /\ list'.mode = m.mode /\ list'.mainSel = m.mainSel
        BY <1>8, <4>1, <4>2, <4>5
      <4> HIDE DEF m
      <4> QED BY <1>7, <2>3, <4>1, <4>4, <4>6, <4>7 DEF Opening
    <3> QED BY <3>2, <3>3
  <2>4. CASE e.kind = "Marked"
    <3>1. list' = OnPacketMarked(l, e.id, e.mark)
      BY <2>4 DEF ReceiveEvent
    <3>2. CASE list' = l
      BY <1>6, <2>4, <3>2 DEF Opening
    <3>3. CASE list' # l
      <4>1. PICK i \in DOMAIN l.rows : list' = [l EXCEPT !.rows[i].marks = @ \cup {e.mark}]
        BY <3>1, <3>3 DEF OnPacketMarked
      <4> DEFINE row == [l.rows[i] EXCEPT !.marks = @ \cup {e.mark}]
      <4> HIDE DEF l
      <4>2. list' = [l EXCEPT !.rows = [l.rows EXCEPT ![i] = row]]
        BY <4>1
      <4>3. l.rows[i] \in Rows
        BY <1>1 DEF Sound
      <4>4. row.id = l.rows[i].id
        BY <4>3 DEF Rows, WaitingRow, SystemRow
      <4> HIDE DEF row
      <4>5. list'.rows = [l.rows EXCEPT ![i] = row] /\ list'.mode = l.mode /\ list'.mainSel = l.mainSel
        BY <2>0, <4>2 DEF Fields
      <4> QED BY <1>7, <2>4, <4>4, <4>5 DEF Opening
    <3> QED BY <3>2, <3>3
  <2> QED BY <1>3, <2>1, <2>2, <2>3, <2>4 DEF EventKinds
<1>10. /\ DOMAIN l.rows \subseteq DOMAIN list'.rows
       /\ \A i \in DOMAIN l.rows : list'.rows[i].id = l.rows[i].id
  <2>1. DOMAIN list'.rows = 1..Len(list'.rows)
    BY <1>1 DEF Sound
  <2> HIDE DEF l, e
  <2> QED BY <1>4, <1>9, <2>1 DEF Ids
<1>11. Stays(list, list')
  <2> SUFFICES ASSUME list.mode = "main"
               PROVE  /\ list'.mode = "main"
                      /\ CurrentId(list) # NoId => CurrentId(list') = CurrentId(list)
    BY DEF Stays
  <2>1. l.mode = list.mode
    BY <1>1 DEF WithoutWaitingRow, Sound, Fields
  <2>2. CASE l = list
    <3>1. CurrentId(list) # NoId =>
            list.mainSel \in DOMAIN list.rows /\ CurrentId(list) = list.rows[list.mainSel].id
      BY <1>1, MainId
    <3>2. CurrentId(list) # NoId =>
            list'.mainSel \in DOMAIN list'.rows /\ list'.rows[list'.mainSel].id = CurrentId(list)
      BY <1>9, <1>10, <2>2, <3>1
    <3>3. list'.mode = "main"
      BY <1>9, <2>1
    <3> QED BY <1>1, <3>2, <3>3, MainId
  <2>3. CASE l # list
    <3>1. Len(list.rows) = 1 /\ list.rows[1].kind = "waiting"
      BY <2>3 DEF WithoutWaitingRow
    <3>2. \A i \in DOMAIN list.rows : i = 1
      BY <1>1, <3>1 DEF Sound
    <3>3. CurrentId(list) = NoId
      BY <1>1, <3>1, <3>2, MainId DEF Sound, WaitingIsNone
    <3> QED BY <1>9, <2>1, <3>3
  <2> QED BY <2>2, <2>3
<1> QED BY <1>9, <1>11 DEF Ids

\* ListInv is inductive.
LEMMA ListStep == ListInv /\ [Next]_vars => ListInv'
<1> SUFFICES ASSUME ListInv, [Next]_vars PROVE ListInv'
  OBVIOUS
<1>1. CASE Publishing
  BY <1>1, PublishingSound
<1>2. CASE ReceiveEvent
  BY <1>2, ReceiveSound
<1>3. CASE Handle
  BY <1>3, HandleSound DEF ListInv
<1>4. CASE Tick \/ UserInput \/ (\E t \in {"message", "SslTls", "Info"} : SwitchTab(t))
  BY <1>4 DEF Tick, UserInput, SwitchTab, listVars, feedVars, ListInv
<1>5. CASE \E i \in DOMAIN pending : ReceiveUi(i)
  BY <1>5 DEF ReceiveUi, listVars, feedVars, ListInv
<1>6. CASE UNCHANGED vars
  BY <1>6 DEF vars, listVars, feedVars, ListInv
<1> QED BY <1>1, <1>2, <1>3, <1>4, <1>5, <1>6 DEF Next

\* For every number of packets, every limit on rows and every channel: whatever is
\* received, trimmed, searched or marked, id_to_row_index leads from each packet to its
\* last row and from no packet to a row of another (PacketListDelegate).
THEOREM IndexStaysSound == Spec => []IndexSound
<1>1. ListInv => IndexSound
  BY DEF ListInv, Sound, IndexSound
<1> QED BY <1>1, InitList, ListStep, PTL DEF Spec

-----------------------------------------------------------------------------
(* A packet is announced once, and the selection stays on its packet. *)

\* OpenedOnce of the rows, the channel and what has been published.
Opened(l, q, s) ==
    /\ Unique(l)
    /\ \A i, j \in DOMAIN q :
        q[i].kind \in Opening /\ q[j].kind \in Opening /\ q[i].id = q[j].id => i = j
    /\ \A i \in DOMAIN q : q[i].kind \in Opening =>
        /\ s[q[i].id] # "nothing"
        /\ \A k \in DOMAIN l.rows : l.rows[k].id # q[i].id
    /\ \A k \in DOMAIN l.rows : l.rows[k].id # NoId => s[l.rows[k].id] # "nothing"
    /\ DOMAIN s = Packets

\* An event that is offered announces a packet that has no row and was not announced, or
\* announces nothing.
LEMMA OfferOpened ==
    ASSUME NEW l, NEW s, NEW q \in Seq(AnyEvent), NEW e \in AnyEvent, Opened(l, q, s),
           e.kind \in Opening =>
              /\ s[e.id] # "nothing"
              /\ \A k \in DOMAIN l.rows : l.rows[k].id # e.id
              /\ \A i \in DOMAIN q : q[i].kind \in Opening => q[i].id # e.id
    PROVE  Opened(l, Offer(q, e), s)
<1> DEFINE r == Append(q, e)
<1>1. /\ Len(q) \in Nat /\ DOMAIN q = 1..Len(q) /\ DOMAIN r = 1..(Len(q) + 1)
      /\ \A i \in DOMAIN q : r[i] = q[i]
      /\ r[Len(q) + 1] = e
  OBVIOUS
<1>2. \A i \in DOMAIN r : (i \in DOMAIN q /\ r[i] = q[i]) \/ (i = Len(q) + 1 /\ r[i] = e)
  BY <1>1
<1> HIDE DEF r
<1>3. Opened(l, r, s)
  BY <1>2 DEF Opened
<1> QED BY <1>3 DEF Offer, r

\* Events are of packets.
LEMMA EventIds ==
    ASSUME NEW q \in Seq(AnyEvent)
    PROVE  \A i \in DOMAIN q : q[i].id \in Packets
<1>1. \A i \in DOMAIN q : q[i] \in AnyEvent
  OBVIOUS
<1>2. \A e \in AnyEvent : e.id \in Packets
  BY DEF AnyEvent
<1> QED BY <1>1, <1>2

\* More has been published of one packet.
LEMMA PublishedOpened ==
    ASSUME NEW l, NEW s, NEW q \in Seq(AnyEvent), Sound(l), Opened(l, q, s),
           NEW p, NEW much, much # "nothing"
    PROVE  Opened(l, q, [s EXCEPT ![p] = much])
<1> DEFINE t == [s EXCEPT ![p] = much]
<1>1. DOMAIN t = DOMAIN s /\ \A r \in DOMAIN s : t[r] = IF r = p THEN much ELSE s[r]
  OBVIOUS
<1>2. \A i \in DOMAIN q : q[i].id \in Packets
  BY EventIds
<1>3. \A k \in DOMAIN l.rows : l.rows[k].id # NoId => l.rows[k].id \in Packets
  <2>1. \A k \in DOMAIN l.rows : l.rows[k] \in Rows
    BY DEF Sound
  <2>2. \A row \in Rows : row.id # NoId => row.id \in Packets
    BY RowFacts
  <2> QED BY <2>1, <2>2
<1> HIDE DEF t
<1>4. Opened(l, q, t)
  BY <1>1, <1>2, <1>3 DEF Opened
<1> QED BY <1>4 DEF t

\* A packet of which nothing has been published is opened by the first event of it.
LEMMA PublishingOpened ==
    ASSUME ListInv, Opened(list, rx, sent), Publishing
    PROVE  Opened(list, rx', sent')
<1>1. PICK p \in Packets : PublishRequest(p) \/ PublishResponse(p) \/ PublishTunnelFailed(p)
  BY DEF Publishing
<1>2. rx \in Seq(AnyEvent) /\ Sound(list)
  BY DEF ListInv
<1>3. sent' = [sent EXCEPT ![p] = "request"] \/ sent' = [sent EXCEPT ![p] = "all"]
  BY <1>1 DEF PublishRequest, PublishResponse, PublishTunnelFailed
<1>4. Opened(list, rx, sent')
  <2>1. \A much : much # "nothing" => Opened(list, rx, [sent EXCEPT ![p] = much])
    BY <1>2, PublishedOpened
  <2>2. Opened(list, rx, [sent EXCEPT ![p] = "request"])
    BY <2>1
  <2>3. Opened(list, rx, [sent EXCEPT ![p] = "all"])
    BY <2>1
  <2> QED BY <1>3, <2>2, <2>3
<1>5. sent'[p] # "nothing"
  BY <1>3 DEF Opened
<1>6. ASSUME sent[p] = "nothing"
      PROVE  /\ \A k \in DOMAIN list.rows : list.rows[k].id # p
             /\ \A i \in DOMAIN rx : rx[i].kind \in Opening => rx[i].id # p
  BY <1>6, PacketListAssumption DEF Opened
<1>7. \A kind, mark : Event(kind, p, mark).kind = kind /\ Event(kind, p, mark).id = p
  BY DEF Event
<1>8. ASSUME NEW kind, NEW mark, Event(kind, p, mark) \in AnyEvent,
             kind \in Opening => sent[p] = "nothing"
      PROVE  /\ Opened(list, Offer(rx, Event(kind, p, mark)), sent')
             /\ Offer(rx, Event(kind, p, mark)) \in Seq(AnyEvent)
  <2>1. Opened(list, Offer(rx, Event(kind, p, mark)), sent')
    BY <1>2, <1>4, <1>5, <1>6, <1>7, <1>8, OfferOpened
  <2> QED BY <1>2, <1>8, <2>1, OfferType
<1>9. ASSUME NEW kind \in {"Started", "Completed"}, kind = "Started" => p \notin Tunnels,
             kind \in Opening => sent[p] = "nothing", Publish(kind, p)
      PROVE  Opened(list, rx', sent')
  <2> DEFINE q == Offer(rx, Event(kind, p, NoMark))
  <2>0. Event(kind, p, NoMark) \in AnyEvent
    BY <1>9 DEF Event, AnyEvent, EventKinds
  <2>1. Opened(list, q, sent') /\ q \in Seq(AnyEvent)
    BY <1>8, <1>9, <2>0
  <2>2. PICK mark \in Labels \cup {NoMark} :
          rx' = IF mark = NoMark THEN q ELSE Offer(q, Event("Marked", p, mark))
    BY <1>9 DEF Publish
  <2> HIDE DEF q
  <2>3. mark = NoMark \/ Event("Marked", p, mark) \in AnyEvent
    BY DEF Event, AnyEvent, EventKinds
  <2>4. Event("Marked", p, mark).kind \notin Opening
    BY <1>7 DEF Opening
  <2>5. mark = NoMark \/ Opened(list, Offer(q, Event("Marked", p, mark)), sent')
    BY <2>1, <2>3, <2>4, OfferOpened
  <2> QED BY <2>1, <2>2, <2>5
<1>10. CASE PublishRequest(p)
  BY <1>9, <1>10 DEF PublishRequest
<1>11. CASE PublishResponse(p)
  BY <1>9, <1>11 DEF PublishResponse, Opening
<1>12. CASE PublishTunnelFailed(p)
  <2>1. \A mark \in Labels \cup {NoMark} : Event("TunnelFailed", p, mark) \in AnyEvent
    BY <1>12 DEF PublishTunnelFailed, Event, AnyEvent, EventKinds
  <2> QED BY <1>8, <1>12, <2>1 DEF PublishTunnelFailed
<1> QED BY <1>1, <1>10, <1>11, <1>12

\* Without the row that waits for traffic there are no rows, or the rows there were.
LEMMA WithoutWaitingOpened ==
    ASSUME NEW q, NEW s, Sound(list), Opened(list, q, s)
    PROVE  Opened(WithoutWaitingRow(list), q, s)
<1>1. \/ WithoutWaitingRow(list) = list
      \/ WithoutWaitingRow(list).rows = <<>>
  BY DEF WithoutWaitingRow, Sound, Fields
<1> QED BY <1>1 DEF Opened, Unique

\* The event received leaves the channel as the row it opens comes.
LEMMA ReceiveOpened ==
    ASSUME ListInv, Opened(list, rx, sent), ReceiveEvent
    PROVE  Opened(list', rx', sent)
<1> DEFINE e == Head(rx)
           l == WithoutWaitingRow(list)
           q == rx'
           m == list'
           n == Len(l.rows)
<1>1. Sound(l) /\ Sound(m) /\ Opened(l, rx, sent)
  BY WithoutWaitingSound, ReceiveSound, WithoutWaitingOpened DEF ListInv
<1>2. /\ 1 \in DOMAIN rx /\ rx[1] = e
      /\ \A i \in DOMAIN q : i \in Nat \ {0} /\ i + 1 \in DOMAIN rx /\ q[i] = rx[i + 1]
  BY DEF ListInv, ReceiveEvent
<1>3. rx \in Seq(AnyEvent)
  BY DEF ListInv
<1>4. e.id \in Packets
  BY <1>2, <1>3, EventIds
<1>5. n \in Nat /\ DOMAIN l.rows = 1..n /\ DOMAIN m.rows = 1..Len(m.rows) /\ Len(m.rows) \in Nat
  BY <1>1 DEF Sound
<1>6. \/ /\ e.kind \in Opening /\ Len(m.rows) = n + 1 /\ m.rows[n + 1].id = e.id
         /\ \A i \in DOMAIN l.rows : m.rows[i].id = l.rows[i].id
      \/ /\ e.kind \notin Opening /\ DOMAIN m.rows = DOMAIN l.rows
         /\ \A i \in DOMAIN l.rows : m.rows[i].id = l.rows[i].id
  BY ReceivedRows
<1> HIDE DEF e, l, q, m, n
<1>7. /\ \A i, j \in DOMAIN q :
          q[i].kind \in Opening /\ q[j].kind \in Opening /\ q[i].id = q[j].id => i = j
      /\ \A i \in DOMAIN q : q[i].kind \in Opening =>
          /\ sent[q[i].id] # "nothing"
          /\ \A k \in DOMAIN l.rows : l.rows[k].id # q[i].id
          /\ e.kind \in Opening => e.id # q[i].id
  <2>1. \A i, j \in DOMAIN q : i + 1 = j + 1 => i = j
    BY <1>2
  <2>2. \A i \in DOMAIN q : i + 1 # 1
    BY <1>2
  <2> QED BY <1>1, <1>2, <2>1, <2>2 DEF Opened
<1>8. CASE e.kind \in Opening
  <2>1. /\ DOMAIN m.rows = 1..(n + 1) /\ m.rows[n + 1].id = e.id
        /\ \A i \in DOMAIN l.rows : m.rows[i].id = l.rows[i].id
    BY <1>5, <1>6, <1>8
  <2>2. \A i \in DOMAIN m.rows : i \in DOMAIN l.rows \/ i = n + 1
    BY <1>5, <2>1
  <2>3. sent[e.id] # "nothing" /\ \A k \in DOMAIN l.rows : l.rows[k].id # e.id
    BY <1>1, <1>2, <1>8 DEF Opened
  <2>4. Unique(m)
    BY <1>1, <2>1, <2>2, <2>3 DEF Opened, Unique
  <2>5. \A k \in DOMAIN m.rows : m.rows[k].id # NoId => sent[m.rows[k].id] # "nothing"
    BY <1>1, <2>1, <2>2, <2>3 DEF Opened
  <2>6. \A i \in DOMAIN q : q[i].kind \in Opening => \A k \in DOMAIN m.rows : m.rows[k].id # q[i].id
    BY <1>7, <1>8, <2>1, <2>2
  <2>7. DOMAIN sent = Packets
    BY <1>1 DEF Opened
  <2> QED BY <1>7, <2>4, <2>5, <2>6, <2>7 DEF Opened, m, q
<1>9. CASE e.kind \notin Opening
  <2>1. DOMAIN m.rows = DOMAIN l.rows /\ \A i \in DOMAIN l.rows : m.rows[i].id = l.rows[i].id
    BY <1>6, <1>9
  <2>2. Opened(m, q, sent)
    BY <1>1, <1>7, <2>1 DEF Opened, Unique
  <2> QED BY <2>2 DEF m, q
<1> QED BY <1>8, <1>9

\* A handler only moves rows up, removes some and adds rows of no packet.
LEMMA KeptOpened ==
    ASSUME NEW l, NEW m, NEW q, NEW s, Sound(m), Opened(l, q, s), IdsKept(l, m),
           \A i \in DOMAIN q : q[i].id # NoId
    PROVE  Opened(m, q, s)
<1>1. Unique(m)
  BY KeptUnique DEF Opened
<1>2. \A i \in DOMAIN m.rows : m.rows[i].id # NoId =>
        \E k \in DOMAIN l.rows : l.rows[k].id = m.rows[i].id
  BY DEF IdsKept
<1> QED BY <1>1, <1>2 DEF Opened

\* What is stored has been published, and has one row each.
LEMMA InitOpened == Init => OpenedOnce
<1> SUFFICES ASSUME Init PROVE OpenedOnce
  OBVIOUS
<1>0. PICK session \in Sessions, viewer \in BOOLEAN :
        LET rows == IF session.stored = <<>> THEN <<WaitingRow>>
                    ELSE [i \in DOMAIN session.stored |-> StoredRow(session.stored[i], session.answered)]
        IN /\ list = [rows |-> rows, index |-> IndexOf(rows), mode |-> "main",
                      mainSel |-> IF viewer THEN 1 ELSE Len(rows), searchSel |-> 1,
                      query |-> {}, searchRows |-> <<>>]
           /\ sent = [p \in Packets |-> IF p \in session.flows THEN "nothing" ELSE "all"]
  BY DEF Init
<1>1. /\ list.rows = IF session.stored = <<>> THEN <<WaitingRow>>
                     ELSE [i \in DOMAIN session.stored |-> StoredRow(session.stored[i], session.answered)]
      /\ sent = [p \in Packets |-> IF p \in session.flows THEN "nothing" ELSE "all"]
  BY <1>0
<1>2. /\ session.stored \in Seq(Packets)
      /\ \A i, j \in DOMAIN session.stored :
            session.stored[i] \notin session.flows /\ (session.stored[i] = session.stored[j] => i = j)
  BY PacketListAssumption
<1>3. rx = <<>> /\ DOMAIN sent = Packets
  BY <1>1 DEF Init
<1>4. CASE session.stored = <<>>
  <2>1. \A i \in DOMAIN list.rows : i = 1 /\ list.rows[i].id = NoId
    BY <1>1, <1>4 DEF WaitingRow
  <2> QED BY <1>3, <2>1 DEF OpenedOnce
<1>5. CASE session.stored # <<>>
  <2>1. /\ DOMAIN list.rows = DOMAIN session.stored
        /\ \A i \in DOMAIN list.rows : list.rows[i].id = session.stored[i]
    BY <1>1, <1>5, StoredRowFacts
  <2>2. \A i \in DOMAIN session.stored :
          sent[session.stored[i]] = "all"
    BY <1>1, <1>2
  <2> QED BY <1>2, <1>3, <2>1, <2>2 DEF OpenedOnce
<1> QED BY <1>4, <1>5

\* OpenedOnce is Opened of the list, the channel and what was sent.
LEMMA OpenedMeans == OpenedOnce <=> Opened(list, rx, sent)
BY DEF OpenedOnce, Opened, Unique

\* The index is right and each packet is announced once: every step keeps both.
LEMMA OpenedStep == ListInv /\ OpenedOnce /\ [Next]_vars => OpenedOnce'
<1> SUFFICES ASSUME ListInv, OpenedOnce, [Next]_vars PROVE OpenedOnce'
  OBVIOUS
<1>0. OpenedOnce' <=> Opened(list', rx', sent')
  BY DEF OpenedOnce, Opened, Unique
<1>00. Opened(list, rx, sent)
  BY OpenedMeans
<1>1. CASE Publishing
  <2>1. list' = list
    BY <1>1 DEF Publishing, PublishRequest, PublishResponse, PublishTunnelFailed, listVars
  <2> QED BY <1>0, <1>00, <1>1, <2>1, PublishingOpened
<1>2. CASE ReceiveEvent
  <2>1. sent' = sent
    BY <1>2 DEF ReceiveEvent
  <2> QED BY <1>0, <1>00, <1>2, <2>1, ReceiveOpened
<1>3. CASE Handle
  <2>1. rx' = rx /\ sent' = sent
    BY <1>3 DEF Handle, HandleTick, MoveKey, EnterKey, HandleClick, ClearSearch, SearchUrl,
       InvalidQuery, SelectFound, MoveRetained, MarkDiff, ClearDiff, ExternalTool,
       OpenFilterStats, OpenEdit, Handling, feedVars
  <2>2. IdsKept(list, list') /\ Sound(list')
    BY <1>3, <1>00, HandleKept, HandleSound DEF ListInv, Opened
  <2>3. \A i \in DOMAIN rx : rx[i].id # NoId
    BY PacketListAssumption, EventIds DEF ListInv
  <2>4. Opened(list', rx, sent)
    BY <1>00, <2>2, <2>3, KeptOpened
  <2> QED BY <1>0, <2>1, <2>4
<1>4. CASE Tick \/ UserInput \/ (\E t \in {"message", "SslTls", "Info"} : SwitchTab(t))
  BY <1>4 DEF Tick, UserInput, SwitchTab, listVars, feedVars, OpenedOnce
<1>5. CASE \E i \in DOMAIN pending : ReceiveUi(i)
  BY <1>5 DEF ReceiveUi, listVars, feedVars, OpenedOnce
<1>6. CASE UNCHANGED vars
  BY <1>6 DEF vars, listVars, feedVars, OpenedOnce
<1> QED BY <1>1, <1>2, <1>3, <1>4, <1>5, <1>6 DEF Next

\* Whatever order events come in and however many rows are trimmed, each packet has at
\* most one row, of which the channel holds no second announcement: what id_to_row_index
\* and the selection rely on without saying so.
THEOREM PacketsOpenedOnce == Spec => []OpenedOnce
BY InitList, InitOpened, ListStep, OpenedStep, PTL DEF Spec

\* Receiving, trimming and system lines never move the selection of the whole list from
\* a packet that has a row to another: only a key, a click or a search result does
\* (poll_incoming, trim_rows_if_needed and append_system_line).
THEOREM SelectionStays == Spec => SelectionKeepsPacket
<1> DEFINE Kept1 ==
             LET p == CurrentId(list)
             IN (/\ list.mode = "main" /\ list'.mode = "main"
                 /\ p # NoId /\ p \in DOMAIN list'.index /\ CurrentId(list') # p)
                => (MoveKey \/ HandleClick \/ SelectFound \/ MoveRetained)
<1>1. ListInv /\ OpenedOnce /\ [Next]_vars => [Kept1]_vars
  <2> SUFFICES ASSUME ListInv, OpenedOnce, Next PROVE Kept1
    OBVIOUS
  <2>1. CASE list' = list
    <3>1. CurrentId(list') = CurrentId(list)
      BY <2>1
    <3> QED BY <3>1
  <2>2. CASE ReceiveEvent
    <3>1. Stays(list, list')
      BY <2>2, ReceivedRows
    <3> QED BY <3>1 DEF Stays
  <2>3. CASE Handle
    <3>1. Sound(list) /\ Unique(list)
      BY OpenedMeans DEF ListInv, Opened
    <3>2. \/ MoveKey \/ HandleClick \/ SelectFound \/ MoveRetained
          \/ Stays(list, list') \/ list'.mode = "search"
      BY <2>3, <3>1, HandleKept
    <3> QED BY <3>2 DEF Stays
  <2>4. CASE Publishing \/ Tick \/ UserInput \/ (\E t \in {"message", "SslTls", "Info"} : SwitchTab(t))
             \/ (\E i \in DOMAIN pending : ReceiveUi(i))
    <3>1. list' = list
      BY <2>4 DEF Publishing, PublishRequest, PublishResponse, PublishTunnelFailed, Tick, UserInput,
         SwitchTab, ReceiveUi, listVars
    <3> QED BY <2>1, <3>1
  <2> QED BY <2>2, <2>3, <2>4 DEF Next
<1>2. Spec => [][Kept1]_vars
  BY <1>1, InitList, InitOpened, ListStep, OpenedStep, PTL DEF Spec
<1> QED BY <1>2 DEF SelectionKeepsPacket

-----------------------------------------------------------------------------
(* What a search lists. *)

IdSeq(ids) == ids \in Seq(Packets)

Search == INSTANCE FoldTheorems WITH FoldOp <- Listed, FoldKept <- IdSeq

SearchOf(q, without) == [query |-> q, without |-> without]

\* A listing is a fold of the rows.
LEMMA ListingIsFold ==
    ASSUME NEW rows, NEW q, NEW without
    PROVE  Listing(rows, q, without) = Search!FoldOf(SearchOf(q, without), <<>>, rows)[DOMAIN rows]
BY DEF Listing, SearchOf, FoldLeft, MapThenFoldSet, Max, Search!FoldOf, Search!IsFold,
       Search!FoldTurn, Search!Max

\* No rows, no listing.
LEMMA ListingNothing ==
    ASSUME NEW q, NEW without
    PROVE  Listing(<<>>, q, without) = <<>>
<1>1. DOMAIN <<>> = {}
  OBVIOUS
<1> QED BY <1>1, ListingIsFold, Search!FoldNothing

\* A row more at the end.
LEMMA ListingMore ==
    ASSUME NEW S, NEW rows \in Seq(S), NEW row \in S, NEW q, NEW without
    PROVE  Listing(Append(rows, row), q, without)
             = Listed(SearchOf(q, without), Listing(rows, q, without), row)
<1> DEFINE n == Len(rows)
           more == Append(rows, row)
           of == SearchOf(q, without)
<1>1. /\ n \in Nat /\ DOMAIN rows = 1..n /\ DOMAIN more = 1..(n + 1) /\ more[n + 1] = row
      /\ \A i \in 1..n : more[i] = rows[i]
  OBVIOUS
<1> HIDE DEF n, more, of
<1>2. Search!FoldOf(of, <<>>, more)[DOMAIN more]
        = Listed(of, Search!FoldOf(of, <<>>, rows)[DOMAIN rows], more[n + 1])
  BY <1>1, Search!FoldMore
<1> QED BY <1>1, <1>2, ListingIsFold DEF of, more

\* Rows of the same packets and statuses.
LEMMA ListingSame ==
    ASSUME NEW n \in Nat, NEW rows, NEW others, NEW q, NEW without, DOMAIN rows = 1..n,
           DOMAIN others = 1..n,
           \A i \in 1..n : others[i].id = rows[i].id /\ others[i].status = rows[i].status
    PROVE  Listing(others, q, without) = Listing(rows, q, without)
<1> DEFINE of == SearchOf(q, without)
<1>1. \A x : \A i \in 1..n : Listed(of, x, others[i]) = Listed(of, x, rows[i])
  <2> SUFFICES ASSUME NEW x, NEW i \in 1..n PROVE Listed(of, x, others[i]) = Listed(of, x, rows[i])
    OBVIOUS
  <2>1. others[i].id = rows[i].id /\ others[i].status = rows[i].status
    OBVIOUS
  <2>2. \A c : Satisfies(others[i], c) <=> Satisfies(rows[i], c)
    BY <2>1 DEF Satisfies
  <2>3. \A k : Matches(k, others[i]) <=> Matches(k, rows[i])
    BY <2>2 DEF Matches
  <2> QED BY <2>1, <2>3 DEF Listed
<1> HIDE DEF of
<1>2. Search!FoldOf(of, <<>>, others)[DOMAIN others] = Search!FoldOf(of, <<>>, rows)[DOMAIN rows]
  BY <1>1, Search!FoldSame
<1> QED BY <1>2, ListingIsFold DEF of

\* Leaving out more, of which no row is.
LEMMA ListingWithout ==
    ASSUME NEW n \in Nat, NEW rows, NEW q, NEW without, NEW more, DOMAIN rows = 1..n,
           \A x : \A i \in 1..n : Listed(SearchOf(q, more), x, rows[i])
                                   = Listed(SearchOf(q, without), x, rows[i])
    PROVE  Listing(rows, q, more) = Listing(rows, q, without)
<1>1. Search!FoldOf(SearchOf(q, more), <<>>, rows)[DOMAIN rows]
        = Search!FoldOf(SearchOf(q, without), <<>>, rows)[DOMAIN rows]
  BY Search!FoldSame
<1> QED BY <1>1, ListingIsFold

\* What is listed is packets.
LEMMA ListingType ==
    ASSUME NEW rows \in Seq(Rows), NEW q, NEW without
    PROVE  Listing(rows, q, without) \in Seq(Packets)
<1> DEFINE of == SearchOf(q, without)
           n == Len(rows)
<1>1. n \in Nat /\ DOMAIN rows = 1..n
  OBVIOUS
<1>2. \A i \in 1..n : rows[i].id # NoId => rows[i].id \in Packets
  <2>1. \A i \in 1..n : rows[i] \in Rows
    OBVIOUS
  <2> QED BY <2>1, RowFacts
<1> HIDE DEF n
<1>3. \A x : \A i \in 1..n : IdSeq(x) => IdSeq(Listed(of, x, rows[i]))
  BY <1>2 DEF IdSeq, Listed
<1>4. IdSeq(<<>>)
  BY DEF IdSeq
<1> HIDE DEF of
<1>5. IdSeq(Search!FoldOf(of, <<>>, rows)[DOMAIN rows])
  BY <1>1, <1>3, <1>4, Search!FoldKeeps
<1> QED BY <1>5, ListingIsFold DEF of, IdSeq

-----------------------------------------------------------------------------
(* The search list and the selections through every operation. *)

Positions == Nat \ {0}

\* The mode, the selections and the search list are of their types.
Shaped(l) ==
    /\ l.mode \in {"main", "search"} /\ l.mainSel \in Positions /\ l.searchSel \in Positions
    /\ l.searchRows \in Seq(Packets)

\* The search list is what the query matches, but for tunnels.
Searched(l) ==
    l.mode = "search" =>
        \E hidden \in SUBSET Tunnels : l.searchRows = Listing(l.rows, l.query, hidden)

Shown(l) == Sound(l) /\ Shaped(l) /\ Searched(l)

\* A selection stays a position.
LEMMA Positive ==
    /\ \A sel \in Positions, n \in Nat : Within(sel, n) \in Positions /\ Back(sel, n) \in Positions
    /\ \A sel \in Positions, n \in Nat : sel + n \in Positions
BY DEF Positions, Within, Least, Back

\* The lengths of the list that is drawn.
LEMMA VisibleNat ==
    ASSUME NEW l, Sound(l), Shaped(l)
    PROVE  VisibleLen(l) \in Nat /\ Selected(l) \in Positions
BY DEF Sound, Shaped, VisibleLen, Selected

\* Moving the selection changes nothing else.
LEMMA SelectShown ==
    ASSUME NEW l, Shown(l), NEW sel \in Positions
    PROVE  Shown(Select(l, sel))
<1>1. Sound(Select(l, sel))
  BY SelectSound DEF Shown
<1>2. CASE l.mode = "main"
  <2>1. Select(l, sel).mode = "main" /\ Select(l, sel).mainSel = sel
        /\ Select(l, sel).searchSel = l.searchSel /\ Select(l, sel).searchRows = l.searchRows
    BY <1>2 DEF Shown, Sound, Fields, Select
  <2> QED BY <1>1, <2>1 DEF Shown, Shaped, Searched
<1>3. CASE l.mode # "main"
  <2>1. Select(l, sel).mode = l.mode /\ Select(l, sel).mainSel = l.mainSel
        /\ Select(l, sel).searchSel = sel /\ Select(l, sel).searchRows = l.searchRows
        /\ Select(l, sel).rows = l.rows /\ Select(l, sel).query = l.query
    BY <1>3 DEF Shown, Sound, Fields, Select
  <2> QED BY <1>1, <2>1 DEF Shown, Shaped, Searched
<1> QED BY <1>2, <1>3

\* The selection is cut down to the rows.
LEMMA ClampShown ==
    ASSUME NEW l, Shown(l)
    PROVE  Shown(ClampSelected(l))
<1>1. Within(Selected(l), VisibleLen(l)) \in Positions
  BY Positive, VisibleNat DEF Shown
<1> QED BY <1>1, SelectShown DEF ClampSelected

\* A search that is made anew hides nothing.
LEMMA RebuildShown ==
    ASSUME NEW l, Sound(l), Shaped(l)
    PROVE  Shown(RebuildSearch(l))
<1>1. CASE l.mode # "search"
  BY <1>1 DEF RebuildSearch, Shown, Searched
<1>2. CASE l.mode = "search"
  <2> DEFINE ids == MatchingIds(l.rows, l.query)
             m == [l EXCEPT !.searchRows = ids, !.searchSel = Within(@, Len(ids))]
  <2>1. RebuildSearch(l) = m
    BY <1>2 DEF RebuildSearch
  <2>2. ids \in Seq(Packets) /\ ids = Listing(l.rows, l.query, {})
    BY ListingType DEF MatchingIds, Sound
  <2>3. Within(l.searchSel, Len(ids)) \in Positions
    BY <2>2, Positive DEF Shaped
  <2> HIDE DEF ids
  <2>4. /\ m.mode = l.mode /\ m.rows = l.rows /\ m.query = l.query /\ m.mainSel = l.mainSel
        /\ m.searchRows = ids /\ m.searchSel = Within(l.searchSel, Len(ids))
    BY DEF Sound, Fields
  <2>5. Sound(m)
    BY <2>1, RebuildSound
  <2> HIDE DEF m
  <2>6. Shaped(m)
    BY <2>2, <2>3, <2>4 DEF Shaped
  <2>7. Searched(m)
    BY <2>2, <2>4 DEF Searched
  <2> QED BY <2>1, <2>5, <2>6, <2>7 DEF Shown
<1> QED BY <1>1, <1>2

\* trim_rows_if_needed makes the search anew.
LEMMA TrimShown ==
    ASSUME NEW l, Shown(l)
    PROVE  Shown(TrimRowsIfNeeded(l))
<1> DEFINE n    == Least(TrimRows, Len(l.rows))
           kept == SubSeq(l.rows, n + 1, Len(l.rows))
           m    == [l EXCEPT !.rows = kept, !.index = IndexOf(kept), !.mainSel = Back(@, n)]
<1>1. Sound(l) /\ Shaped(l)
  BY DEF Shown
<1>2. Sound(m)
  BY <1>1, TrimmedSound
<1>3. n \in Nat
  BY <1>1, PacketListAssumption DEF Sound, Least
<1>4. TrimRowsIfNeeded(l) = l \/ TrimRowsIfNeeded(l) = ClampSelected(RebuildSearch(m))
  BY DEF TrimRowsIfNeeded
<1> HIDE DEF n, kept
<1>5. /\ m.mode = l.mode /\ m.searchSel = l.searchSel /\ m.searchRows = l.searchRows
      /\ m.mainSel = Back(l.mainSel, n)
  BY <1>1 DEF Sound, Fields
<1> HIDE DEF m
<1>6. Shaped(m)
  BY <1>1, <1>3, <1>5, Positive DEF Shaped
<1> QED BY <1>2, <1>4, <1>6, RebuildShown, ClampShown

\* A line is of no packet: no search lists it.
LEMMA LineShown ==
    ASSUME NEW l, Shown(l)
    PROVE  Shown(AppendSystemLine(l))
<1> DEFINE m == [l EXCEPT !.rows = Append(@, SystemRow)]
<1>1. Sound(m) /\ Sound(l)
  BY LineSound DEF Shown
<1>2. /\ m.rows = Append(l.rows, SystemRow) /\ m.mode = l.mode /\ m.mainSel = l.mainSel
      /\ m.searchSel = l.searchSel /\ m.searchRows = l.searchRows /\ m.query = l.query
  BY <1>1 DEF Sound, Fields
<1> HIDE DEF m
<1>3. Shaped(m)
  BY <1>2 DEF Shown, Shaped
<1>4. \A hidden : Listing(m.rows, l.query, hidden) = Listing(l.rows, l.query, hidden)
  <2> SUFFICES ASSUME NEW hidden
               PROVE  Listing(m.rows, l.query, hidden) = Listing(l.rows, l.query, hidden)
    OBVIOUS
  <2>1. SystemRow \in Rows /\ l.rows \in Seq(Rows)
    BY <1>1 DEF Rows, Sound
  <2>2. Listing(m.rows, l.query, hidden)
          = Listed(SearchOf(l.query, hidden), Listing(l.rows, l.query, hidden), SystemRow)
    BY <1>2, <2>1, ListingMore
  <2>3. SystemRow.id = NoId
    BY DEF SystemRow
  <2> QED BY <2>2, <2>3 DEF Listed
<1>5. Searched(m)
  BY <1>2, <1>4 DEF Shown, Searched
<1> QED BY <1>1, <1>3, <1>5, TrimShown DEF AppendSystemLine, Shown, m

\* With the row that waits for traffic goes the search list.
LEMMA WithoutWaitingShown ==
    ASSUME NEW l, Shown(l)
    PROVE  Shown(WithoutWaitingRow(l))
<1> DEFINE m == [l EXCEPT !.rows = <<>>, !.searchRows = <<>>, !.mainSel = 1, !.searchSel = 1]
<1>1. Sound(WithoutWaitingRow(l)) /\ Sound(l)
  BY WithoutWaitingSound DEF Shown
<1>2. WithoutWaitingRow(l) = l \/ WithoutWaitingRow(l) = m
  BY DEF WithoutWaitingRow
<1>3. /\ m.rows = <<>> /\ m.searchRows = <<>> /\ m.mode = l.mode /\ m.mainSel = 1
      /\ m.searchSel = 1 /\ m.query = l.query
  BY <1>1 DEF Sound, Fields
<1> HIDE DEF m
<1>4. Shaped(m)
  BY <1>3 DEF Shown, Shaped, Positions
<1>5. {} \in SUBSET Tunnels /\ m.searchRows = Listing(m.rows, m.query, {})
  BY <1>3, ListingNothing
<1>6. Searched(m)
  BY <1>5 DEF Searched
<1> QED BY <1>1, <1>2, <1>4, <1>6 DEF Shown

\* on_packet_started lists the row as the search would.
LEMMA StartedShown ==
    ASSUME NEW l, Shown(l), NEW p \in Packets \ Tunnels
    PROVE  Shown(OnPacketStarted(l, p))
<1> DEFINE row == PacketRow(p, "none", {})
           w == WithRow(l, row)
           m == OnPacketStarted(l, p)
           Now(ids) == IF l.mode = "search" /\ Matches(l.query, row) THEN Append(ids, p) ELSE ids
<1>1. Sound(l) /\ Sound(m)
  BY StartedSound DEF Shown
<1>2. row \in Rows /\ row.id = p /\ p # NoId
  BY PacketListAssumption DEF PacketRow, Rows, Statuses
<1>3. /\ Fields(w) /\ w.rows = Append(l.rows, row) /\ w.mode = l.mode /\ w.mainSel = l.mainSel
      /\ w.searchSel = l.searchSel /\ w.searchRows = l.searchRows /\ w.query = l.query
  <2> HIDE DEF row
  <2> QED BY <1>1 DEF WithRow, Sound, Fields
<1>4. m = IF l.mode = "search" /\ Matches(l.query, row)
          THEN [w EXCEPT !.searchRows = Append(@, p)] ELSE w
  BY DEF OnPacketStarted
<1> HIDE DEF w, m, row
<1>5. /\ m.rows = Append(l.rows, row) /\ m.mode = l.mode /\ m.mainSel = l.mainSel
      /\ m.searchSel = l.searchSel /\ m.searchRows = Now(l.searchRows) /\ m.query = l.query
  BY <1>3, <1>4 DEF Fields
<1>6. Shaped(m)
  BY <1>5 DEF Shown, Shaped
<1>7. Searched(m)
  <2> SUFFICES ASSUME m.mode = "search"
               PROVE  \E hidden \in SUBSET Tunnels : m.searchRows = Listing(m.rows, m.query, hidden)
    BY DEF Searched
  <2>1. PICK hidden \in SUBSET Tunnels : l.searchRows = Listing(l.rows, l.query, hidden)
    BY <1>5 DEF Shown, Searched
  <2>2. Listing(m.rows, l.query, hidden) = Listed(SearchOf(l.query, hidden), l.searchRows, row)
    BY <1>1, <1>2, <1>5, <2>1, ListingMore DEF Sound
  <2>3. Listed(SearchOf(l.query, hidden), l.searchRows, row) = Now(l.searchRows)
    BY <1>2, <1>5 DEF Listed, SearchOf
  <2> QED BY <1>5, <2>2, <2>3
<1> QED BY <1>1, <1>6, <1>7 DEF Shown, m

\* A tunnel that failed, and had no row, is hidden from the search.
LEMMA TunnelShown ==
    ASSUME NEW l, Shown(l), NEW p \in Tunnels, NEW mark \in Labels \cup {NoMark},
           \A i \in DOMAIN l.rows : l.rows[i].id # p
    PROVE  Shown(OnTunnelFailed(l, p, mark))
<1> DEFINE row == PacketRow(p, "none", {IF mark = NoMark THEN "TLS FAILED" ELSE mark})
           m == OnTunnelFailed(l, p, mark)
<1>0. p \in Packets /\ p # NoId
  BY PacketListAssumption
<1>1. Sound(l) /\ Sound(m)
  BY <1>0, TunnelSound DEF Shown
<1>2. row \in Rows /\ row.id = p
  BY <1>0 DEF PacketRow, Rows, Statuses
<1>3. m = WithRow(l, row)
  BY DEF OnTunnelFailed
<1> HIDE DEF row, m
<1>4. /\ m.rows = Append(l.rows, row) /\ m.mode = l.mode /\ m.mainSel = l.mainSel
      /\ m.searchSel = l.searchSel /\ m.searchRows = l.searchRows /\ m.query = l.query
  BY <1>1, <1>3 DEF WithRow, Sound, Fields
<1>5. Shaped(m)
  BY <1>4 DEF Shown, Shaped
<1>6. Searched(m)
  <2> SUFFICES ASSUME m.mode = "search"
               PROVE  \E hidden \in SUBSET Tunnels : m.searchRows = Listing(m.rows, m.query, hidden)
    BY DEF Searched
  <2>1. PICK hidden \in SUBSET Tunnels : l.searchRows = Listing(l.rows, l.query, hidden)
    BY <1>4 DEF Shown, Searched
  <2> DEFINE h == hidden \cup {p}
  <2>2. h \in SUBSET Tunnels
    OBVIOUS
  <2>3. Listing(l.rows, l.query, h) = l.searchRows
    <3> DEFINE n == Len(l.rows)
    <3>1. n \in Nat /\ DOMAIN l.rows = 1..n /\ \A i \in 1..n : l.rows[i].id # p
      BY <1>1 DEF Sound
    <3> HIDE DEF n
    <3>2. \A x : \A i \in 1..n : Listed(SearchOf(l.query, h), x, l.rows[i])
                                   = Listed(SearchOf(l.query, hidden), x, l.rows[i])
      BY <3>1 DEF Listed, SearchOf
    <3> HIDE DEF h
    <3> DEFINE rows == l.rows
               q == l.query
    <3>3. /\ DOMAIN rows = 1..n
          /\ \A x : \A i \in 1..n : Listed(SearchOf(q, h), x, rows[i])
                                      = Listed(SearchOf(q, hidden), x, rows[i])
      BY <3>1, <3>2
    <3> HIDE DEF rows, q
    <3>4. Listing(rows, q, h) = Listing(rows, q, hidden)
      BY <3>1, <3>3, ListingWithout
    <3> QED BY <2>1, <3>4 DEF rows, q
  <2>4. Listing(m.rows, l.query, h) = Listed(SearchOf(l.query, h), l.searchRows, row)
    <3> HIDE DEF h
    <3> QED BY <1>1, <1>2, <1>4, <2>3, ListingMore DEF Sound
  <2>5. Listed(SearchOf(l.query, h), l.searchRows, row) = l.searchRows
    BY <1>2 DEF Listed, SearchOf
  <2> HIDE DEF h
  <2> QED BY <1>4, <2>2, <2>4, <2>5
<1> QED BY <1>1, <1>5, <1>6 DEF Shown, m

\* on_packet_completed makes the search anew.
LEMMA CompletedShown ==
    ASSUME NEW l, Shown(l), NEW p \in Packets
    PROVE  Shown(OnPacketCompleted(l, p))
<1> SUFFICES ASSUME p \in DOMAIN l.index, l.index[p] \in DOMAIN l.rows
             PROVE  Shown(OnPacketCompleted(l, p))
  BY DEF OnPacketCompleted
<1> DEFINE i == l.index[p]
           row == [l.rows[i] EXCEPT !.status = "done"]
           m == [l EXCEPT !.rows = [l.rows EXCEPT ![i] = row]]
<1>0. Sound(l)
  BY DEF Shown
<1>1. row \in Rows /\ row.id = l.rows[i].id /\ row.kind = l.rows[i].kind
  <2>1. l.rows[i] \in Rows /\ l.rows[i].id # NoId
    BY <1>0 DEF Sound, IndexOK
  <2> QED BY <2>1, ChangedRow
<1>2. [l EXCEPT !.rows[l.index[p]].status = "done"] = m
  OBVIOUS
<1> HIDE DEF row, i
<1>3. Sound(m)
  BY <1>0, <1>1, RowChangeSound DEF i
<1>4. /\ m.mode = l.mode /\ m.mainSel = l.mainSel /\ m.searchSel = l.searchSel
      /\ m.searchRows = l.searchRows
  BY <1>0 DEF Sound, Fields
<1>5. Shaped(m)
  <2> HIDE DEF m
  <2> QED BY <1>4 DEF Shown, Shaped
<1> QED BY <1>2, <1>3, <1>5, RebuildShown DEF OnPacketCompleted

\* A mark matters to no search.
LEMMA MarkedShown ==
    ASSUME NEW l, Shown(l), NEW p \in Packets, NEW mark \in Labels
    PROVE  Shown(OnPacketMarked(l, p, mark))
<1> DEFINE m == OnPacketMarked(l, p, mark)
<1>1. Sound(l) /\ Sound(m)
  BY MarkedSound DEF Shown
<1>2. CASE m = l
  BY <1>2
<1>3. CASE m # l
  <2>1. PICK i \in DOMAIN l.rows : m = [l EXCEPT !.rows[i].marks = @ \cup {mark}]
    BY <1>3 DEF OnPacketMarked
  <2> HIDE DEF m
  <2> DEFINE row == [l.rows[i] EXCEPT !.marks = @ \cup {mark}]
             rows == [l.rows EXCEPT ![i] = row]
  <2>2. m = [l EXCEPT !.rows = rows]
    BY <2>1
  <2>3. l.rows[i] \in Rows
    BY <1>1 DEF Sound
  <2>4. row.id = l.rows[i].id /\ row.status = l.rows[i].status
    <3>1. DOMAIN l.rows[i] = {"kind", "id", "status", "marks"}
      BY <2>3 DEF Rows, WaitingRow, SystemRow
    <3> QED BY <3>1
  <2> HIDE DEF row
  <2>5. /\ Len(l.rows) \in Nat /\ DOMAIN l.rows = 1..Len(l.rows) /\ DOMAIN rows = DOMAIN l.rows
        /\ \A j \in DOMAIN l.rows : rows[j].id = l.rows[j].id /\ rows[j].status = l.rows[j].status
    BY <1>1, <2>4 DEF Sound
  <2> HIDE DEF rows
  <2>6. /\ m.rows = rows /\ m.mode = l.mode /\ m.mainSel = l.mainSel
        /\ m.searchSel = l.searchSel /\ m.searchRows = l.searchRows /\ m.query = l.query
    BY <1>1, <2>2 DEF Sound, Fields
  <2>7. Shaped(m)
    BY <2>6 DEF Shown, Shaped
  <2>8. \A hidden : Listing(rows, l.query, hidden) = Listing(l.rows, l.query, hidden)
    <3> DEFINE n == Len(l.rows)
    <3>1. /\ n \in Nat /\ DOMAIN l.rows = 1..n /\ DOMAIN rows = 1..n
          /\ \A j \in 1..n : rows[j].id = l.rows[j].id /\ rows[j].status = l.rows[j].status
      BY <2>5
    <3> HIDE DEF n
    <3> QED BY <3>1, ListingSame
  <2>9. Searched(m)
    BY <2>6, <2>8 DEF Shown, Searched
  <2> QED BY <1>1, <2>7, <2>9 DEF Shown, m
<1> QED BY <1>2, <1>3

\* Outside a search nothing is to be listed.
LEMMA LeaveShown ==
    ASSUME NEW l, Shown(l)
    PROVE  /\ Shown(LeaveSearch(l)) /\ LeaveSearch(l).rows = l.rows
           /\ \A sel \in Positions : Shown([LeaveSearch(l) EXCEPT !.mainSel = sel])
<1> DEFINE m == LeaveSearch(l)
<1>1. Sound(l) /\ Sound(m)
  BY LeaveSound DEF Shown
<1>2. /\ m.mode = "main" /\ m.rows = l.rows /\ m.mainSel = l.mainSel /\ m.searchSel = l.searchSel
      /\ m.searchRows = <<>>
  BY <1>1 DEF LeaveSearch, Sound, Fields
<1> HIDE DEF m
<1>3. Shown(m)
  BY <1>1, <1>2 DEF Shown, Shaped, Searched
<1>4. \A sel \in Positions : [m EXCEPT !.mainSel = sel] = Select(m, sel)
  BY <1>2 DEF Select
<1>5. \A sel \in Positions : Shown([m EXCEPT !.mainSel = sel])
  BY <1>3, <1>4, SelectShown
<1> QED BY <1>2, <1>3, <1>5 DEF m

\* The end of poll_incoming keeps the search list right.
LEMMA PolledShown ==
    ASSUME Shown(list)
    PROVE  Shown(Polled)
BY TrimShown, ClampShown DEF Polled

\* The keys move the selection to a position.
LEMMA MovesShown ==
    ASSUME NEW l, Shown(l)
    PROVE  /\ Shown(MoveUp(l)) /\ Shown(MoveDown(l)) /\ Shown(PageUp(l)) /\ Shown(PageDown(l))
           /\ Shown(JumpToBottom(l))
<1>1. VisibleLen(l) \in Nat /\ Selected(l) \in Positions
  BY VisibleNat DEF Shown
<1>2. Page \in Nat
  BY PacketListAssumption
<1>3. /\ Back(Selected(l), 1) \in Positions /\ Back(Selected(l), Page) \in Positions
      /\ Selected(l) + 1 \in Positions /\ Within(Selected(l) + Page, VisibleLen(l)) \in Positions
  BY <1>1, <1>2, Positive
<1>4. VisibleLen(l) # 0 => VisibleLen(l) \in Positions
  BY <1>1 DEF Positions
<1> QED BY <1>3, <1>4, SelectShown DEF MoveUp, MoveDown, PageUp, PageDown, JumpToBottom

-----------------------------------------------------------------------------
(* The results of a full-text search. *)

Ordered(s) == \A i, j \in DOMAIN s : i < j => s[i].id <= s[j].id /\ s[i] # s[j]

\* A finite set of files can be put in the order of their flows: the file of the least
\* flow first, then the others.
LEMMA Sortable ==
    ASSUME NEW S, IsFiniteSet(S), \A x \in S : x.id \in Nat
    PROVE  \E s \in [1..Cardinality(S) -> S] : Ordered(s)
<1> DEFINE T == {n \in Nat : \A R \in SUBSET S : Cardinality(R) = n => \E s \in [1..n -> R] : Ordered(s)}
<1>0. \A R \in SUBSET S : IsFiniteSet(R) /\ Cardinality(R) \in Nat /\ (Cardinality(R) = 0 <=> R = {})
  BY FS_Subset, FS_CardinalityType, FS_EmptySet
<1>1. 0 \in T
  <2> SUFFICES ASSUME NEW R \in SUBSET S PROVE \E s \in [1..0 -> R] : Ordered(s)
    OBVIOUS
  <2>1. <<>> \in [1..0 -> R]
    OBVIOUS
  <2>2. Ordered(<<>>)
    BY DEF Ordered
  <2> QED BY <2>1, <2>2
<1>2. ASSUME NEW n \in T PROVE n + 1 \in T
  <2>0. n \in Nat /\ n + 1 \in Nat /\ n + 1 # 0
    OBVIOUS
  <2>1. ASSUME NEW R \in SUBSET S, Cardinality(R) = n + 1
        PROVE  \E s \in [1..(n + 1) -> R] : Ordered(s)
    <3> DEFINE ids == {y.id : y \in R}
    <3>1. ids \in SUBSET Nat /\ ids # {}
      <4>1. R # {}
        <5> HIDE DEF T
        <5> QED BY <1>0, <2>0, <2>1
      <4> QED BY <4>1
    <3>2. PICK least \in ids : \A m \in ids : least <= m
      <4> HIDE DEF ids
      <4> QED BY <3>1, HasLeast
    <3>3. PICK x \in R : x.id = least
      OBVIOUS
    <3>4. \A y \in R : x.id <= y.id
      BY <3>2, <3>3
    <3> DEFINE rest == R \ {x}
    <3>5. Cardinality(rest) = n /\ rest \in SUBSET S
      <4> HIDE DEF T, ids
      <4>1. Cardinality(rest) = Cardinality(R) - 1
        BY <1>0, FS_RemoveElement
      <4>2. (n + 1) - 1 = n
        BY <2>0
      <4> QED BY <2>1, <4>1, <4>2
    <3>6. PICK s \in [1..n -> rest] : Ordered(s)
      <4> HIDE DEF rest
      <4> QED BY <3>5
    <3> HIDE DEF T, ids
    <3> DEFINE more == [i \in 1..(n + 1) |-> IF i = 1 THEN x ELSE s[i - 1]]
    <3>7. \A i \in 1..(n + 1) : i # 1 => i - 1 \in 1..n /\ s[i - 1] \in R /\ s[i - 1] # x
      BY <2>0, <3>6
    <3>8. more \in [1..(n + 1) -> R]
      BY <3>7
    <3>9. Ordered(more)
      <4> SUFFICES ASSUME NEW i \in 1..(n + 1), NEW j \in 1..(n + 1), i < j
                   PROVE  more[i].id <= more[j].id /\ more[i] # more[j]
        BY DEF Ordered
      <4>1. j # 1 /\ more[j] = s[j - 1] /\ j - 1 \in 1..n
        BY <2>0, <3>7
      <4>2. CASE i = 1
        BY <3>4, <3>7, <4>1, <4>2
      <4>3. CASE i # 1
        <5>1. more[i] = s[i - 1] /\ i - 1 \in 1..n /\ i - 1 < j - 1
          BY <2>0, <3>7, <4>3
        <5>2. DOMAIN s = 1..n
          OBVIOUS
        <5> HIDE DEF more
        <5> QED BY <3>6, <4>1, <5>1, <5>2 DEF Ordered
      <4> QED BY <4>2, <4>3
    <3> HIDE DEF more
    <3> QED BY <3>8, <3>9
  <2> HIDE DEF Ordered
  <2> QED BY <2>0, <2>1
<1>3. T = Nat
  <2> HIDE DEF T
  <2>1. T \in SUBSET Nat
    BY DEF T
  <2> QED BY <1>1, <1>2, <2>1, NatSetInduction
<1>4. Cardinality(S) \in T
  <2> HIDE DEF T
  <2> QED BY <1>0, <1>3
<1> QED BY <1>4

\* search_capture_files finds a list of files.
LEMMA FoundType ==
    ASSUME NEW text \in Texts
    PROVE  Found(text) \in Seq(Files)
<1> DEFINE found == {file \in text : sent[file.id] # "nothing"}
           n == Cardinality(found)
           all == CHOOSE s \in [1..n -> found] :
                    \A i, j \in DOMAIN s : i < j => s[i].id <= s[j].id /\ s[i] # s[j]
<1>1. IsFiniteSet(text) /\ text \subseteq Files
  BY PacketListAssumption DEF Files, Tabs
<1>2. IsFiniteSet(found) /\ found \subseteq Files /\ n \in Nat
  BY <1>1, FS_Subset, FS_CardinalityType
<1>3. \A x \in found : x.id \in Nat
  <2>1. \A x \in Files : x.id \in Nat
    BY PacketListAssumption DEF Files
  <2> QED BY <1>2, <2>1
<1>4. Found(text) = SubSeq(all, 1, Least(Len(all), MaxResults))
  BY DEF Found
<1> HIDE DEF found
<1>5. \E s \in [1..n -> found] : Ordered(s)
  BY <1>2, <1>3, Sortable
<1>6. all \in [1..n -> found]
  BY <1>5 DEF Ordered
<1> HIDE DEF all, n
<1>7. all \in Seq(Files)
  BY <1>2, <1>6
<1>8. Least(Len(all), MaxResults) \in 0..Len(all)
  BY <1>7, PacketListAssumption DEF Least
<1> HIDE DEF Least
<1> QED BY <1>4, <1>7, <1>8

Drawing == INSTANCE FoldTheorems WITH FoldOp <- DrawnIn, FoldKept <- IdSeq

\* A click is on a position.
LEMMA DrawnPositions ==
    ASSUME NEW l, Sound(l), Shaped(l)
    PROVE  DOMAIN Drawn(l) \subseteq Positions
<1>1. CASE l.mode = "main"
  BY <1>1 DEF Drawn, Sound, Positions
<1>2. CASE l.mode # "main"
  <2> DEFINE ids == l.searchRows
             n == Len(ids)
  <2>1. Drawn(l) = Drawing!FoldOf(l.index, <<>>, ids)[DOMAIN ids]
    BY <1>2 DEF Drawn, FoldLeft, MapThenFoldSet, Max, Drawing!FoldOf, Drawing!IsFold,
       Drawing!FoldTurn, Drawing!Max
  <2>2. n \in Nat /\ DOMAIN ids = 1..n /\ \A i \in 1..n : ids[i] \in Packets
    BY DEF Shaped
  <2> HIDE DEF n, ids
  <2>3. \A x : \A i \in 1..n : IdSeq(x) => IdSeq(DrawnIn(l.index, x, ids[i]))
    BY <2>2 DEF IdSeq, DrawnIn
  <2>4. IdSeq(<<>>)
    BY DEF IdSeq
  <2>5. IdSeq(Drawing!FoldOf(l.index, <<>>, ids)[DOMAIN ids])
    BY <2>2, <2>3, <2>4, Drawing!FoldKeeps
  <2> QED BY <2>1, <2>5 DEF IdSeq, Positions
<1> QED BY <1>1, <1>2

-----------------------------------------------------------------------------
(* Types, and the search list. *)

\* All that is proved of a state, each part resting on the others.
WholeInv == ListInv /\ OpenedOnce /\ SearchShowsMatches /\ TypeOK /\ WorkOK

\* What it says of the list.
LEMMA WholeShown == WholeInv => Shown(list) /\ Unique(list) /\ Opened(list, rx, sent)
BY OpenedMeans DEF WholeInv, ListInv, SearchShowsMatches, TypeOK, ListType, Shown, Shaped, Searched,
   Positions, OpenedOnce, Unique

\* The types of a list that is shown.
LEMMA ShownType ==
    ASSUME NEW l, Shown(l)
    PROVE  /\ l.rows \in Seq(Rows) /\ DOMAIN l.index \subseteq Packets
           /\ l.mode \in {"main", "search"}
           /\ l.mainSel \in Nat \ {0} /\ l.searchSel \in Nat \ {0}
           /\ l.searchRows \in Seq(Packets)
<1>1. l.rows \in Seq(Rows)
  BY DEF Shown, Sound
<1>2. DOMAIN l.index \subseteq Packets
  <2> SUFFICES ASSUME NEW p \in DOMAIN l.index PROVE p \in Packets
    OBVIOUS
  <2>1. p # NoId /\ l.index[p] \in DOMAIN l.rows /\ l.rows[l.index[p]].id = p
    BY DEF Shown, Sound, IndexOK
  <2>2. l.rows[l.index[p]] \in Rows
    BY <1>1, <2>1
  <2> QED BY <2>1, <2>2, RowFacts
<1> QED BY <1>1, <1>2 DEF Shown, Shaped, Positions

\* The packet selected is a packet, or none.
LEMMA CurrentIdType ==
    ASSUME NEW l, Shown(l)
    PROVE  CurrentId(l) \in Packets \cup {NoId}
<1>1. CurrentIndex(l) = 0 \/ CurrentIndex(l) \in DOMAIN l.rows
  BY DEF CurrentIndex, Shown, Sound, IndexOK
<1>2. \A i \in DOMAIN l.rows : l.rows[i].id \in Packets \cup {NoId}
  <2>1. \A i \in DOMAIN l.rows : l.rows[i] \in Rows
    BY DEF Shown, Sound
  <2> QED BY <2>1, RowFacts
<1> QED BY <1>1, <1>2 DEF CurrentId

UiEvents ==
    [kind : {"ShowDetail", "OpenFilterStats", "OpenEdit"}, id : Packets \cup {NoId},
     tab : Tabs \cup {"keep"}, sent : {"atOnce", "byTask"}]

\* Details are asked for.
LEMMA ShowDetailType ==
    ASSUME NEW l, Shown(l), NEW t \in Tabs \cup {"keep"}, pending \in Seq(UiEvents),
           ShowDetail(l, t)
    PROVE  pending' \in Seq(UiEvents)
<1> DEFINE e == UiEvent("ShowDetail", CurrentId(l), t,
                        IF CurrentId(l) \in failures THEN "atOnce" ELSE "byTask")
<1>1. e \in UiEvents
  BY CurrentIdType DEF UiEvent, UiEvents
<1>2. pending' = pending \/ pending' = Append(pending, e)
  BY DEF ShowDetail
<1> HIDE DEF e
<1> QED BY <1>1, <1>2

\* An event of the channel leaves the list as it should be.
LEMMA ReceiveShown ==
    ASSUME WholeInv, ReceiveEvent
    PROVE  Shown(list') /\ failures' \subseteq Tunnels
<1> DEFINE e == Head(rx)
           l == WithoutWaitingRow(list)
<1>0. Shown(list) /\ Opened(list, rx, sent) /\ ListInv /\ failures \subseteq Tunnels
  BY WholeShown DEF WholeInv, TypeOK
<1>1. Shown(l)
  BY <1>0, WithoutWaitingShown
<1>2. e \in AnyEvent /\ 1 \in DOMAIN rx /\ e = rx[1]
  BY <1>0 DEF ListInv, ReceiveEvent
<1>3. /\ e.kind \in EventKinds /\ e.id \in Packets /\ e.mark \in Labels \cup {NoMark}
      /\ e.kind = "Started" => e.id \notin Tunnels
      /\ e.kind = "TunnelFailed" => e.id \in Tunnels
      /\ e.kind = "Marked" => e.mark \in Labels
  BY <1>2 DEF AnyEvent
<1>4. Opened(l, rx, sent)
  BY <1>0, WithoutWaitingOpened DEF Shown
<1>5. failures' \subseteq Tunnels
  BY <1>0, <1>3 DEF ReceiveEvent
<1>6. CASE e.kind = "Started"
  <2>1. list' = OnPacketStarted(l, e.id)
    BY <1>6 DEF ReceiveEvent
  <2>2. e.id \in Packets \ Tunnels
    BY <1>3, <1>6
  <2> QED BY <1>1, <1>5, <2>1, <2>2, StartedShown
<1>7. CASE e.kind = "Completed"
  <2>1. list' = OnPacketCompleted(l, e.id)
    BY <1>7 DEF ReceiveEvent
  <2> QED BY <1>1, <1>3, <1>5, <2>1, CompletedShown
<1>8. CASE e.kind = "Marked"
  <2>1. list' = OnPacketMarked(l, e.id, e.mark)
    BY <1>8 DEF ReceiveEvent
  <2> QED BY <1>1, <1>3, <1>5, <1>8, <2>1, MarkedShown
<1>9. CASE e.kind = "TunnelFailed"
  <2>1. list' = OnTunnelFailed(l, e.id, e.mark)
    BY <1>9 DEF ReceiveEvent
  <2>2. \A k \in DOMAIN l.rows : l.rows[k].id # e.id
    BY <1>2, <1>4, <1>9 DEF Opened, Opening
  <2> QED BY <1>1, <1>3, <1>5, <1>9, <2>1, <2>2, TunnelShown
<1> QED BY <1>3, <1>6, <1>7, <1>8, <1>9 DEF EventKinds

\* A result is selected, or a line says that its flow has no row.
LEMMA SelectRetainedShown ==
    ASSUME WholeInv, NEW found \in Seq(Files), NEW k \in DOMAIN found, SelectRetained(found, k)
    PROVE  /\ Shown(list') /\ pending' \in Seq(UiEvents)
           /\ retained' = [found |-> found, sel |-> k]
<1> DEFINE l == Polled
           of == {i \in DOMAIN l.rows : l.rows[i].id = found[k].id}
<1>0. Shown(list) /\ Unique(list) /\ pending \in Seq(UiEvents)
  BY WholeShown DEF WholeInv, WorkOK, UiEvents
<1>1. Shown(l)
  BY <1>0, PolledShown
<1>2. Unique(l)
  BY <1>0, PolledKept DEF Shown
<1>3. found[k].id # NoId /\ found[k].tab \in Tabs
  <2>1. found[k] \in Files
    OBVIOUS
  <2> QED BY <2>1, PacketListAssumption DEF Files
<1>4. retained' = [found |-> found, sel |-> k]
  BY DEF SelectRetained
<1>5. CASE of = {}
  <2>1. list' = AppendSystemLine(l) /\ pending' = pending
    BY <1>5 DEF SelectRetained
  <2> QED BY <1>0, <1>1, <1>4, <2>1, LineShown
<1>6. CASE of # {}
  <2> DEFINE sel == CHOOSE i \in of : \A j \in of : i <= j
  <2>1. list' = [LeaveSearch(l) EXCEPT !.mainSel = sel] /\ ShowDetail(list', found[k].tab)
    BY <1>6 DEF SelectRetained
  <2>2. PICK i \in of : TRUE
    BY <1>6
  <2>3. i \in Positions
    BY <1>1 DEF Shown, Sound, Positions
  <2>4. \A j \in of : i <= j
    BY <1>2, <1>3, <2>3 DEF Unique, Positions
  <2>5. sel \in of
    <3> HIDE DEF of
    <3> QED BY <2>4
  <2>6. sel \in Positions
    <3>1. of \subseteq Positions
      BY <1>1 DEF Shown, Sound, Positions
    <3> HIDE DEF of, sel
    <3> QED BY <2>5, <3>1
  <2> HIDE DEF sel
  <2>7. Shown(list')
    BY <1>1, <2>1, <2>6, LeaveShown
  <2>8. pending' \in Seq(UiEvents)
    BY <1>0, <1>3, <2>1, <2>7, ShowDetailType
  <2> QED BY <1>4, <2>7, <2>8
<1> QED BY <1>5, <1>6

\* A move of walking the results stays among them.
LEMMA RoundAndRound ==
    ASSUME NEW n \in Nat \ {0}, NEW sel \in 1..n
    PROVE  (sel % n) + 1 \in 1..n /\ (IF sel = 1 THEN n ELSE sel - 1) \in 1..n
OBVIOUS

\* What a handler does, by the input it handles.
LEMMA HandleWork ==
    ASSUME WholeInv, Handle
    PROVE  /\ Shown(list') /\ pending' \in Seq(UiEvents)
           /\ retained'.found \in Seq(Files) /\ DOMAIN retained' = {"found", "sel"}
           /\ retained'.found # <<>> => retained'.sel \in DOMAIN retained'.found
           /\ DOMAIN diff' = {"left", "right"} /\ {diff'.left, diff'.right} \subseteq Packets \cup {NoId}
           /\ input' = Idle /\ UNCHANGED <<failures, detail, tab>>
<1> DEFINE RetainedOK ==
             /\ retained'.found \in Seq(Files) /\ DOMAIN retained' = {"found", "sel"}
             /\ retained'.found # <<>> => retained'.sel \in DOMAIN retained'.found
           DiffOK ==
             DOMAIN diff' = {"left", "right"} /\ {diff'.left, diff'.right} \subseteq Packets \cup {NoId}
           PendingOK == pending' \in Seq(UiEvents)
<1>0. /\ Shown(list) /\ Unique(list) /\ pending \in Seq(UiEvents)
      /\ retained.found \in Seq(Files) /\ DOMAIN retained = {"found", "sel"}
      /\ retained.found # <<>> => retained.sel \in DOMAIN retained.found
      /\ DOMAIN diff = {"left", "right"} /\ {diff.left, diff.right} \subseteq Packets \cup {NoId}
      /\ input.kind = "click" => input.arg \in Positions
      /\ input.kind = "select" =>
            input.arg.found \in Seq(Files) /\ input.arg.k \in DOMAIN input.arg.found
      /\ tab \in Tabs
  BY WholeShown DEF WholeInv, WorkOK, TypeOK, UiEvents, Positions, Tabs
<1>1. Shown(Polled) /\ Shown(AppendSystemLine(Polled))
  BY <1>0, PolledShown, LineShown
<1>2. UNCHANGED retained => RetainedOK
  BY <1>0
<1>3. UNCHANGED diff => DiffOK
  BY <1>0
<1>4. UNCHANGED pending => PendingOK
  BY <1>0
<1>5. input' = Idle /\ UNCHANGED <<failures, detail, tab>>
  BY DEF Handle, HandleTick, MoveKey, EnterKey, HandleClick, ClearSearch, SearchUrl,
     InvalidQuery, SelectFound, MoveRetained, MarkDiff, ClearDiff, ExternalTool,
     OpenFilterStats, OpenEdit, Handling
<1>6. ASSUME NEW l, Shown(l), ShowDetail(l, "keep") PROVE PendingOK
  BY <1>0, <1>6, ShowDetailType
<1>7. ResetDetail => PendingOK
  <2> DEFINE e == UiEvent("ShowDetail", NoId, "keep", "atOnce")
  <2>1. e \in UiEvents
    BY DEF UiEvent, UiEvents
  <2>2. ResetDetail => pending' = Append(pending, e)
    BY DEF ResetDetail
  <2> HIDE DEF e
  <2> QED BY <1>0, <2>1, <2>2
<1>8. ASSUME NEW found \in Seq(Files), NEW k \in DOMAIN found, SelectRetained(found, k)
      PROVE  Shown(list') /\ PendingOK /\ RetainedOK
  <2>1. Shown(list') /\ PendingOK /\ retained' = [found |-> found, sel |-> k]
    BY <1>8, SelectRetainedShown
  <2>2. RetainedOK
    BY <2>1
  <2> QED BY <2>1, <2>2
<1> DEFINE Goal == Shown(list') /\ PendingOK /\ RetainedOK /\ DiffOK
<1> SUFFICES Goal
  BY <1>5
<1> HIDE DEF RetainedOK, DiffOK, PendingOK
<1>10. CASE HandleTick
  BY <1>1, <1>2, <1>3, <1>4, <1>10 DEF HandleTick
<1>11. CASE MoveKey
  <2>1. Shown(list') /\ ShowDetail(list', "keep")
    BY <1>1, <1>11, MovesShown DEF MoveKey
  <2> QED BY <1>2, <1>3, <1>6, <1>11, <2>1 DEF MoveKey
<1>12. CASE EnterKey
  <2>1. Shown(list') /\ ShowDetail(list', "keep")
    BY <1>1, <1>12 DEF EnterKey
  <2> QED BY <1>2, <1>3, <1>6, <1>12, <2>1 DEF EnterKey
<1>13. CASE HandleClick
  <2>1. input.arg \in Positions
    BY <1>0, <1>13 DEF HandleClick, Handling
  <2>2. Shown(Select(Polled, input.arg))
    BY <1>1, <2>1, SelectShown
  <2>3. \/ list' = Select(Polled, input.arg) /\ ShowDetail(list', "keep")
        \/ list' = Polled /\ UNCHANGED pending
    BY <1>13 DEF HandleClick
  <2>4. Shown(list') /\ PendingOK
    BY <1>1, <1>4, <1>6, <2>2, <2>3
  <2> QED BY <1>2, <1>3, <1>13, <2>4 DEF HandleClick
<1>14. CASE ClearSearch
  <2>1. Shown(list')
    BY <1>1, <1>14, LeaveShown, ClampShown DEF ClearSearch
  <2> QED BY <1>2, <1>3, <1>7, <1>14, <2>1 DEF ClearSearch
<1>15. CASE SearchUrl
  <2>1. PICK q \in Queries :
          list' = [Polled EXCEPT !.mode = "search", !.query = q, !.searchSel = 1,
                                 !.searchRows = MatchingIds(Polled.rows, q)]
    BY <1>15 DEF SearchUrl
  <2> DEFINE l == Polled
             ids == MatchingIds(l.rows, q)
             m == [l EXCEPT !.mode = "search", !.query = q, !.searchSel = 1, !.searchRows = ids]
  <2>2. list' = m
    BY <2>1
  <2>3. ids \in Seq(Packets) /\ ids = Listing(l.rows, q, {})
    BY <1>1, ListingType DEF MatchingIds, Shown, Sound
  <2> HIDE DEF ids, l
  <2>4. Shown(l)
    BY <1>1 DEF l
  <2>5. /\ Fields(m) /\ m.rows = l.rows /\ m.index = l.index /\ m.mode = "search"
        /\ m.query = q /\ m.searchSel = 1 /\ m.searchRows = ids /\ m.mainSel = l.mainSel
    BY <2>4 DEF Shown, Sound, Fields
  <2> HIDE DEF m
  <2>6. Sound(m)
    BY <2>4, <2>5, SameRows DEF Shown
  <2>7. Shaped(m)
    BY <2>3, <2>4, <2>5 DEF Shown, Shaped, Positions
  <2>8. Searched(m)
    BY <2>3, <2>5 DEF Searched
  <2>9. Shown(list')
    BY <2>2, <2>6, <2>7, <2>8 DEF Shown
  <2> QED BY <1>2, <1>3, <1>7, <1>15, <2>9 DEF SearchUrl
<1>16. CASE InvalidQuery
  BY <1>1, <1>2, <1>3, <1>4, <1>16 DEF InvalidQuery
<1>17. CASE SelectFound
  <2>1. input.kind = "select" /\ SelectRetained(input.arg.found, input.arg.k) /\ UNCHANGED diff
    BY <1>17 DEF SelectFound, Handling
  <2> QED BY <1>0, <1>3, <1>8, <2>1
<1>18. CASE MoveRetained
  <2> DEFINE found == retained.found
             n == Len(found)
             next == (retained.sel % n) + 1
             previous == IF retained.sel = 1 THEN n ELSE retained.sel - 1
  <2>1. UNCHANGED diff
    BY <1>18 DEF MoveRetained
  <2>2. CASE n = 0
    <3>1. list' = AppendSystemLine(Polled) /\ UNCHANGED <<retained, pending>>
      BY <1>18, <2>2 DEF MoveRetained
    <3> QED BY <1>1, <1>2, <1>3, <1>4, <2>1, <3>1
  <2>3. CASE n # 0
    <3>1. SelectRetained(found, next) \/ SelectRetained(found, previous)
      BY <1>18, <2>3 DEF MoveRetained
    <3>2. n \in Nat \ {0} /\ DOMAIN found = 1..n /\ retained.sel \in 1..n
      BY <1>0, <2>3
    <3>3. next \in DOMAIN found /\ previous \in DOMAIN found
      <4> HIDE DEF n
      <4> QED BY <3>2, RoundAndRound
    <3>4. found \in Seq(Files)
      BY <1>0
    <3> HIDE DEF next, previous, found, n
    <3> QED BY <1>3, <1>8, <2>1, <3>1, <3>3, <3>4
  <2> QED BY <2>2, <2>3
<1>19. ASSUME NEW side \in {"left", "right"}, NEW other, MarkDiff(side, other) PROVE Goal
  <2>1. CurrentId(Polled) \in Packets \cup {NoId}
    BY <1>1, CurrentIdType
  <2>2. DiffOK
    <3>1. diff' = diff \/ diff' = [diff EXCEPT ![side] = CurrentId(Polled)]
      BY <1>19 DEF MarkDiff
    <3> QED BY <1>0, <2>1, <3>1 DEF DiffOK
  <2> QED BY <1>1, <1>2, <1>4, <1>19, <2>2 DEF MarkDiff
<1>20. CASE ClearDiff
  <2>1. DiffOK
    BY <1>20 DEF ClearDiff, DiffOK
  <2> QED BY <1>1, <1>2, <1>4, <1>20, <2>1 DEF ClearDiff
<1>21. CASE ExternalTool
  BY <1>1, <1>2, <1>3, <1>4, <1>21 DEF ExternalTool
<1>22. CASE OpenFilterStats
  <2> DEFINE e == UiEvent("OpenFilterStats", NoId, "Info", "byTask")
  <2>1. e \in UiEvents
    BY DEF UiEvent, UiEvents, Tabs
  <2>2. pending' = Append(pending, e)
    BY <1>22 DEF OpenFilterStats
  <2> HIDE DEF e
  <2>3. PendingOK
    BY <1>0, <2>1, <2>2 DEF PendingOK
  <2> QED BY <1>1, <1>2, <1>3, <1>22, <2>3 DEF OpenFilterStats
<1>23. CASE OpenEdit
  <2> DEFINE e == UiEvent("OpenEdit", CurrentId(Polled), tab, "byTask")
  <2>1. e \in UiEvents
    BY <1>0, <1>1, CurrentIdType DEF UiEvent, UiEvents
  <2>2. \/ list' = AppendSystemLine(Polled) /\ UNCHANGED pending
        \/ list' = Polled /\ pending' = Append(pending, e)
    BY <1>23 DEF OpenEdit
  <2> HIDE DEF e
  <2>3. PendingOK
    BY <1>0, <1>4, <2>1, <2>2 DEF PendingOK
  <2> QED BY <1>1, <1>2, <1>3, <1>23, <2>2, <2>3 DEF OpenEdit
<1> QED
  BY <1>10, <1>11, <1>12, <1>13, <1>14, <1>15, <1>16, <1>17, <1>18, <1>19, <1>20, <1>21, <1>22, <1>23
  DEF Handle

\* The list at the start.
LEMMA InitWhole == Init => WholeInv
<1> SUFFICES ASSUME Init PROVE WholeInv
  OBVIOUS
<1>1. ListInv /\ OpenedOnce
  BY InitList, InitOpened
<1>2. PICK session \in Sessions, viewer \in BOOLEAN :
        LET rows == IF session.stored = <<>> THEN <<WaitingRow>>
                    ELSE [i \in DOMAIN session.stored |-> StoredRow(session.stored[i], session.answered)]
        IN list = [rows |-> rows, index |-> IndexOf(rows), mode |-> "main",
                   mainSel |-> IF viewer THEN 1 ELSE Len(rows), searchSel |-> 1,
                   query |-> {}, searchRows |-> <<>>]
  BY DEF Init
<1> DEFINE stored == session.stored
<1>3. /\ list.rows = IF stored = <<>> THEN <<WaitingRow>>
                     ELSE [i \in DOMAIN stored |-> StoredRow(stored[i], session.answered)]
      /\ list.mode = "main" /\ list.mainSel = (IF viewer THEN 1 ELSE Len(list.rows))
      /\ list.searchSel = 1 /\ list.searchRows = <<>>
  BY <1>2
<1>4. stored \in Seq(Packets)
  BY PacketListAssumption
<1> HIDE DEF stored
<1>5. Len(list.rows) \in Positions
  <2>1. list.rows \in Seq(Rows)
    BY <1>1 DEF ListInv, Sound
  <2>2. 1 \in DOMAIN list.rows
    BY <1>3, <1>4
  <2> QED BY <2>1, <2>2 DEF Positions
<1>6. Shown(list)
  <2>1. Shaped(list)
    BY <1>3, <1>5 DEF Shaped, Positions
  <2> QED BY <1>1, <1>3, <2>1 DEF ListInv, Shown, Searched
<1>7. SearchShowsMatches /\ ListType
  BY <1>6, ShownType DEF Shown, Searched, SearchShowsMatches, ListType
<1>8. TypeOK /\ WorkOK
  BY <1>7 DEF Init, TypeOK, WorkOK, Idle, Input
<1> QED BY <1>1, <1>7, <1>8 DEF WholeInv

\* What is asked for beyond the list stays of its types.
LEMMA WholeStep == WholeInv /\ [Next]_vars => WholeInv'
<1> SUFFICES ASSUME WholeInv, [Next]_vars PROVE WholeInv'
  OBVIOUS
<1>1. ListInv' /\ OpenedOnce'
  BY ListStep, OpenedStep DEF WholeInv
<1>2. ASSUME Shown(list') PROVE SearchShowsMatches' /\ ListType'
  BY <1>2, ShownType DEF Shown, Searched, SearchShowsMatches, ListType
<1>3. Shown(list)
  BY WholeShown
<1>4. CASE Publishing
  <2>1. UNCHANGED <<listVars, inputVars, detailVars>>
    BY <1>4 DEF Publishing, PublishRequest, PublishResponse, PublishTunnelFailed
  <2>2. SearchShowsMatches' /\ TypeOK'
    BY <2>1 DEF WholeInv, SearchShowsMatches, TypeOK, ListType, listVars, detailVars
  <2>3. WorkOK'
    BY <2>1 DEF WholeInv, WorkOK, listVars, inputVars, detailVars
  <2> QED BY <1>1, <2>2, <2>3 DEF WholeInv
<1>5. CASE Tick
  BY <1>1, <1>5 DEF Tick, Input, WholeInv, SearchShowsMatches, TypeOK, ListType, WorkOK, listVars,
     feedVars, detailVars
<1>6. CASE UserInput
  <2>1. /\ input'.kind = "click" => input'.arg \in Nat \ {0}
        /\ input'.kind = "select" =>
              input'.arg.found \in Seq(Files) /\ input'.arg.k \in DOMAIN input'.arg.found
    <3>1. CASE input' = Input("key", 0)
      BY <3>1 DEF Input
    <3>2. CASE \E i \in DOMAIN Drawn(list) : input' = Input("click", i)
      BY <1>3, <3>2, DrawnPositions DEF Input, Shown, Positions
    <3>3. ASSUME NEW text \in Texts, NEW k \in DOMAIN Found(text),
                 input' = Input("select", [found |-> Found(text), k |-> k])
          PROVE  /\ input'.kind # "click"
                 /\ input'.arg.found \in Seq(Files) /\ input'.arg.k \in DOMAIN input'.arg.found
      BY <3>3, FoundType DEF Input
    <3> QED BY <1>6, <3>1, <3>2, <3>3 DEF UserInput
  <2>2. UNCHANGED <<listVars, detailVars>>
    BY <1>6 DEF UserInput
  <2> QED BY <1>1, <2>1, <2>2 DEF WholeInv, SearchShowsMatches, TypeOK, ListType, WorkOK, listVars,
     detailVars
<1>7. CASE \E t \in {"message", "SslTls", "Info"} : SwitchTab(t)
  BY <1>1, <1>7 DEF SwitchTab, WholeInv, SearchShowsMatches, TypeOK, ListType, WorkOK, listVars,
     feedVars
<1>8. CASE ReceiveEvent
  <2>1. Shown(list') /\ failures' \subseteq Tunnels
    BY <1>8, ReceiveShown
  <2>2. SearchShowsMatches' /\ ListType'
    BY <1>2, <2>1
  <2>3. UNCHANGED <<diff, retained, input, detailVars>>
    BY <1>8 DEF ReceiveEvent
  <2>4. TypeOK' /\ WorkOK'
    BY <2>1, <2>2, <2>3 DEF WholeInv, TypeOK, WorkOK, detailVars
  <2> QED BY <1>1, <2>2, <2>4 DEF WholeInv
<1>9. CASE Handle
  <2>1. /\ Shown(list') /\ pending' \in Seq(UiEvents)
        /\ retained'.found \in Seq(Files) /\ DOMAIN retained' = {"found", "sel"}
        /\ retained'.found # <<>> => retained'.sel \in DOMAIN retained'.found
        /\ DOMAIN diff' = {"left", "right"} /\ {diff'.left, diff'.right} \subseteq Packets \cup {NoId}
        /\ input' = Idle /\ UNCHANGED <<failures, detail, tab>>
    BY <1>9, HandleWork
  <2>2. SearchShowsMatches' /\ ListType'
    BY <1>2, <2>1
  <2>3. TypeOK'
    BY <2>1, <2>2 DEF WholeInv, TypeOK
  <2>4. WorkOK'
    BY <2>1 DEF WorkOK, UiEvents, Idle, Input
  <2> QED BY <1>1, <2>2, <2>3, <2>4 DEF WholeInv
<1>10. CASE \E i \in DOMAIN pending : ReceiveUi(i)
  <2>1. PICK i \in DOMAIN pending : ReceiveUi(i)
    BY <1>10
  <2>2. pending \in Seq(UiEvents) /\ tab \in Tabs /\ detail \in [id : Packets \cup {NoId}, tunnel : BOOLEAN]
    BY DEF WholeInv, WorkOK, TypeOK, UiEvents, Tabs
  <2>3. i \in 1..Len(pending) /\ Len(pending) \in Nat
    BY <2>2
  <2>4. pending' = SubSeq(pending, 1, i - 1) \o SubSeq(pending, i + 1, Len(pending))
    BY <2>1 DEF ReceiveUi
  <2>5. pending' \in Seq(UiEvents)
    <3>1. SubSeq(pending, 1, i - 1) \in Seq(UiEvents) /\ SubSeq(pending, i + 1, Len(pending)) \in Seq(UiEvents)
      BY <2>2, <2>3
    <3> QED BY <2>4, <3>1
  <2>6. pending[i].id \in Packets \cup {NoId} /\ pending[i].tab \in Tabs \cup {"keep"}
    <3>1. pending[i] \in UiEvents
      BY <2>2
    <3> QED BY <3>1 DEF UiEvents
  <2>7. \A tunnel : TabFor(pending[i], tunnel) \in Tabs
    BY <2>2, <2>6 DEF TabFor, Tabs
  <2>8. detail' \in [id : Packets \cup {NoId}, tunnel : BOOLEAN] /\ tab' \in Tabs
    <3>1. CASE UNCHANGED <<detail, tab>>
      BY <2>2, <3>1
    <3>2. CASE \E tunnel \in TunnelInfo(pending[i]) :
                 /\ detail' = [id |-> pending[i].id, tunnel |-> tunnel]
                 /\ tab' = TabFor(pending[i], tunnel)
      <4>1. PICK tunnel \in TunnelInfo(pending[i]) :
              /\ detail' = [id |-> pending[i].id, tunnel |-> tunnel]
              /\ tab' = TabFor(pending[i], tunnel)
        BY <3>2
      <4>2. tunnel \in BOOLEAN
        BY DEF TunnelInfo
      <4>3. tab' \in Tabs
        BY <2>7, <4>1
      <4> HIDE DEF TunnelInfo
      <4>4. detail' \in [id : Packets \cup {NoId}, tunnel : BOOLEAN]
        BY ONLY <2>6, <4>1, <4>2
      <4> QED BY <4>3, <4>4
    <3> QED BY <2>1, <3>1, <3>2 DEF ReceiveUi
  <2>9. UNCHANGED <<listVars, inputVars>>
    BY <2>1 DEF ReceiveUi
  <2> QED BY <1>1, <2>5, <2>8, <2>9 DEF WholeInv, SearchShowsMatches, TypeOK, ListType, WorkOK, UiEvents,
     listVars, inputVars, Tabs
<1>11. CASE UNCHANGED vars
  BY <1>1, <1>11 DEF WholeInv, SearchShowsMatches, TypeOK, ListType, WorkOK, vars, listVars, inputVars,
     detailVars
<1> QED BY <1>4, <1>5, <1>6, <1>7, <1>8, <1>9, <1>10, <1>11 DEF Next

\* For any traffic, queries, results and limits: selections are positions, what is shown,
\* compared or listed is packets, and walking the results of a full-text search round and
\* round never leaves them (PacketListDelegate, RootPane).
THEOREM ListTypes == Spec => []TypeOK
<1>1. WholeInv => TypeOK
  BY DEF WholeInv
<1> QED BY <1>1, InitWhole, WholeStep, PTL DEF Spec

\* For any traffic and any query: while a search is on, what it lists is what it matches
\* in the order of the rows, through every row that comes, completes, is marked or
\* trimmed; only tunnels that failed may be missing (on_tunnel_failed).
THEOREM SearchIsRight == Spec => []SearchShowsMatches
<1>1. WholeInv => SearchShowsMatches
  BY DEF WholeInv
<1> QED BY <1>1, InitWhole, WholeStep, PTL DEF Spec

-----------------------------------------------------------------------------
(* The tab of the detail pane. *)

\* A tab of messages is never left open for the details of a tunnel that failed, in
\* whatever order details come back (set_content of the detail pane).
THEOREM TabFits == Spec => []TabIsOfDetail
<1>1. Init => TabIsOfDetail
  BY PacketListAssumption DEF Init, TabIsOfDetail
<1>2. TabIsOfDetail /\ [Next]_vars => TabIsOfDetail'
  <2> SUFFICES ASSUME TabIsOfDetail, [Next]_vars PROVE TabIsOfDetail'
    OBVIOUS
  <2>1. CASE \E i \in DOMAIN pending : ReceiveUi(i)
    <3>1. PICK i \in DOMAIN pending : ReceiveUi(i)
      BY <2>1
    <3>2. CASE UNCHANGED <<detail, tab>>
      BY <3>2 DEF TabIsOfDetail
    <3>3. CASE \E tunnel \in TunnelInfo(pending[i]) :
                 /\ detail' = [id |-> pending[i].id, tunnel |-> tunnel]
                 /\ tab' = TabFor(pending[i], tunnel)
      <4>1. PICK tunnel \in TunnelInfo(pending[i]) :
              /\ detail' = [id |-> pending[i].id, tunnel |-> tunnel]
              /\ tab' = TabFor(pending[i], tunnel)
        BY <3>3
      <4>2. detail'.id = pending[i].id /\ detail'.tunnel = tunnel
        BY ONLY <4>1
      <4>3. tunnel => pending[i].id \in Tunnels
        BY DEF TunnelInfo
      <4>4. tunnel => tab' # "message"
        BY <4>1 DEF TabFor
      <4> QED BY <4>2, <4>3, <4>4 DEF TabIsOfDetail
    <3> QED BY <3>1, <3>2, <3>3 DEF ReceiveUi
  <2>2. CASE \E t \in {"message", "SslTls", "Info"} : SwitchTab(t)
    BY <2>2 DEF SwitchTab, TabIsOfDetail
  <2>3. CASE Publishing
    BY <2>3 DEF Publishing, PublishRequest, PublishResponse, PublishTunnelFailed, detailVars,
       TabIsOfDetail
  <2>4. CASE Tick \/ UserInput \/ ReceiveEvent
    BY <2>4 DEF Tick, UserInput, ReceiveEvent, detailVars, TabIsOfDetail
  <2>5. CASE Handle
    BY <2>5 DEF Handle, HandleTick, MoveKey, EnterKey, HandleClick, ClearSearch, SearchUrl,
       InvalidQuery, SelectFound, MoveRetained, MarkDiff, ClearDiff, ExternalTool,
       OpenFilterStats, OpenEdit, Handling, TabIsOfDetail
  <2>6. CASE UNCHANGED vars
    BY <2>6 DEF vars, detailVars, TabIsOfDetail
  <2> QED BY <2>1, <2>2, <2>3, <2>4, <2>5, <2>6 DEF Next
<1> QED BY <1>1, <1>2, PTL DEF Spec

=============================================================================
