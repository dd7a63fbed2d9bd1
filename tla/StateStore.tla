----------------------------- MODULE StateStore -----------------------------
(***************************************************************************)
(* The state that filters keep between hooks (state_store.rs), as the      *)
(* threads that run filters use it (runtime_state.rs, filter_runtime.rs).  *)
(*                                                                         *)
(* A thread that runs a hook works under the flow key of the request and   *)
(* the name of the filter.  Every operation of the store reads the clock   *)
(* first and takes the lock second, so that operations are carried out in  *)
(* an order that need not be the order of their time stamps.               *)
(***************************************************************************)
EXTENDS Naturals, FiniteSets, Functions

CONSTANTS
    Threads,        \* worker threads that run filters
    Conns,          \* connection ids (flow keys)
    Filters,        \* filter names
    UserKeys,       \* keys a script uses
    Sizes,          \* lengths of the values scripts put
    Ttl,            \* limits.ttl, in ticks of the clock
    MaxEntry, MaxConnection, MaxFilter, MaxTotal,   \* the other limits, in bytes
    MaxTime,        \* bound: the clock stops here
    Idle            \* the state of a thread between two operations

ASSUME StoreAssumption ==
    /\ Sizes \subseteq Nat /\ Ttl \in Nat /\ MaxTime \in Nat
    /\ {MaxEntry, MaxConnection, MaxFilter, MaxTotal} \subseteq Nat

StateKeys == [conn : Conns, filter : Filters, key : UserKeys]

VARIABLES
    now,            \* the monotonic clock
    entries,        \* the live entries: a function on a set of keys
    connBytes,      \* connection_bytes; 0 stands for an absent counter
    filterBytes,    \* filter_bytes; the same
    totalBytes,     \* total_bytes
    op              \* the operation each thread waits for the lock with

index == <<entries, connBytes, filterBytes, totalBytes>>
vars  == <<now, index, op>>

-----------------------------------------------------------------------------
\* Instant::duration_since: never negative, though stamps may be out of order.
Age(at, since) == IF at > since THEN at - since ELSE 0

SaturatingSub(a, b) == IF a > b THEN a - b ELSE 0

\* The bytes that the entries of a set of keys really hold.
Bytes(keys) == SumFunctionOnSet([k \in keys |-> entries[k].size], keys)

OfConn(c)   == {k \in DOMAIN entries : k.conn = c}
OfFilter(n) == {k \in DOMAIN entries : k.filter = n}

\* Fault: whatever is dropped is taken off the counter of every connection.
Dropped_AnyConn(keys) ==
    [entries     |-> Restrict(entries, DOMAIN entries \ keys),
     connBytes   |-> [c \in Conns |-> SaturatingSub(connBytes[c], Bytes(keys))],
     filterBytes |-> [n \in Filters |-> SaturatingSub(filterBytes[n], Bytes(keys \cap OfFilter(n)))],
     totalBytes  |-> SaturatingSub(totalBytes, Bytes(keys))]

\* drop_entry for each of a set of live keys: the entries go, and what they
\* hold is taken off the three counters, none of which goes below zero.
Dropped(keys) ==
    [entries     |-> Restrict(entries, DOMAIN entries \ keys),
     connBytes   |-> [c \in Conns |-> SaturatingSub(connBytes[c], Bytes(keys \cap OfConn(c)))],
     filterBytes |-> [n \in Filters |-> SaturatingSub(filterBytes[n], Bytes(keys \cap OfFilter(n)))],
     totalBytes  |-> SaturatingSub(totalBytes, Bytes(keys))]

Install(new) ==
    /\ entries' = new.entries /\ connBytes' = new.connBytes
    /\ filterBytes' = new.filterBytes /\ totalBytes' = new.totalBytes

\* Fault: only idle entries are swept, so that a read keeps an entry for ever.
Expired_IdleOnly(at) ==
    {k \in DOMAIN entries : Age(at, entries[k].used) > Ttl}

\* sweep_expired_locked: entries too long unread, and entries too old.
Expired(at) ==
    {k \in DOMAIN entries : Age(at, entries[k].used) > Ttl \/ Age(at, entries[k].born) > Ttl}

-----------------------------------------------------------------------------
\* The operations that read the clock before they take the lock.
Requests ==
    [kind : {"get"}, key : StateKeys, at : 0..MaxTime]
      \cup [kind : {"put"}, key : StateKeys, size : Sizes, at : 0..MaxTime]
      \cup [kind : {"sweep"}, at : 0..MaxTime]

\* A hook calls the store, which reads the clock.  A value over
\* max_entry_bytes is turned away before that and changes nothing.
Call(t) ==
    /\ op[t] = Idle
    /\ \E request \in Requests :
          /\ request.at = now
          /\ request.kind = "put" => request.size <= MaxEntry
          /\ op' = [op EXCEPT ![t] = request]
    /\ UNCHANGED <<now, index>>

Return(t) == op' = [op EXCEPT ![t] = Idle] /\ UNCHANGED now

\* Fault: a read stores the time at which the entry will expire.
Get_StoresDeadline(t) ==
    /\ op[t] # Idle /\ op[t].kind = "get"
    /\ entries' = [k \in DOMAIN entries |->
                     IF k = op[t].key THEN [entries[k] EXCEPT !.used = op[t].at + Ttl]
                                      ELSE entries[k]]
    /\ Return(t) /\ UNCHANGED <<connBytes, filterBytes, totalBytes>>

\* get: an entry too long unread is dropped, any other is returned and its
\* time of last access set; the time of its creation is not looked at.
Get(t) ==
    /\ op[t] # Idle /\ op[t].kind = "get"
    /\ LET k == op[t].key IN
       \/ /\ k \notin DOMAIN entries
          /\ Return(t) /\ UNCHANGED index
       \/ /\ k \in DOMAIN entries /\ Age(op[t].at, entries[k].used) > Ttl
          /\ Install(Dropped({k})) /\ Return(t)
       \/ /\ k \in DOMAIN entries /\ Age(op[t].at, entries[k].used) <= Ttl
          /\ entries' = [entries EXCEPT ![k].used = op[t].at]
          /\ Return(t) /\ UNCHANGED <<connBytes, filterBytes, totalBytes>>

\* Fault: the limits are checked against what is held before the value is added.
Verdict_BeforeAdding(swept, k, delta) ==
    CASE swept.connBytes[k.conn] > MaxConnection -> "RejectedConnectionLimit"
      [] swept.filterBytes[k.filter] > MaxFilter -> "RejectedFilterLimit"
      [] OTHER -> IF k \in DOMAIN swept.entries THEN "Replaced" ELSE "Stored"

\* What put decides once the expired entries are gone, in the order of its checks.
Verdict(swept, k, delta) ==
    CASE swept.connBytes[k.conn] + delta > MaxConnection -> "RejectedConnectionLimit"
      [] swept.connBytes[k.conn] + delta <= MaxConnection
            /\ swept.filterBytes[k.filter] + delta > MaxFilter -> "RejectedFilterLimit"
      [] swept.connBytes[k.conn] + delta <= MaxConnection
            /\ swept.filterBytes[k.filter] + delta <= MaxFilter
            /\ swept.totalBytes + delta > MaxTotal -> "RejectedTotalLimit"
      [] OTHER -> IF k \in DOMAIN swept.entries THEN "Replaced" ELSE "Stored"

\* put: sweep, check the three limits against what the value adds, charge it.
\* A value that replaces a longer one adds nothing and gives nothing back.
Put(t) ==
    /\ op[t] # Idle /\ op[t].kind = "put"
    /\ LET k       == op[t].key
           swept   == Dropped(Expired(op[t].at))
           old     == IF k \in DOMAIN swept.entries THEN swept.entries[k].size ELSE 0
           delta   == SaturatingSub(op[t].size, old)
           verdict == Verdict(swept, k, delta)
           entry   == [size |-> op[t].size, born |-> op[t].at, used |-> op[t].at]
       IN /\ Install(IF verdict \in {"Stored", "Replaced"}
                     THEN [entries     |-> [x \in DOMAIN swept.entries \cup {k} |->
                                              IF x = k THEN entry ELSE swept.entries[x]],
                           connBytes   |-> [swept.connBytes EXCEPT ![k.conn] = @ + delta],
                           filterBytes |-> [swept.filterBytes EXCEPT ![k.filter] = @ + delta],
                           totalBytes  |-> swept.totalBytes + delta]
                     ELSE swept)
          /\ Return(t)

\* sweep_expired, before every hook of a matching filter.
SweepExpired(t) ==
    /\ op[t] # Idle /\ op[t].kind = "sweep"
    /\ Install(Dropped(Expired(op[t].at)))
    /\ Return(t)

\* delete reads no clock: the lock is all it waits for.
Delete(t) ==
    /\ op[t] = Idle
    /\ \E k \in DOMAIN entries : Install(Dropped({k}))
    /\ UNCHANGED <<now, op>>

\* Time passes.
Tick ==
    /\ now < MaxTime
    /\ now' = now + 1
    /\ UNCHANGED <<index, op>>

Init ==
    /\ now = 0
    /\ entries = [k \in {} |-> 0]
    /\ connBytes = [c \in Conns |-> 0]
    /\ filterBytes = [n \in Filters |-> 0]
    /\ totalBytes = 0
    /\ op = [t \in Threads |-> Idle]

Locked(t) == Get(t) \/ Put(t) \/ SweepExpired(t)

Next == Tick \/ \E t \in Threads : Call(t) \/ Locked(t) \/ Delete(t)

\* The lock is always released, so an operation that was called is carried
\* out; and time does not stand still.
Fairness == WF_vars(Tick) /\ \A t \in Threads : WF_vars(Locked(t))

Spec == Init /\ [][Next]_vars /\ Fairness

-----------------------------------------------------------------------------
(* Properties.                                                             *)

\* The types of the store's index and of the operations under way.
TypeOK ==
    /\ now \in 0..MaxTime
    /\ DOMAIN entries \subseteq StateKeys
    /\ \A k \in DOMAIN entries :
          entries[k] \in [size : Sizes, born : 0..MaxTime, used : 0..MaxTime]
    /\ connBytes \in [Conns -> Nat] /\ filterBytes \in [Filters -> Nat] /\ totalBytes \in Nat
    /\ op \in [Threads -> Requests \cup {Idle}]

\* The three counters never say less than the entries they stand for hold,
\* whatever was replaced, dropped, swept or turned away, and in which order:
\* saturating_sub never hides a byte that is still stored.
CountersCover ==
    /\ \A c \in Conns : connBytes[c] >= Bytes(OfConn(c))
    /\ \A n \in Filters : filterBytes[n] >= Bytes(OfFilter(n))
    /\ totalBytes >= Bytes(DOMAIN entries)

\* What is stored stays within the configured limits (README, filter_state):
\* per entry, per connection, per filter and in all.
WithinLimits ==
    /\ \A k \in DOMAIN entries : entries[k].size <= MaxEntry
    /\ \A c \in Conns : Bytes(OfConn(c)) <= MaxConnection
    /\ \A n \in Filters : Bytes(OfFilter(n)) <= MaxFilter
    /\ Bytes(DOMAIN entries) <= MaxTotal

\* The limits that put keeps to are those of the counters; and what waits to
\* be put has passed the check of its own length.
LimitsInv ==
    /\ \A c \in Conns : connBytes[c] <= MaxConnection
    /\ \A n \in Filters : filterBytes[n] <= MaxFilter
    /\ totalBytes <= MaxTotal
    /\ \A k \in DOMAIN entries : entries[k].size <= MaxEntry
    /\ \A t \in Threads : op[t] # Idle /\ op[t].kind = "put" => op[t].size <= MaxEntry

\* The inductive invariant: only what the counters cover and keep within the
\* limits is within the limits itself.
StoreInv == TypeOK /\ IsFiniteSet(DOMAIN entries) /\ CountersCover /\ LimitsInv

\* After a sweep nothing is left that was put longer ago than the time to live,
\* however often and by whomever it has been read since.
SweepIsThorough ==
    [][\A t \in Threads : (op[t] # Idle /\ op[t].kind # "get" /\ op'[t] = Idle) =>
          \A k \in DOMAIN entries' :
              Age(op[t].at, entries'[k].born) <= Ttl /\ Age(op[t].at, entries'[k].used) <= Ttl]_vars

\* A put that is turned away is one whose value did not fit: with it, what the
\* connection, the filter or the store holds would be over its limit.
RejectedOnlyWhenFull ==
    [][\A t \in Threads : (op[t] # Idle /\ op[t].kind = "put" /\ op'[t] = Idle) =>
          LET k == op[t].key
              others == DOMAIN entries' \ {k}
              Held(keys) == SumFunctionOnSet([x \in keys |-> entries'[x].size], keys)
          IN \/ k \in DOMAIN entries' /\ entries'[k].size = op[t].size
             \/ Held({x \in others : x.conn = k.conn}) + op[t].size > MaxConnection
             \/ Held({x \in others : x.filter = k.filter}) + op[t].size > MaxFilter
             \/ Held(others) + op[t].size > MaxTotal]_vars

=============================================================================
