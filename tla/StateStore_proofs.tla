-------------------------- MODULE StateStore_proofs --------------------------
(***************************************************************************)
(* Proofs about the filter state store, for any number of threads,         *)
(* connections, filters, keys and value lengths, and any limits.           *)
(*                                                                         *)
(* The store's index is treated as four values (entries and counters), so  *)
(* that what a sweep leaves behind inside put can be reasoned about like   *)
(* the state of the store itself.                                          *)
(***************************************************************************)
EXTENDS StateStore, FoldTheorems

Entry == [size : Sizes, born : 0..MaxTime, used : 0..MaxTime]

\* The bytes that the entries e of a set of keys hold.
Held(e, keys) == SumFunctionOnSet([k \in keys |-> e[k].size], keys)

ConnKeys(e, c)   == {k \in DOMAIN e : k.conn = c}
FilterKeys(e, n) == {k \in DOMAIN e : k.filter = n}

GoodEntries(e) ==
    /\ DOMAIN e \subseteq StateKeys /\ IsFiniteSet(DOMAIN e)
    /\ \A k \in DOMAIN e : e[k] \in Entry /\ e[k].size <= MaxEntry

\* A counter covers the entries it stands for and is within its limit.
GoodCounter(b, e, keys, limit) == b \in Nat /\ Held(e, keys) <= b /\ b <= limit

Good(e, cb, fb, tb) ==
    /\ GoodEntries(e)
    /\ cb \in [Conns -> Nat] /\ \A c \in Conns : GoodCounter(cb[c], e, ConnKeys(e, c), MaxConnection)
    /\ fb \in [Filters -> Nat] /\ \A n \in Filters : GoodCounter(fb[n], e, FilterKeys(e, n), MaxFilter)
    /\ GoodCounter(tb, e, DOMAIN e, MaxTotal)

OpsOK ==
    /\ now \in 0..MaxTime
    /\ op \in [Threads -> Requests \cup {Idle}]
    /\ \A t \in Threads : op[t] # Idle /\ op[t].kind = "put" => op[t].size <= MaxEntry

-----------------------------------------------------------------------------
(* Bytes held.                                                             *)

\* The entries of any of the keys have sizes, which add up to a number; and
\* what is held depends on the sizes alone.
LEMMA HeldFacts ==
    ASSUME NEW e, NEW D, IsFiniteSet(D), \A k \in D : e[k].size \in Nat
    PROVE  /\ Held(e, D) \in Nat
           /\ \A K \in SUBSET D :
                 /\ Held(e, K) \in Nat /\ Held(e, D \ K) \in Nat
                 /\ Held(e, D) = Held(e, K) + Held(e, D \ K)
           /\ \A e2 : (\A k \in D : e2[k].size = e[k].size) => Held(e2, D) = Held(e, D)
<1> DEFINE f == [k \in D |-> e[k].size]
<1>1. \A k \in D : f[k] \in Nat
  OBVIOUS
<1>2. ASSUME NEW K \in SUBSET D PROVE Held(e, K) = SumFunctionOnSet(f, K) /\ IsFiniteSet(K)
  <2>1. IsFiniteSet(K)
    BY FS_Subset
  <2>2. SumFunctionOnSet([k \in K |-> e[k].size], K) = SumFunctionOnSet(f, K)
    BY <2>1, SumAgree
  <2> QED BY <2>1, <2>2 DEF Held
<1>3. ASSUME NEW e2, \A k \in D : e2[k].size = e[k].size PROVE Held(e2, D) = Held(e, D)
  BY <1>3, SumAgree DEF Held
<1> HIDE DEF f
<1>4. Held(e, D) \in Nat
  BY <1>1, <1>2, SumNat
<1>5. ASSUME NEW K \in SUBSET D
      PROVE  /\ Held(e, K) \in Nat /\ Held(e, D \ K) \in Nat
             /\ Held(e, D) = Held(e, K) + Held(e, D \ K)
  <2>1. /\ SumFunctionOnSet(f, D) = SumFunctionOnSet(f, K) + SumFunctionOnSet(f, D \ K)
        /\ {SumFunctionOnSet(f, D), SumFunctionOnSet(f, K), SumFunctionOnSet(f, D \ K)} \subseteq Nat
    BY <1>1, SumSplit
  <2>2. D \in SUBSET D /\ D \ K \in SUBSET D
    OBVIOUS
  <2>3. /\ Held(e, D) = SumFunctionOnSet(f, D) /\ Held(e, K) = SumFunctionOnSet(f, K)
        /\ Held(e, D \ K) = SumFunctionOnSet(f, D \ K)
    BY <1>2, <2>2
  <2> QED BY <2>1, <2>3
<1> QED BY <1>3, <1>4, <1>5

\* What one entry holds.
LEMMA HeldOne ==
    ASSUME NEW e, NEW k, e[k].size \in Nat
    PROVE  Held(e, {k}) = e[k].size
<1> DEFINE f == [x \in {k} |-> e[x].size]
<1>1. f[k] = e[k].size /\ \A x \in {k} : f[x] \in Nat
  OBVIOUS
<1>2. {k} \ {k} = {} /\ k \in {k} /\ IsFiniteSet({k})
  BY FS_Singleton
<1>3. Held(e, {k}) = SumFunctionOnSet(f, {k})
  BY DEF Held
<1> HIDE DEF f
<1>4. SumFunctionOnSet(f, {k}) = f[k] + SumFunctionOnSet(f, {k} \ {k})
  BY <1>1, <1>2, SumRemove
<1>5. SumFunctionOnSet(f, {k} \ {k}) = 0
  BY <1>2, SumEmpty
<1> QED BY <1>1, <1>3, <1>4, <1>5

\* drop_entry, for one counter: what goes is taken off, what stays is covered.
LEMMA CounterDrop ==
    ASSUME NEW e, NEW D, IsFiniteSet(D), \A k \in D : e[k].size \in Nat,
           NEW limit \in Nat, NEW b, GoodCounter(b, e, D, limit), NEW keys \in SUBSET D,
           NEW e2, \A k \in D \ keys : e2[k] = e[k]
    PROVE  GoodCounter(SaturatingSub(b, Held(e, keys)), e2, D \ keys, limit)
<1>1. /\ Held(e, keys) \in Nat /\ Held(e, D \ keys) \in Nat
      /\ Held(e, D) = Held(e, keys) + Held(e, D \ keys)
  BY HeldFacts
<1>2. Held(e2, D \ keys) = Held(e, D \ keys)
  <2>1. IsFiniteSet(D \ keys)
    BY FS_Subset
  <2>2. (\A k \in D \ keys : e2[k].size = e[k].size) => Held(e2, D \ keys) = Held(e, D \ keys)
    BY <2>1, HeldFacts
  <2> QED BY <2>2
<1>3. b \in Nat /\ Held(e, D) <= b /\ b <= limit
  BY DEF GoodCounter
<1> QED BY <1>1, <1>2, <1>3 DEF GoodCounter, SaturatingSub

\* put, for one counter: it grows by what the new value is longer than the old
\* one, and still covers when the new one is shorter.
LEMMA CounterPut ==
    ASSUME NEW e, NEW D, IsFiniteSet(D), \A x \in D : e[x].size \in Nat,
           NEW limit \in Nat, NEW b, GoodCounter(b, e, D, limit),
           NEW k, NEW size \in Nat, NEW old, old = (IF k \in D THEN e[k].size ELSE 0),
           NEW e2, e2[k].size = size, \A x \in D \ {k} : e2[x] = e[x],
           b + SaturatingSub(size, old) <= limit
    PROVE  GoodCounter(b + SaturatingSub(size, old), e2, D \cup {k}, limit)
<1> DEFINE rest == D \ {k}
<1>1. IsFiniteSet(D \cup {k}) /\ IsFiniteSet(rest) /\ IsFiniteSet({k})
  BY FS_AddElement, FS_Subset, FS_Singleton
<1>2. \A x \in D \cup {k} : e2[x].size \in Nat
  OBVIOUS
<1>3. /\ Held(e2, D \cup {k}) = Held(e2, {k}) + Held(e2, rest)
      /\ Held(e2, {k}) \in Nat /\ Held(e2, rest) \in Nat
  <2>1. (D \cup {k}) \ {k} = rest /\ {k} \in SUBSET (D \cup {k})
    OBVIOUS
  <2> HIDE DEF rest
  <2> QED BY <1>1, <1>2, <2>1, HeldFacts
<1>4. Held(e2, {k}) = size
  BY HeldOne
<1>5. Held(e2, rest) = Held(e, rest)
  <2>1. \A x \in rest : e2[x].size = e[x].size /\ e[x].size \in Nat
    OBVIOUS
  <2> HIDE DEF rest
  <2> QED BY <1>1, <2>1, HeldFacts
<1>6. Held(e, D) = old + Held(e, rest) /\ old \in Nat
  <2>1. CASE k \in D
    <3>1. Held(e, D) = Held(e, {k}) + Held(e, rest)
      BY <2>1, HeldFacts
    <3>2. Held(e, {k}) = e[k].size
      BY <2>1, HeldOne
    <3> QED BY <2>1, <3>1, <3>2
  <2>2. CASE k \notin D
    <3>1. rest = D /\ old = 0
      BY <2>2
    <3>2. Held(e, D) \in Nat
      BY HeldFacts
    <3> QED BY <3>1, <3>2
  <2> QED BY <2>1, <2>2
<1>7. b \in Nat /\ Held(e, D) <= b
  BY DEF GoodCounter
<1> DEFINE r == Held(e2, rest)
<1>8. /\ Held(e2, D \cup {k}) = size + r /\ r \in Nat /\ old \in Nat /\ old + r <= b
  BY <1>3, <1>4, <1>5, <1>6, <1>7
<1> HIDE DEF r
<1>9. SaturatingSub(size, old) \in Nat /\ size <= old + SaturatingSub(size, old)
  BY <1>8 DEF SaturatingSub
<1> QED BY <1>7, <1>8, <1>9 DEF GoodCounter

-----------------------------------------------------------------------------
(* The index.                                                              *)

\* The limits are numbers, and so is the length of every entry.
LEMMA LimitTypes ==
    /\ MaxEntry \in Nat /\ MaxConnection \in Nat /\ MaxFilter \in Nat /\ MaxTotal \in Nat
    /\ \A s \in Sizes : s \in Nat
    /\ \A e : GoodEntries(e) => \A k \in DOMAIN e : e[k].size \in Nat
BY StoreAssumption DEF GoodEntries, Entry

\* The invariant, said of the index and of the operations.
LEMMA IndexForm == StoreInv <=> Good(entries, connBytes, filterBytes, totalBytes) /\ OpsOK
<1>1. ASSUME NEW keys PROVE Bytes(keys) = Held(entries, keys)
  BY DEF Bytes, Held
<1>2. ASSUME NEW c \in Conns PROVE Bytes(OfConn(c)) = Held(entries, ConnKeys(entries, c))
  BY DEF Bytes, Held, OfConn, ConnKeys
<1>3. ASSUME NEW n \in Filters PROVE Bytes(OfFilter(n)) = Held(entries, FilterKeys(entries, n))
  BY DEF Bytes, Held, OfFilter, FilterKeys
<1>4. Bytes(DOMAIN entries) = Held(entries, DOMAIN entries)
  BY <1>1
<1>5. ASSUME StoreInv PROVE Good(entries, connBytes, filterBytes, totalBytes) /\ OpsOK
  <2>1. GoodEntries(entries) /\ OpsOK
    BY <1>5 DEF StoreInv, TypeOK, LimitsInv, GoodEntries, OpsOK, Entry
  <2>2. ASSUME NEW c \in Conns PROVE GoodCounter(connBytes[c], entries, ConnKeys(entries, c), MaxConnection)
    <3>1. connBytes[c] \in Nat /\ connBytes[c] >= Bytes(OfConn(c)) /\ connBytes[c] <= MaxConnection
      BY <1>5 DEF StoreInv, TypeOK, LimitsInv, CountersCover
    <3>2. Held(entries, ConnKeys(entries, c)) <= connBytes[c]
      BY <1>2, <3>1
    <3> QED BY <3>1, <3>2 DEF GoodCounter
  <2>3. ASSUME NEW n \in Filters PROVE GoodCounter(filterBytes[n], entries, FilterKeys(entries, n), MaxFilter)
    <3>1. filterBytes[n] \in Nat /\ filterBytes[n] >= Bytes(OfFilter(n)) /\ filterBytes[n] <= MaxFilter
      BY <1>5 DEF StoreInv, TypeOK, LimitsInv, CountersCover
    <3>2. Held(entries, FilterKeys(entries, n)) <= filterBytes[n]
      BY <1>3, <3>1
    <3> QED BY <3>1, <3>2 DEF GoodCounter
  <2>4. GoodCounter(totalBytes, entries, DOMAIN entries, MaxTotal)
    BY <1>4, <1>5 DEF StoreInv, TypeOK, LimitsInv, CountersCover, GoodCounter
  <2>5. connBytes \in [Conns -> Nat] /\ filterBytes \in [Filters -> Nat]
    BY <1>5 DEF StoreInv, TypeOK
  <2> QED BY <2>1, <2>2, <2>3, <2>4, <2>5 DEF Good
<1>6. ASSUME Good(entries, connBytes, filterBytes, totalBytes), OpsOK PROVE StoreInv
  <2>1. ASSUME NEW c \in Conns PROVE connBytes[c] >= Bytes(OfConn(c)) /\ connBytes[c] <= MaxConnection
    BY <1>2, <1>6 DEF Good, GoodCounter
  <2>2. ASSUME NEW n \in Filters PROVE filterBytes[n] >= Bytes(OfFilter(n)) /\ filterBytes[n] <= MaxFilter
    BY <1>3, <1>6 DEF Good, GoodCounter
  <2>3. totalBytes \in Nat /\ totalBytes >= Bytes(DOMAIN entries) /\ totalBytes <= MaxTotal
    BY <1>4, <1>6 DEF Good, GoodCounter
  <2>4. CountersCover
    BY <2>1, <2>2, <2>3 DEF CountersCover
  <2>5. LimitsInv
    BY <1>6, <2>1, <2>2, <2>3 DEF LimitsInv, Good, GoodEntries, OpsOK
  <2>6. TypeOK /\ IsFiniteSet(DOMAIN entries)
    BY <1>6, <2>3 DEF TypeOK, Good, GoodEntries, OpsOK, Entry
  <2> QED BY <2>4, <2>5, <2>6 DEF StoreInv
<1> QED BY <1>5, <1>6

\* Whatever live keys are dropped, the index stays good.
LEMMA DropGood ==
    ASSUME Good(entries, connBytes, filterBytes, totalBytes), NEW keys \in SUBSET DOMAIN entries,
           NEW new, new = Dropped(keys)
    PROVE  /\ Good(new.entries, new.connBytes, new.filterBytes, new.totalBytes)
           /\ DOMAIN new.entries = DOMAIN entries \ keys
           /\ \A k \in DOMAIN new.entries : new.entries[k] = entries[k]
<1> DEFINE e2 == Restrict(entries, DOMAIN entries \ keys)
<1>1. /\ new.entries = e2
      /\ new.connBytes = [c \in Conns |-> SaturatingSub(connBytes[c], Held(entries, keys \cap ConnKeys(entries, c)))]
      /\ new.filterBytes = [n \in Filters |-> SaturatingSub(filterBytes[n], Held(entries, keys \cap FilterKeys(entries, n)))]
      /\ new.totalBytes = SaturatingSub(totalBytes, Held(entries, keys))
  BY DEF Dropped, Bytes, Held, OfConn, OfFilter, ConnKeys, FilterKeys
<1>2. DOMAIN e2 = DOMAIN entries \ keys /\ \A k \in DOMAIN e2 : e2[k] = entries[k]
  BY DEF Restrict
<1> HIDE DEF e2
<1>3. GoodEntries(entries) /\ IsFiniteSet(DOMAIN entries) /\ \A k \in DOMAIN entries : entries[k].size \in Nat
  BY LimitTypes DEF Good, GoodEntries
<1>4. GoodEntries(e2)
  BY <1>2, <1>3, FS_Subset DEF GoodEntries
<1>5. ASSUME NEW D \in SUBSET DOMAIN entries, NEW limit \in Nat, NEW b, GoodCounter(b, entries, D, limit)
      PROVE  /\ GoodCounter(SaturatingSub(b, Held(entries, keys \cap D)), e2, D \ keys, limit)
             /\ SaturatingSub(b, Held(entries, keys \cap D)) \in Nat
  <2> DEFINE gone == keys \cap D
  <2>1. IsFiniteSet(D) /\ \A k \in D : entries[k].size \in Nat
    BY <1>3, FS_Subset
  <2>2. gone \in SUBSET D /\ (\A k \in D \ gone : e2[k] = entries[k]) /\ D \ gone = D \ keys
    BY <1>2
  <2> HIDE DEF gone
  <2>3. GoodCounter(SaturatingSub(b, Held(entries, gone)), e2, D \ gone, limit)
    BY <1>5, <2>1, <2>2, CounterDrop
  <2> QED BY <2>2, <2>3 DEF GoodCounter, gone
<1>6. ASSUME NEW c \in Conns
      PROVE  /\ GoodCounter(new.connBytes[c], e2, ConnKeys(e2, c), MaxConnection)
             /\ new.connBytes[c] \in Nat
  <2>1. ConnKeys(entries, c) \in SUBSET DOMAIN entries /\ ConnKeys(e2, c) = ConnKeys(entries, c) \ keys
    BY <1>2 DEF ConnKeys
  <2>2. GoodCounter(connBytes[c], entries, ConnKeys(entries, c), MaxConnection)
    BY DEF Good
  <2>3. new.connBytes[c] = SaturatingSub(connBytes[c], Held(entries, keys \cap ConnKeys(entries, c)))
    BY <1>1
  <2> QED BY <1>5, <2>1, <2>2, <2>3, LimitTypes
<1>7. ASSUME NEW n \in Filters
      PROVE  /\ GoodCounter(new.filterBytes[n], e2, FilterKeys(e2, n), MaxFilter)
             /\ new.filterBytes[n] \in Nat
  <2>1. FilterKeys(entries, n) \in SUBSET DOMAIN entries /\ FilterKeys(e2, n) = FilterKeys(entries, n) \ keys
    BY <1>2 DEF FilterKeys
  <2>2. GoodCounter(filterBytes[n], entries, FilterKeys(entries, n), MaxFilter)
    BY DEF Good
  <2>3. new.filterBytes[n] = SaturatingSub(filterBytes[n], Held(entries, keys \cap FilterKeys(entries, n)))
    BY <1>1
  <2> QED BY <1>5, <2>1, <2>2, <2>3, LimitTypes
<1>8. GoodCounter(new.totalBytes, e2, DOMAIN e2, MaxTotal)
  <2>1. keys \cap DOMAIN entries = keys /\ DOMAIN entries \in SUBSET DOMAIN entries
    OBVIOUS
  <2>2. GoodCounter(totalBytes, entries, DOMAIN entries, MaxTotal)
    BY DEF Good
  <2> QED BY <1>1, <1>2, <1>5, <2>1, <2>2, LimitTypes
<1>9. new.connBytes \in [Conns -> Nat] /\ new.filterBytes \in [Filters -> Nat]
  BY <1>1, <1>6, <1>7
<1> QED BY <1>1, <1>2, <1>4, <1>6, <1>7, <1>8, <1>9 DEF Good

\* A value that fits within the three limits can be stored.
LEMMA PutGood ==
    ASSUME NEW e, NEW cb, NEW fb, NEW tb, Good(e, cb, fb, tb),
           NEW k \in StateKeys, NEW entry \in Entry, entry.size <= MaxEntry,
           NEW old, old = (IF k \in DOMAIN e THEN e[k].size ELSE 0),
           NEW delta, delta = SaturatingSub(entry.size, old),
           cb[k.conn] + delta <= MaxConnection, fb[k.filter] + delta <= MaxFilter,
           tb + delta <= MaxTotal,
           NEW e2, e2 = [x \in DOMAIN e \cup {k} |-> IF x = k THEN entry ELSE e[x]]
    PROVE  Good(e2, [cb EXCEPT ![k.conn] = @ + delta], [fb EXCEPT ![k.filter] = @ + delta], tb + delta)
<1> DEFINE cb2 == [cb EXCEPT ![k.conn] = @ + delta]
           fb2 == [fb EXCEPT ![k.filter] = @ + delta]
<1>1. /\ DOMAIN e2 = DOMAIN e \cup {k} /\ e2[k] = entry
      /\ \A x \in DOMAIN e \ {k} : e2[x] = e[x]
  OBVIOUS
<1>2. k.conn \in Conns /\ k.filter \in Filters
  BY DEF StateKeys
<1>3. /\ GoodEntries(e) /\ IsFiniteSet(DOMAIN e) /\ (\A x \in DOMAIN e : e[x].size \in Nat)
      /\ entry.size \in Nat /\ old \in Nat /\ delta \in Nat
  BY LimitTypes DEF Good, GoodEntries, Entry, SaturatingSub
<1>4. GoodEntries(e2)
  <2>1. IsFiniteSet(DOMAIN e2)
    BY <1>1, <1>3, FS_AddElement
  <2> QED BY <1>1, <1>3, <2>1 DEF GoodEntries
<1>5. ASSUME NEW D \in SUBSET DOMAIN e, NEW limit \in Nat, NEW b, GoodCounter(b, e, D, limit)
      PROVE  /\ k \notin D => GoodCounter(b, e2, D, limit)
             /\ (k \in DOMAIN e => k \in D) /\ b + delta <= limit
                   => GoodCounter(b + delta, e2, D \cup {k}, limit)
  <2>1. IsFiniteSet(D) /\ \A x \in D : e[x].size \in Nat
    BY <1>3, FS_Subset
  <2>2. ASSUME k \notin D PROVE GoodCounter(b, e2, D, limit)
    <3>1. \A x \in D : e2[x].size = e[x].size
      BY <1>1, <2>2
    <3>2. Held(e2, D) = Held(e, D)
      BY <2>1, <3>1, HeldFacts
    <3> QED BY <1>5, <3>2 DEF GoodCounter
  <2>3. ASSUME k \in DOMAIN e => k \in D, b + delta <= limit
        PROVE  GoodCounter(b + delta, e2, D \cup {k}, limit)
    <3>1. old = (IF k \in D THEN e[k].size ELSE 0)
      BY <2>3
    <3>2. e2[k].size = entry.size /\ \A x \in D \ {k} : e2[x] = e[x]
      BY <1>1
    <3> QED BY <1>3, <1>5, <2>1, <2>3, <3>1, <3>2, CounterPut
  <2> QED BY <2>2, <2>3
<1>6. /\ cb \in [Conns -> Nat] /\ fb \in [Filters -> Nat] /\ tb \in Nat
      /\ \A c \in Conns : GoodCounter(cb[c], e, ConnKeys(e, c), MaxConnection)
      /\ \A n \in Filters : GoodCounter(fb[n], e, FilterKeys(e, n), MaxFilter)
      /\ GoodCounter(tb, e, DOMAIN e, MaxTotal)
  BY DEF Good, GoodCounter
<1>7. cb2 \in [Conns -> Nat] /\ fb2 \in [Filters -> Nat]
  BY <1>2, <1>3, <1>6
<1>8. ASSUME NEW c \in Conns PROVE GoodCounter(cb2[c], e2, ConnKeys(e2, c), MaxConnection)
  <2>1. ConnKeys(e, c) \in SUBSET DOMAIN e
    BY DEF ConnKeys
  <2>2. CASE c = k.conn
    <3>1. ConnKeys(e2, c) = ConnKeys(e, c) \cup {k} /\ (k \in DOMAIN e => k \in ConnKeys(e, c))
      BY <1>1, <2>2 DEF ConnKeys
    <3>2. cb2[c] = cb[c] + delta
      BY <1>6, <2>2
    <3>3. cb[c] + delta <= MaxConnection /\ MaxConnection \in Nat
      BY <2>2, LimitTypes
    <3>4. GoodCounter(cb[c], e, ConnKeys(e, c), MaxConnection)
      BY <1>6
    <3> HIDE DEF cb2
    <3>5. GoodCounter(cb[c] + delta, e2, ConnKeys(e, c) \cup {k}, MaxConnection)
      BY <1>5, <2>1, <3>1, <3>3, <3>4
    <3> QED BY <3>1, <3>2, <3>5
  <2>3. CASE c # k.conn
    <3>1. ConnKeys(e2, c) = ConnKeys(e, c) /\ k \notin ConnKeys(e, c)
      BY <1>1, <2>3 DEF ConnKeys
    <3>2. cb2[c] = cb[c]
      BY <1>6, <2>3
    <3> QED BY <1>5, <1>6, <2>1, <3>1, <3>2, LimitTypes
  <2> QED BY <2>2, <2>3
<1>9. ASSUME NEW n \in Filters PROVE GoodCounter(fb2[n], e2, FilterKeys(e2, n), MaxFilter)
  <2>1. FilterKeys(e, n) \in SUBSET DOMAIN e
    BY DEF FilterKeys
  <2>2. CASE n = k.filter
    <3>1. FilterKeys(e2, n) = FilterKeys(e, n) \cup {k} /\ (k \in DOMAIN e => k \in FilterKeys(e, n))
      BY <1>1, <2>2 DEF FilterKeys
    <3>2. fb2[n] = fb[n] + delta
      BY <1>6, <2>2
    <3>3. fb[n] + delta <= MaxFilter /\ MaxFilter \in Nat
      BY <2>2, LimitTypes
    <3>4. GoodCounter(fb[n], e, FilterKeys(e, n), MaxFilter)
      BY <1>6
    <3> HIDE DEF fb2
    <3>5. GoodCounter(fb[n] + delta, e2, FilterKeys(e, n) \cup {k}, MaxFilter)
      BY <1>5, <2>1, <3>1, <3>3, <3>4
    <3> QED BY <3>1, <3>2, <3>5
  <2>3. CASE n # k.filter
    <3>1. FilterKeys(e2, n) = FilterKeys(e, n) /\ k \notin FilterKeys(e, n)
      BY <1>1, <2>3 DEF FilterKeys
    <3>2. fb2[n] = fb[n]
      BY <1>6, <2>3
    <3> QED BY <1>5, <1>6, <2>1, <3>1, <3>2, LimitTypes
  <2> QED BY <2>2, <2>3
<1>10. GoodCounter(tb + delta, e2, DOMAIN e2, MaxTotal)
  BY <1>1, <1>5, <1>6, LimitTypes
<1> HIDE DEF cb2, fb2
<1>11. Good(e2, cb2, fb2, tb + delta)
  BY <1>4, <1>7, <1>8, <1>9, <1>10 DEF Good
<1> QED BY <1>11 DEF cb2, fb2

\* A read changes no more than the time of last access.
LEMMA TouchGood ==
    ASSUME NEW e, NEW cb, NEW fb, NEW tb, Good(e, cb, fb, tb), NEW e2, GoodEntries(e2),
           DOMAIN e2 = DOMAIN e, \A k \in DOMAIN e : e2[k].size = e[k].size
    PROVE  Good(e2, cb, fb, tb)
<1>1. IsFiniteSet(DOMAIN e) /\ \A k \in DOMAIN e : e[k].size \in Nat
  BY LimitTypes DEF Good, GoodEntries
<1>2. ASSUME NEW D \in SUBSET DOMAIN e PROVE Held(e2, D) = Held(e, D)
  <2>1. IsFiniteSet(D) /\ \A k \in D : e[k].size \in Nat /\ e2[k].size = e[k].size
    BY <1>1, FS_Subset
  <2> QED BY <2>1, HeldFacts
<1>3. \A c : ConnKeys(e2, c) = ConnKeys(e, c) /\ ConnKeys(e, c) \in SUBSET DOMAIN e
  BY DEF ConnKeys
<1>4. \A n : FilterKeys(e2, n) = FilterKeys(e, n) /\ FilterKeys(e, n) \in SUBSET DOMAIN e
  BY DEF FilterKeys
<1>5. \A c \in Conns : GoodCounter(cb[c], e2, ConnKeys(e2, c), MaxConnection)
  BY <1>2, <1>3 DEF Good, GoodCounter
<1>6. \A n \in Filters : GoodCounter(fb[n], e2, FilterKeys(e2, n), MaxFilter)
  BY <1>2, <1>4 DEF Good, GoodCounter
<1>7. GoodCounter(tb, e2, DOMAIN e2, MaxTotal)
  BY <1>2 DEF Good, GoodCounter
<1> QED BY <1>5, <1>6, <1>7 DEF Good

\* put stores only what fits.
LEMMA VerdictFits ==
    ASSUME NEW swept, NEW k, NEW delta \in Nat,
           swept.connBytes[k.conn] \in Nat, swept.filterBytes[k.filter] \in Nat, swept.totalBytes \in Nat,
           Verdict(swept, k, delta) \in {"Stored", "Replaced"}
    PROVE  /\ swept.connBytes[k.conn] + delta <= MaxConnection
           /\ swept.filterBytes[k.filter] + delta <= MaxFilter
           /\ swept.totalBytes + delta <= MaxTotal
<1> DEFINE a == swept.connBytes[k.conn] + delta
           b == swept.filterBytes[k.filter] + delta
           c == swept.totalBytes + delta
           v == Verdict(swept, k, delta)
<1>1. a \in Nat /\ b \in Nat /\ c \in Nat
  OBVIOUS
<1>2. /\ a > MaxConnection => v = "RejectedConnectionLimit"
      /\ a <= MaxConnection /\ b > MaxFilter => v = "RejectedFilterLimit"
      /\ a <= MaxConnection /\ b <= MaxFilter /\ c > MaxTotal => v = "RejectedTotalLimit"
  BY <1>1, LimitTypes DEF Verdict
<1>3. v \in {"Stored", "Replaced"}
  OBVIOUS
<1> HIDE DEF a, b, c, v
<1>4. a <= MaxConnection /\ b <= MaxFilter /\ c <= MaxTotal
  BY <1>1, <1>2, <1>3, LimitTypes
<1> QED BY <1>4 DEF a, b, c

-----------------------------------------------------------------------------
(* The invariant.                                                          *)

\* What an operation under way carries.
LEMMA RequestFacts ==
    ASSUME OpsOK, NEW t \in Threads, op[t] # Idle
    PROVE  /\ op[t].kind \in {"get", "put", "sweep"}
           /\ op[t].at \in 0..MaxTime
           /\ op[t].kind \in {"get", "put"} => op[t].key \in StateKeys
           /\ op[t].kind = "put" => op[t].size \in Sizes /\ op[t].size <= MaxEntry
<1>1. op[t] \in Requests
  BY DEF OpsOK
<1> QED BY <1>1 DEF Requests, OpsOK

\* A thread that returns leaves the other operations alone.
LEMMA ReturnOps ==
    ASSUME OpsOK, NEW t \in Threads, Return(t)
    PROVE  OpsOK'
BY DEF OpsOK, Return

\* Initially nothing is held.
LEMMA InitGood == Init => StoreInv
<1> SUFFICES ASSUME Init PROVE Good(entries, connBytes, filterBytes, totalBytes) /\ OpsOK
  BY IndexForm
<1>1. DOMAIN entries = {} /\ IsFiniteSet({})
  BY FS_EmptySet DEF Init
<1>2. Held(entries, {}) = 0
  BY SumEmpty DEF Held
<1>3. \A c : ConnKeys(entries, c) = {} /\ FilterKeys(entries, c) = {}
  BY <1>1 DEF ConnKeys, FilterKeys
<1>4. \A limit \in Nat : GoodCounter(0, entries, {}, limit)
  BY <1>2 DEF GoodCounter
<1>5. GoodEntries(entries)
  BY <1>1 DEF GoodEntries
<1>6. Good(entries, connBytes, filterBytes, totalBytes)
  BY <1>1, <1>3, <1>4, <1>5, LimitTypes DEF Init, Good
<1>7. OpsOK
  BY StoreAssumption DEF Init, OpsOK
<1> QED BY <1>6, <1>7

\* Dropping live keys, as an operation of the store does.
LEMMA InstallDropped ==
    ASSUME Good(entries, connBytes, filterBytes, totalBytes), NEW keys \in SUBSET DOMAIN entries,
           Install(Dropped(keys))
    PROVE  Good(entries', connBytes', filterBytes', totalBytes')
<1> DEFINE new == Dropped(keys)
<1>1. Good(new.entries, new.connBytes, new.filterBytes, new.totalBytes)
  BY DropGood
<1>2. /\ entries' = new.entries /\ connBytes' = new.connBytes
      /\ filterBytes' = new.filterBytes /\ totalBytes' = new.totalBytes
  BY DEF Install
<1> HIDE DEF new
<1> QED BY <1>1, <1>2

\* put, sweep included.
LEMMA PutStep ==
    ASSUME Good(entries, connBytes, filterBytes, totalBytes), OpsOK, NEW t \in Threads, Put(t)
    PROVE  /\ Good(entries', connBytes', filterBytes', totalBytes')
           /\ \A x \in DOMAIN entries' :
                 \/ x \in DOMAIN entries \ Expired(op[t].at) /\ entries'[x] = entries[x]
                 \/ entries'[x].born = op[t].at /\ entries'[x].used = op[t].at
<1> DEFINE k       == op[t].key
           gone    == Expired(op[t].at)
           swept   == Dropped(gone)
           old     == IF k \in DOMAIN swept.entries THEN swept.entries[k].size ELSE 0
           delta   == SaturatingSub(op[t].size, old)
           verdict == Verdict(swept, k, delta)
           entry   == [size |-> op[t].size, born |-> op[t].at, used |-> op[t].at]
           e2      == [x \in DOMAIN swept.entries \cup {k} |-> IF x = k THEN entry ELSE swept.entries[x]]
           stored  == [entries     |-> e2,
                       connBytes   |-> [swept.connBytes EXCEPT ![k.conn] = @ + delta],
                       filterBytes |-> [swept.filterBytes EXCEPT ![k.filter] = @ + delta],
                       totalBytes  |-> swept.totalBytes + delta]
<1>1. op[t] # Idle /\ op[t].kind = "put"
      /\ Install(IF verdict \in {"Stored", "Replaced"} THEN stored ELSE swept)
  BY DEF Put
<1>2. k \in StateKeys /\ op[t].size \in Sizes /\ op[t].size <= MaxEntry /\ op[t].at \in 0..MaxTime
  BY <1>1, RequestFacts
<1>3. gone \in SUBSET DOMAIN entries
  BY DEF Expired
<1>4. entry \in Entry /\ entry.size = op[t].size /\ entry.born = op[t].at /\ entry.used = op[t].at
  BY <1>2 DEF Entry
<1>5. k.conn \in Conns /\ k.filter \in Filters
  BY <1>2 DEF StateKeys
<1> HIDE DEF k, gone, swept, entry
<1>6. /\ Good(swept.entries, swept.connBytes, swept.filterBytes, swept.totalBytes)
      /\ DOMAIN swept.entries = DOMAIN entries \ gone
      /\ \A x \in DOMAIN swept.entries : swept.entries[x] = entries[x]
  BY <1>3, DropGood DEF swept
<1>7. CASE verdict \in {"Stored", "Replaced"}
  <2>1. /\ entries' = e2 /\ connBytes' = [swept.connBytes EXCEPT ![k.conn] = @ + delta]
        /\ filterBytes' = [swept.filterBytes EXCEPT ![k.filter] = @ + delta]
        /\ totalBytes' = swept.totalBytes + delta
    BY <1>1, <1>7 DEF Install
  <2>2. /\ swept.connBytes[k.conn] \in Nat /\ swept.filterBytes[k.filter] \in Nat
        /\ swept.totalBytes \in Nat /\ delta \in Nat
    <3>1. old \in Nat /\ op[t].size \in Nat
      BY <1>2, <1>6, LimitTypes DEF Good
    <3> HIDE DEF old
    <3>2. delta \in Nat
      BY <3>1 DEF SaturatingSub
    <3> QED BY <1>5, <1>6, <3>2 DEF Good, GoodCounter
  <2>3. /\ swept.connBytes[k.conn] + delta <= MaxConnection
        /\ swept.filterBytes[k.filter] + delta <= MaxFilter
        /\ swept.totalBytes + delta <= MaxTotal
    <3> HIDE DEF delta
    <3> QED BY <1>7, <2>2, VerdictFits
  <2>4. Good(entries', connBytes', filterBytes', totalBytes')
    <3>1. delta = SaturatingSub(entry.size, old)
      BY <1>4
    <3>2. old = IF k \in DOMAIN swept.entries THEN swept.entries[k].size ELSE 0
      OBVIOUS
    <3>3. entry.size <= MaxEntry
      BY <1>2, <1>4
    <3>4. e2 = [x \in DOMAIN swept.entries \cup {k} |-> IF x = k THEN entry ELSE swept.entries[x]]
      OBVIOUS
    <3> HIDE DEF old, delta, e2
    <3>5. Good(e2, [swept.connBytes EXCEPT ![k.conn] = @ + delta],
               [swept.filterBytes EXCEPT ![k.filter] = @ + delta], swept.totalBytes + delta)
      BY <1>2, <1>4, <1>6, <2>3, <3>1, <3>2, <3>3, <3>4, PutGood
    <3> QED BY <2>1, <3>5
  <2>5. ASSUME NEW x \in DOMAIN entries'
        PROVE  \/ x \in DOMAIN entries \ gone /\ entries'[x] = entries[x]
               \/ entries'[x].born = op[t].at /\ entries'[x].used = op[t].at
    BY <1>4, <1>6, <2>1
  <2> QED BY <2>4, <2>5 DEF gone
<1>8. CASE verdict \notin {"Stored", "Replaced"}
  <2>1. /\ entries' = swept.entries /\ connBytes' = swept.connBytes
        /\ filterBytes' = swept.filterBytes /\ totalBytes' = swept.totalBytes
    BY <1>1, <1>8 DEF Install
  <2> QED BY <1>6, <2>1 DEF gone
<1> QED BY <1>7, <1>8

\* Every step keeps the invariant.
LEMMA InvStep == StoreInv /\ [Next]_vars => StoreInv'
<1> SUFFICES ASSUME Good(entries, connBytes, filterBytes, totalBytes), OpsOK, [Next]_vars
             PROVE  Good(entries', connBytes', filterBytes', totalBytes') /\ OpsOK'
  <2>1. StoreInv => Good(entries, connBytes, filterBytes, totalBytes) /\ OpsOK
    BY IndexForm
  <2>2. (Good(entries, connBytes, filterBytes, totalBytes) /\ OpsOK => StoreInv)'
    BY IndexForm, PTL
  <2> QED BY <2>1, <2>2
<1>1. ASSUME NEW t \in Threads, Call(t)
      PROVE  Good(entries', connBytes', filterBytes', totalBytes') /\ OpsOK'
  <2>1. OpsOK'
    BY <1>1 DEF Call, OpsOK
  <2> QED BY <1>1, <2>1 DEF Call, index
<1>2. ASSUME NEW t \in Threads, Get(t)
      PROVE  Good(entries', connBytes', filterBytes', totalBytes') /\ OpsOK'
  <2>0. op[t] # Idle /\ op[t].kind = "get" /\ Return(t)
    BY <1>2 DEF Get
  <2>1. OpsOK'
    BY <2>0, ReturnOps
  <2> DEFINE k == op[t].key
  <2>2. CASE UNCHANGED index
    BY <2>1, <2>2 DEF index
  <2>3. CASE k \in DOMAIN entries /\ Install(Dropped({k}))
    BY <2>1, <2>3, InstallDropped
  <2>4. CASE /\ k \in DOMAIN entries /\ entries' = [entries EXCEPT ![k].used = op[t].at]
             /\ UNCHANGED <<connBytes, filterBytes, totalBytes>>
    <3>1. GoodEntries(entries) /\ op[t].at \in 0..MaxTime
      BY <2>0, RequestFacts DEF Good
    <3>2. DOMAIN entries' = DOMAIN entries
      BY <2>4
    <3>3. ASSUME NEW x \in DOMAIN entries
          PROVE  entries'[x].size = entries[x].size /\ entries'[x] \in Entry
      <4>1. entries[x] \in Entry
        BY <3>1 DEF GoodEntries
      <4>2. entries'[x] = IF x = k THEN [entries[x] EXCEPT !.used = op[t].at] ELSE entries[x]
        BY <2>4
      <4> QED BY <3>1, <4>1, <4>2 DEF Entry
    <3>4. GoodEntries(entries')
      BY <3>1, <3>2, <3>3 DEF GoodEntries
    <3>5. Good(entries', connBytes, filterBytes, totalBytes)
      BY <3>2, <3>3, <3>4, TouchGood
    <3> QED BY <2>1, <2>4, <3>5
  <2> QED BY <1>2, <2>1, <2>2, <2>3, <2>4 DEF Get
<1>3. ASSUME NEW t \in Threads, Put(t)
      PROVE  Good(entries', connBytes', filterBytes', totalBytes') /\ OpsOK'
  BY <1>3, PutStep, ReturnOps DEF Put
<1>4. ASSUME NEW t \in Threads, SweepExpired(t)
      PROVE  Good(entries', connBytes', filterBytes', totalBytes') /\ OpsOK'
  <2>1. Expired(op[t].at) \in SUBSET DOMAIN entries
    BY DEF Expired
  <2> QED BY <1>4, <2>1, InstallDropped, ReturnOps DEF SweepExpired
<1>5. ASSUME NEW t \in Threads, Delete(t)
      PROVE  Good(entries', connBytes', filterBytes', totalBytes') /\ OpsOK'
  <2>1. PICK k \in DOMAIN entries : Install(Dropped({k}))
    BY <1>5 DEF Delete
  <2>2. Good(entries', connBytes', filterBytes', totalBytes')
    BY <2>1, InstallDropped
  <2> QED BY <1>5, <2>2 DEF Delete, OpsOK
<1>6. CASE Tick
  BY <1>6, StoreAssumption DEF Tick, index, OpsOK
<1>7. CASE UNCHANGED vars
  BY <1>7 DEF vars, index, OpsOK
<1> QED BY <1>1, <1>2, <1>3, <1>4, <1>5, <1>6, <1>7 DEF Next, Locked

\* The counters and the limits, with what they rest on, in every state.
THEOREM StoreInvariance == Spec => []StoreInv
<1>1. Init => StoreInv
  BY InitGood
<1>2. StoreInv /\ [Next]_vars => StoreInv'
  BY InvStep
<1> QED BY <1>1, <1>2, PTL DEF Spec

\* The types hold in every state.
THEOREM StoreTypes == Spec => []TypeOK
<1>1. StoreInv => TypeOK
  BY DEF StoreInv
<1> QED BY <1>1, StoreInvariance, PTL

\* No counter ever says less than is stored, whatever is replaced, dropped,
\* swept or turned away (state_store.rs, drop_entry and put).
THEOREM NothingUncounted == Spec => []CountersCover
<1>1. StoreInv => CountersCover
  BY DEF StoreInv
<1> QED BY <1>1, StoreInvariance, PTL

\* What is stored stays within the limits per entry, per connection, per filter
\* and in all, for any limits and any threads.
THEOREM LimitsKept == Spec => []WithinLimits
<1>1. StoreInv => WithinLimits
  <2> SUFFICES ASSUME StoreInv PROVE WithinLimits
    OBVIOUS
  <2>1. Good(entries, connBytes, filterBytes, totalBytes)
    BY IndexForm
  <2>2. \A keys, b, limit : limit \in Nat /\ Held(entries, keys) \in Nat /\ GoodCounter(b, entries, keys, limit)
                              => Held(entries, keys) <= limit
    BY DEF GoodCounter
  <2>3. IsFiniteSet(DOMAIN entries) /\ \A k \in DOMAIN entries : entries[k].size \in Nat
    BY <2>1, LimitTypes DEF Good, GoodEntries
  <2>4. ASSUME NEW K \in SUBSET DOMAIN entries PROVE Held(entries, K) \in Nat
    BY <2>3, HeldFacts
  <2>5. ASSUME NEW c \in Conns PROVE Bytes(OfConn(c)) <= MaxConnection
    <3>1. Bytes(OfConn(c)) = Held(entries, ConnKeys(entries, c)) /\ ConnKeys(entries, c) \in SUBSET DOMAIN entries
      BY DEF Bytes, Held, OfConn, ConnKeys
    <3>2. GoodCounter(connBytes[c], entries, ConnKeys(entries, c), MaxConnection)
      BY <2>1 DEF Good
    <3> QED BY <2>2, <2>4, <3>1, <3>2, LimitTypes
  <2>6. ASSUME NEW n \in Filters PROVE Bytes(OfFilter(n)) <= MaxFilter
    <3>1. Bytes(OfFilter(n)) = Held(entries, FilterKeys(entries, n)) /\ FilterKeys(entries, n) \in SUBSET DOMAIN entries
      BY DEF Bytes, Held, OfFilter, FilterKeys
    <3>2. GoodCounter(filterBytes[n], entries, FilterKeys(entries, n), MaxFilter)
      BY <2>1 DEF Good
    <3> QED BY <2>2, <2>4, <3>1, <3>2, LimitTypes
  <2>7. Bytes(DOMAIN entries) <= MaxTotal
    <3>1. Bytes(DOMAIN entries) = Held(entries, DOMAIN entries)
      BY DEF Bytes, Held
    <3>2. GoodCounter(totalBytes, entries, DOMAIN entries, MaxTotal)
      BY <2>1 DEF Good
    <3> QED BY <2>2, <2>4, <3>1, <3>2, LimitTypes
  <2>8. \A k \in DOMAIN entries : entries[k].size <= MaxEntry
    BY <2>1 DEF Good, GoodEntries
  <2> QED BY <2>5, <2>6, <2>7, <2>8 DEF WithinLimits
<1> QED BY <1>1, StoreInvariance, PTL

\* An entry that a sweep at that time leaves, or that is put at that time, is
\* within its time to live.
LEMMA FreshFacts ==
    ASSUME Good(entries, connBytes, filterBytes, totalBytes), NEW at \in 0..MaxTime
    PROVE  /\ \A k \in DOMAIN entries \ Expired(at) :
                 Age(at, entries[k].born) <= Ttl /\ Age(at, entries[k].used) <= Ttl
           /\ Age(at, at) <= Ttl
<1>1. \A k \in DOMAIN entries : entries[k].born \in Nat /\ entries[k].used \in Nat
  BY StoreAssumption DEF Good, GoodEntries, Entry
<1>2. Ttl \in Nat /\ at \in Nat
  BY StoreAssumption
<1>3. \A i, j \in Nat : Age(i, j) \in Nat /\ Age(i, i) = 0
  BY DEF Age
<1>4. ASSUME NEW k \in DOMAIN entries \ Expired(at)
      PROVE  Age(at, entries[k].born) <= Ttl /\ Age(at, entries[k].used) <= Ttl
  <2>1. ~(Age(at, entries[k].used) > Ttl) /\ ~(Age(at, entries[k].born) > Ttl)
    BY DEF Expired
  <2>2. Age(at, entries[k].used) \in Nat /\ Age(at, entries[k].born) \in Nat
    BY <1>1, <1>2, <1>3
  <2> QED BY <1>2, <2>1, <2>2
<1> QED BY <1>2, <1>3, <1>4

\* After a put or a sweep nothing is left that was put longer ago than the time
\* to live, though operations are not carried out in the order of their times.
THEOREM SweepLeavesFresh == Spec => SweepIsThorough
<1> DEFINE Fresh(at) == \A k \in DOMAIN entries' :
              Age(at, entries'[k].born) <= Ttl /\ Age(at, entries'[k].used) <= Ttl
           Thorough == \A t \in Threads : (op[t] # Idle /\ op[t].kind # "get" /\ op'[t] = Idle) => Fresh(op[t].at)
<1>1. StoreInv /\ [Next]_vars => [Thorough]_vars
  <2> SUFFICES ASSUME StoreInv, Next, NEW t \in Threads,
                      op[t] # Idle, op[t].kind # "get", op'[t] = Idle
               PROVE  Fresh(op[t].at)
    OBVIOUS
  <2>1. Good(entries, connBytes, filterBytes, totalBytes) /\ OpsOK
    BY IndexForm
  <2>2. op[t].at \in 0..MaxTime
    BY <2>1, RequestFacts
  <2>3. Put(t) \/ SweepExpired(t)
    <3>1. op \in [Threads -> Requests \cup {Idle}]
      BY <2>1 DEF OpsOK
    <3>2. ~ UNCHANGED op
      OBVIOUS
    <3>3. PICK u \in Threads : Call(u) \/ Locked(u)
      BY <3>2 DEF Next, Tick, Delete
    <3>4. u = t
      BY <3>1, <3>3 DEF Call, Locked, Get, Put, SweepExpired, Return
    <3> QED BY <3>3, <3>4 DEF Call, Locked, Get
  <2>4. CASE Put(t)
    <3>1. \A x \in DOMAIN entries' :
                 \/ x \in DOMAIN entries \ Expired(op[t].at) /\ entries'[x] = entries[x]
                 \/ entries'[x].born = op[t].at /\ entries'[x].used = op[t].at
      BY <2>1, <2>4, PutStep
    <3> QED BY <2>1, <2>2, <3>1, FreshFacts
  <2>5. CASE SweepExpired(t)
    <3> DEFINE new == Dropped(Expired(op[t].at))
    <3>1. Expired(op[t].at) \in SUBSET DOMAIN entries
      BY DEF Expired
    <3>2. /\ DOMAIN new.entries = DOMAIN entries \ Expired(op[t].at)
          /\ \A k \in DOMAIN new.entries : new.entries[k] = entries[k]
      BY <2>1, <3>1, DropGood
    <3>3. entries' = new.entries
      BY <2>5 DEF SweepExpired, Install
    <3> HIDE DEF new
    <3> QED BY <2>1, <2>2, <3>2, <3>3, FreshFacts
  <2> QED BY <2>3, <2>4, <2>5
<1> QED BY StoreInvariance, <1>1, PTL DEF Spec, SweepIsThorough
=============================================================================
