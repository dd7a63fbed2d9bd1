------------------------- MODULE SseCapture_proofs -------------------------
(***************************************************************************)
(* Proofs about SseCapture, for any limits, frames and streams: what is    *)
(* captured is a function of the bytes, and not of how they come.          *)
(***************************************************************************)
EXTENDS SseCapture, FoldTheorems

-----------------------------------------------------------------------------
(* Parts of a sequence.                                                    *)

\* What is left without the first n bytes.
LEMMA DropFacts ==
    ASSUME NEW s \in Seq(Bytes), NEW n \in 0..Len(s)
    PROVE  /\ Drop(s, n) \in Seq(Bytes) /\ Len(Drop(s, n)) = Len(s) - n
           /\ \A i \in 1..(Len(s) - n) : Drop(s, n)[i] = s[n + i]
<1>1. Len(s) \in Nat /\ n \in Nat /\ n <= Len(s) /\ \A i \in (n + 1)..Len(s) : s[i] \in Bytes
  BY ElementOfSeq, LenProperties
<1>2. /\ SubSeq(s, n + 1, Len(s)) \in Seq(Bytes)
      /\ Len(SubSeq(s, n + 1, Len(s))) = IF n + 1 <= Len(s) THEN Len(s) - (n + 1) + 1 ELSE 0
      /\ \A i \in 1..(Len(s) - (n + 1) + 1) : SubSeq(s, n + 1, Len(s))[i] = s[(n + 1) + i - 1]
  BY <1>1, SubSeqProperties
<1>3. \A i \in 1..(Len(s) - n) : (n + 1) + i - 1 = n + i
  BY <1>1
<1>4. Len(s) - (n + 1) + 1 = Len(s) - n /\ Len(SubSeq(s, n + 1, Len(s))) = Len(s) - n
  BY <1>1, <1>2
<1>5. \A i \in 1..(Len(s) - n) : SubSeq(s, n + 1, Len(s))[i] = s[n + i]
  BY <1>2, <1>3, <1>4
<1> QED BY <1>2, <1>4, <1>5 DEF Drop

\* The first n bytes, or all.
LEMMA TakeFacts ==
    ASSUME NEW S, NEW s \in Seq(S), NEW n \in Nat
    PROVE  /\ Take(s, n) \in Seq(S) /\ Len(Take(s, n)) = IF Len(s) < n THEN Len(s) ELSE n
           /\ \A i \in 1..Len(Take(s, n)) : Take(s, n)[i] = s[i]
<1> DEFINE m == IF Len(s) < n THEN Len(s) ELSE n
<1>1. Len(s) \in Nat /\ m \in Nat /\ m <= Len(s) /\ \A i \in 1..m : s[i] \in S
  BY ElementOfSeq, LenProperties
<1>2. Take(s, n) = SubSeq(s, 1, m)
  BY DEF Take
<1> HIDE DEF m
<1>3. /\ SubSeq(s, 1, m) \in Seq(S)
      /\ Len(SubSeq(s, 1, m)) = IF 1 <= m THEN m - 1 + 1 ELSE 0
      /\ \A i \in 1..(m - 1 + 1) : SubSeq(s, 1, m)[i] = s[1 + i - 1]
  BY <1>1, SubSeqProperties
<1>4. Len(SubSeq(s, 1, m)) = m /\ m - 1 + 1 = m /\ \A i \in 1..m : 1 + i - 1 = i
  BY <1>1, <1>3
<1> QED BY <1>2, <1>3, <1>4 DEF m

\* A part of a sequence.
LEMMA PartFacts ==
    ASSUME NEW s \in Seq(Bytes), NEW a \in Nat, NEW b \in Nat, a <= b, b <= Len(s)
    PROVE  /\ SubSeq(s, a + 1, b) \in Seq(Bytes) /\ Len(SubSeq(s, a + 1, b)) = b - a
           /\ \A i \in 1..(b - a) : SubSeq(s, a + 1, b)[i] = s[a + i]
<1>1. Len(s) \in Nat /\ \A i \in (a + 1)..b : s[i] \in Bytes
  BY ElementOfSeq, LenProperties
<1>2. /\ SubSeq(s, a + 1, b) \in Seq(Bytes)
      /\ Len(SubSeq(s, a + 1, b)) = IF a + 1 <= b THEN b - (a + 1) + 1 ELSE 0
      /\ \A i \in 1..(b - (a + 1) + 1) : SubSeq(s, a + 1, b)[i] = s[(a + 1) + i - 1]
  BY <1>1, SubSeqProperties
<1>3. b - (a + 1) + 1 = b - a /\ \A i \in 1..(b - a) : (a + 1) + i - 1 = a + i
  OBVIOUS
<1> QED BY <1>2, <1>3

-----------------------------------------------------------------------------
(* Terminators.                                                            *)

\* That a terminator ends at n, byte by byte: CR LF LF ends where LF LF does.
Ended(s, a, n) ==
    \/ n >= a + 2 /\ s[n - 1] = s[n] /\ s[n] \in {CR, LF}
    \/ n >= a + 4 /\ s[n - 3] = CR /\ s[n - 2] = LF /\ s[n - 1] = CR /\ s[n] = LF

\* The four terminators.
LEMMA TerminatorBytes ==
    /\ \A t \in Terminators : t \in Seq(Bytes) /\ Len(t) \in 2..4
    /\ Len(<<CR, LF, CR, LF>>) = 4 /\ Len(<<CR, LF, LF>>) = 3 /\ Len(<<LF, LF>>) = 2
    /\ Len(<<CR, CR>>) = 2
BY DEF Terminators, Bytes

\* A part of a sequence is a terminator if its bytes are those of it.
LEMMA PartIs ==
    ASSUME NEW s \in Seq(Bytes), NEW a \in Nat, NEW t \in Seq(Bytes), a + Len(t) <= Len(s)
    PROVE  SubSeq(s, a + 1, a + Len(t)) = t <=> \A i \in 1..Len(t) : s[a + i] = t[i]
<1>1. Len(t) \in Nat /\ a + Len(t) \in Nat /\ (a + Len(t)) - a = Len(t) /\ a <= a + Len(t)
  BY LenProperties
<1>2. /\ SubSeq(s, a + 1, a + Len(t)) \in Seq(Bytes) /\ Len(SubSeq(s, a + 1, a + Len(t))) = Len(t)
      /\ \A i \in 1..Len(t) : SubSeq(s, a + 1, a + Len(t))[i] = s[a + i]
  BY <1>1, PartFacts
<1>3. ASSUME SubSeq(s, a + 1, a + Len(t)) = t PROVE \A i \in 1..Len(t) : s[a + i] = t[i]
  BY <1>2, <1>3
<1>4. ASSUME \A i \in 1..Len(t) : s[a + i] = t[i] PROVE SubSeq(s, a + 1, a + Len(t)) = t
  BY <1>2, <1>4, SeqEqual
<1> QED BY <1>3, <1>4

\* Which bytes that are.
LEMMA PartBytes ==
    ASSUME NEW s \in Seq(Bytes), NEW a \in Nat
    PROVE  /\ a + 2 <= Len(s) =>
                /\ SubSeq(s, a + 1, a + 2) = <<LF, LF>> <=> s[a + 1] = LF /\ s[a + 2] = LF
                /\ SubSeq(s, a + 1, a + 2) = <<CR, CR>> <=> s[a + 1] = CR /\ s[a + 2] = CR
           /\ a + 3 <= Len(s) =>
                (SubSeq(s, a + 1, a + 3) = <<CR, LF, LF>>
                    <=> s[a + 1] = CR /\ s[a + 2] = LF /\ s[a + 3] = LF)
           /\ a + 4 <= Len(s) =>
                (SubSeq(s, a + 1, a + 4) = <<CR, LF, CR, LF>>
                    <=> s[a + 1] = CR /\ s[a + 2] = LF /\ s[a + 3] = CR /\ s[a + 4] = LF)
<1>0. {<<LF, LF>>, <<CR, CR>>, <<CR, LF, LF>>, <<CR, LF, CR, LF>>} \subseteq Seq(Bytes)
  BY TerminatorBytes DEF Terminators
<1>1. ASSUME a + 2 <= Len(s)
      PROVE  /\ SubSeq(s, a + 1, a + 2) = <<LF, LF>> <=> s[a + 1] = LF /\ s[a + 2] = LF
             /\ SubSeq(s, a + 1, a + 2) = <<CR, CR>> <=> s[a + 1] = CR /\ s[a + 2] = CR
  <2>1. SubSeq(s, a + 1, a + 2) = <<LF, LF>> <=> \A i \in 1..2 : s[a + i] = <<LF, LF>>[i]
    BY <1>0, <1>1, TerminatorBytes, PartIs
  <2>2. SubSeq(s, a + 1, a + 2) = <<CR, CR>> <=> \A i \in 1..2 : s[a + i] = <<CR, CR>>[i]
    BY <1>0, <1>1, TerminatorBytes, PartIs
  <2>3. \A i \in 1..2 : i = 1 \/ i = 2
    OBVIOUS
  <2> QED BY <2>1, <2>2, <2>3
<1>2. ASSUME a + 3 <= Len(s)
      PROVE  SubSeq(s, a + 1, a + 3) = <<CR, LF, LF>>
                <=> s[a + 1] = CR /\ s[a + 2] = LF /\ s[a + 3] = LF
  <2>1. SubSeq(s, a + 1, a + 3) = <<CR, LF, LF>> <=> \A i \in 1..3 : s[a + i] = <<CR, LF, LF>>[i]
    BY <1>0, <1>2, TerminatorBytes, PartIs
  <2>2. \A i \in 1..3 : i = 1 \/ i = 2 \/ i = 3
    OBVIOUS
  <2> QED BY <2>1, <2>2
<1>3. ASSUME a + 4 <= Len(s)
      PROVE  SubSeq(s, a + 1, a + 4) = <<CR, LF, CR, LF>>
                <=> s[a + 1] = CR /\ s[a + 2] = LF /\ s[a + 3] = CR /\ s[a + 4] = LF
  <2>1. SubSeq(s, a + 1, a + 4) = <<CR, LF, CR, LF>>
            <=> \A i \in 1..4 : s[a + i] = <<CR, LF, CR, LF>>[i]
    BY <1>0, <1>3, TerminatorBytes, PartIs
  <2>2. \A i \in 1..4 : i = 1 \/ i = 2 \/ i = 3 \/ i = 4
    OBVIOUS
  <2> QED BY <2>1, <2>2
<1> QED BY <1>1, <1>2, <1>3

\* Terminated says what Ended does.
LEMMA TerminatedMeans ==
    ASSUME NEW s \in Seq(Bytes), NEW a \in Nat, NEW n \in 0..Len(s)
    PROVE  Terminated(s, a, n) <=> Ended(s, a, n)
<1>0. Len(s) \in Nat /\ n \in Nat /\ n <= Len(s)
  BY LenProperties
<1>1. Terminated(s, a, n) <=>
        \/ n >= a + 4 /\ SubSeq(s, n - 4 + 1, n) = <<CR, LF, CR, LF>>
        \/ n >= a + 3 /\ SubSeq(s, n - 3 + 1, n) = <<CR, LF, LF>>
        \/ n >= a + 2 /\ SubSeq(s, n - 2 + 1, n) = <<LF, LF>>
        \/ n >= a + 2 /\ SubSeq(s, n - 2 + 1, n) = <<CR, CR>>
  BY TerminatorBytes DEF Terminated, Terminators
<1>2. n >= a + 4 => (SubSeq(s, n - 4 + 1, n) = <<CR, LF, CR, LF>>
                      <=> s[n - 3] = CR /\ s[n - 2] = LF /\ s[n - 1] = CR /\ s[n] = LF)
  <2> SUFFICES ASSUME n >= a + 4
               PROVE  SubSeq(s, n - 4 + 1, n) = <<CR, LF, CR, LF>>
                        <=> s[n - 3] = CR /\ s[n - 2] = LF /\ s[n - 1] = CR /\ s[n] = LF
    OBVIOUS
  <2> DEFINE m == n - 4
  <2>1. m \in Nat /\ m + 1 = n - 3 /\ m + 2 = n - 2 /\ m + 3 = n - 1 /\ m + 4 = n /\ m + 4 <= Len(s)
    BY <1>0
  <2> HIDE DEF m
  <2>2. SubSeq(s, m + 1, m + 4) = <<CR, LF, CR, LF>>
            <=> s[m + 1] = CR /\ s[m + 2] = LF /\ s[m + 3] = CR /\ s[m + 4] = LF
    BY <2>1, PartBytes
  <2> QED BY <2>1, <2>2 DEF m
<1>3. n >= a + 3 => (SubSeq(s, n - 3 + 1, n) = <<CR, LF, LF>>
                      <=> s[n - 2] = CR /\ s[n - 1] = LF /\ s[n] = LF)
  <2> SUFFICES ASSUME n >= a + 3
               PROVE  SubSeq(s, n - 3 + 1, n) = <<CR, LF, LF>>
                        <=> s[n - 2] = CR /\ s[n - 1] = LF /\ s[n] = LF
    OBVIOUS
  <2> DEFINE m == n - 3
  <2>1. m \in Nat /\ m + 1 = n - 2 /\ m + 2 = n - 1 /\ m + 3 = n /\ m + 3 <= Len(s)
    BY <1>0
  <2> HIDE DEF m
  <2>2. SubSeq(s, m + 1, m + 3) = <<CR, LF, LF>>
            <=> s[m + 1] = CR /\ s[m + 2] = LF /\ s[m + 3] = LF
    BY <2>1, PartBytes
  <2> QED BY <2>1, <2>2 DEF m
<1>4. n >= a + 2 => /\ SubSeq(s, n - 2 + 1, n) = <<LF, LF>> <=> s[n - 1] = LF /\ s[n] = LF
                    /\ SubSeq(s, n - 2 + 1, n) = <<CR, CR>> <=> s[n - 1] = CR /\ s[n] = CR
  <2> SUFFICES ASSUME n >= a + 2
               PROVE  /\ SubSeq(s, n - 2 + 1, n) = <<LF, LF>> <=> s[n - 1] = LF /\ s[n] = LF
                      /\ SubSeq(s, n - 2 + 1, n) = <<CR, CR>> <=> s[n - 1] = CR /\ s[n] = CR
    OBVIOUS
  <2> DEFINE m == n - 2
  <2>1. m \in Nat /\ m + 1 = n - 1 /\ m + 2 = n /\ m + 2 <= Len(s)
    BY <1>0
  <2> HIDE DEF m
  <2>2. /\ SubSeq(s, m + 1, m + 2) = <<LF, LF>> <=> s[m + 1] = LF /\ s[m + 2] = LF
        /\ SubSeq(s, m + 1, m + 2) = <<CR, CR>> <=> s[m + 1] = CR /\ s[m + 2] = CR
    BY <2>1, PartBytes
  <2> QED BY <2>1, <2>2 DEF m
<1> QED BY <1>0, <1>1, <1>2, <1>3, <1>4 DEF Ended

-----------------------------------------------------------------------------
(* find_sse_event_end.                                                     *)

Begins(b, i, t) == IsPrefix(t, SubSeq(b, i, Len(b)))
Starts(b) == {i \in 1..Len(b) : \E t \in Terminators : Begins(b, i, t)}
Found(b) == CHOOSE t \in Terminators : Begins(b, Min(Starts(b)), t)

\* EventEnd in these words.
LEMMA EventEndDef ==
    ASSUME NEW b
    PROVE  EventEnd(b) = IF Starts(b) = {} THEN 0 ELSE Min(Starts(b)) + Len(Found(b)) - 1
BY DEF EventEnd, Starts, Begins, Found

\* A terminator begins where its bytes do.
LEMMA BeginsMeans ==
    ASSUME NEW b \in Seq(Bytes), NEW i \in 1..Len(b), NEW t \in Seq(Bytes)
    PROVE  Begins(b, i, t) <=>
               /\ (i - 1) + Len(t) <= Len(b)
               /\ \A k \in 1..Len(t) : b[(i - 1) + k] = t[k]
<1> DEFINE a == i - 1
           u == Drop(b, a)
<1>0. Len(b) \in Nat /\ Len(t) \in Nat /\ a \in Nat /\ a \in 0..Len(b) /\ a + 1 = i
  BY LenProperties
<1>1. SubSeq(b, i, Len(b)) = u
  BY <1>0 DEF Drop
<1> HIDE DEF a
<1>2. u \in Seq(Bytes) /\ Len(u) = Len(b) - a /\ \A k \in 1..(Len(b) - a) : u[k] = b[a + k]
  BY <1>0, DropFacts
<1> HIDE DEF u
<1>3. SubSeq(t, 1, Len(t)) = t
  BY SubSeqFull
<1>4. Begins(b, i, t) <=> Len(t) <= Len(u) /\ t = SubSeq(u, 1, Len(t))
  BY <1>1, <1>3 DEF Begins, IsPrefix
<1>5. ASSUME Len(t) <= Len(u)
      PROVE  SubSeq(u, 1, Len(t)) = t <=> \A k \in 1..Len(t) : b[a + k] = t[k]
  <2>1. SubSeq(u, 0 + 1, 0 + Len(t)) = t <=> \A k \in 1..Len(t) : u[0 + k] = t[k]
    BY <1>0, <1>2, <1>5, PartIs
  <2>2. \A k \in 1..Len(t) : u[0 + k] = b[a + k]
    BY <1>0, <1>2, <1>5
  <2>3. 0 + 1 = 1 /\ 0 + Len(t) = Len(t)
    BY <1>0
  <2> QED BY <2>1, <2>2, <2>3
<1>6. Len(t) <= Len(u) <=> a + Len(t) <= Len(b)
  BY <1>0, <1>2
<1> QED BY <1>4, <1>5, <1>6 DEF a

\* Which bytes these are.
LEMMA BeginBytes ==
    ASSUME NEW b \in Seq(Bytes), NEW i \in 1..Len(b)
    PROVE  /\ Begins(b, i, <<LF, LF>>) <=> i + 1 <= Len(b) /\ b[i] = LF /\ b[i + 1] = LF
           /\ Begins(b, i, <<CR, CR>>) <=> i + 1 <= Len(b) /\ b[i] = CR /\ b[i + 1] = CR
           /\ Begins(b, i, <<CR, LF, LF>>) <=>
                 i + 2 <= Len(b) /\ b[i] = CR /\ b[i + 1] = LF /\ b[i + 2] = LF
           /\ Begins(b, i, <<CR, LF, CR, LF>>) <=>
                 i + 3 <= Len(b) /\ b[i] = CR /\ b[i + 1] = LF /\ b[i + 2] = CR /\ b[i + 3] = LF
<1>0. /\ Len(b) \in Nat /\ i \in Nat /\ (i - 1) + 1 = i /\ (i - 1) + 2 = i + 1 /\ (i - 1) + 3 = i + 2
      /\ (i - 1) + 4 = i + 3
  BY LenProperties
<1>1. {<<LF, LF>>, <<CR, CR>>, <<CR, LF, LF>>, <<CR, LF, CR, LF>>} \subseteq Seq(Bytes)
  BY TerminatorBytes DEF Terminators
<1>2. /\ \A k \in 1..2 : k = 1 \/ k = 2
      /\ \A k \in 1..3 : k = 1 \/ k = 2 \/ k = 3
      /\ \A k \in 1..4 : k = 1 \/ k = 2 \/ k = 3 \/ k = 4
  OBVIOUS
<1>3. Begins(b, i, <<LF, LF>>) <=> i + 1 <= Len(b) /\ b[i] = LF /\ b[i + 1] = LF
  <2>1. Begins(b, i, <<LF, LF>>) <=>
            (i - 1) + 2 <= Len(b) /\ \A k \in 1..2 : b[(i - 1) + k] = <<LF, LF>>[k]
    BY <1>1, TerminatorBytes, BeginsMeans
  <2> QED BY <1>0, <1>2, <2>1
<1>4. Begins(b, i, <<CR, CR>>) <=> i + 1 <= Len(b) /\ b[i] = CR /\ b[i + 1] = CR
  <2>1. Begins(b, i, <<CR, CR>>) <=>
            (i - 1) + 2 <= Len(b) /\ \A k \in 1..2 : b[(i - 1) + k] = <<CR, CR>>[k]
    BY <1>1, TerminatorBytes, BeginsMeans
  <2> QED BY <1>0, <1>2, <2>1
<1>5. Begins(b, i, <<CR, LF, LF>>) <=>
          i + 2 <= Len(b) /\ b[i] = CR /\ b[i + 1] = LF /\ b[i + 2] = LF
  <2>1. Begins(b, i, <<CR, LF, LF>>) <=>
            (i - 1) + 3 <= Len(b) /\ \A k \in 1..3 : b[(i - 1) + k] = <<CR, LF, LF>>[k]
    BY <1>1, TerminatorBytes, BeginsMeans
  <2> QED BY <1>0, <1>2, <2>1
<1>6. Begins(b, i, <<CR, LF, CR, LF>>) <=>
          i + 3 <= Len(b) /\ b[i] = CR /\ b[i + 1] = LF /\ b[i + 2] = CR /\ b[i + 3] = LF
  <2>1. Begins(b, i, <<CR, LF, CR, LF>>) <=>
            (i - 1) + 4 <= Len(b) /\ \A k \in 1..4 : b[(i - 1) + k] = <<CR, LF, CR, LF>>[k]
    BY <1>1, TerminatorBytes, BeginsMeans
  <2> QED BY <1>0, <1>2, <2>1
<1> QED BY <1>3, <1>4, <1>5, <1>6

\* A terminator that ends somewhere begins somewhere.
LEMMA EndedStarts ==
    ASSUME NEW b \in Seq(Bytes), NEW m \in 1..Len(b), Ended(b, 0, m)
    PROVE  \/ m - 1 \in Starts(b) /\ b[m - 1] = b[m]
           \/ m - 3 \in Starts(b)
<1>0. Len(b) \in Nat /\ m \in Nat /\ m <= Len(b)
  BY LenProperties
<1>1. CASE m >= 2 /\ b[m - 1] = b[m] /\ b[m] \in {CR, LF}
  <2>1. m - 1 \in 1..Len(b) /\ (m - 1) + 1 = m
    BY <1>0, <1>1
  <2>2. Begins(b, m - 1, <<LF, LF>>) \/ Begins(b, m - 1, <<CR, CR>>)
    BY <1>0, <1>1, <2>1, BeginBytes
  <2> QED BY <1>1, <2>1, <2>2 DEF Starts, Terminators
<1>2. CASE m >= 4 /\ b[m - 3] = CR /\ b[m - 2] = LF /\ b[m - 1] = CR /\ b[m] = LF
  <2>1. m - 3 \in 1..Len(b) /\ (m - 3) + 1 = m - 2 /\ (m - 3) + 2 = m - 1 /\ (m - 3) + 3 = m
    BY <1>0, <1>2
  <2>2. Begins(b, m - 3, <<CR, LF, CR, LF>>)
    BY <1>0, <1>2, <2>1, BeginBytes
  <2> QED BY <2>1, <2>2 DEF Starts, Terminators
<1> QED BY <1>0, <1>1, <1>2 DEF Ended

\* The terminator that begins first is also one that ends first.
LEMMA EventEndFacts ==
    ASSUME NEW b \in Seq(Bytes)
    PROVE  /\ EventEnd(b) \in 0..Len(b)
           /\ EventEnd(b) > 0 => Ended(b, 0, EventEnd(b))
           /\ \A m \in 1..Len(b) : Ended(b, 0, m) => EventEnd(b) > 0 /\ EventEnd(b) <= m
<1>0. Len(b) \in Nat /\ Starts(b) \in SUBSET Nat
  BY LenProperties DEF Starts
<1>1. CASE Starts(b) = {}
  <2>1. EventEnd(b) = 0
    BY <1>1, EventEndDef
  <2> QED BY <1>0, <1>1, <2>1, EndedStarts
<1>2. CASE Starts(b) # {}
  <2> DEFINE i == Min(Starts(b))
             t == Found(b)
             end == i + Len(t) - 1
  <2>1. i \in Starts(b) /\ \A j \in Starts(b) : i <= j
    <3>1. \E n \in Starts(b) : \A m \in Starts(b) : n <= m
      BY <1>0, <1>2, HasLeast
    <3> QED BY <3>1 DEF Min
  <2>2. t \in Terminators /\ Begins(b, i, t)
    <3>1. \E u \in Terminators : Begins(b, i, u)
      BY <2>1 DEF Starts
    <3> QED BY <3>1 DEF Found
  <2>3. EventEnd(b) = end
    BY <1>2, EventEndDef
  <2>4. i \in 1..Len(b) /\ i \in Nat
    BY <1>0, <2>1 DEF Starts
  <2> HIDE DEF i, t
  <2>5. CR # LF
    BY SseAssumption
  <2> SUFFICES /\ end \in 1..Len(b) /\ Ended(b, 0, end)
               /\ \A m \in 1..Len(b) : Ended(b, 0, m) => end <= m
    BY <1>0, <2>3
  <2>6. ASSUME NEW m \in 1..Len(b), Ended(b, 0, m)
        PROVE  \/ m - 1 >= i /\ b[m - 1] = b[m]
               \/ m - 3 >= i
    BY <2>1, <2>6, EndedStarts
  <2>7. CASE t = <<LF, LF>> \/ t = <<CR, CR>>
    <3>0. i + 1 <= Len(b) /\ b[i] = b[i + 1] /\ b[i + 1] \in {CR, LF}
      <4>1. CASE t = <<LF, LF>>
        BY <2>2, <2>4, <4>1, BeginBytes
      <4>2. CASE t = <<CR, CR>>
        BY <2>2, <2>4, <4>2, BeginBytes
      <4> QED BY <2>7, <4>1, <4>2
    <3>1. end = i + 1 /\ i + 1 <= Len(b) /\ b[i] = b[i + 1] /\ b[i + 1] \in {CR, LF}
      <4>1. Len(t) = 2
        BY <2>7, TerminatorBytes
      <4> QED BY <2>4, <3>0, <4>1
    <3>2. end \in 1..Len(b) /\ end >= 2 /\ end - 1 = i
      BY <1>0, <2>4, <3>1
    <3> QED BY <1>0, <2>4, <2>6, <3>1, <3>2 DEF Ended
  <2>8. CASE t = <<CR, LF, LF>>
    <3>0. i + 2 <= Len(b) /\ b[i] = CR /\ b[i + 1] = LF /\ b[i + 2] = LF
      BY <2>2, <2>4, <2>8, BeginBytes
    <3>1. end = i + 2 /\ i + 2 <= Len(b) /\ b[i] = CR /\ b[i + 1] = LF /\ b[i + 2] = LF
      <4>1. Len(t) = 3
        BY <2>8, TerminatorBytes
      <4> QED BY <2>4, <3>0, <4>1
    <3>2. end \in 1..Len(b) /\ end >= 2 /\ end - 1 = i + 1
      BY <1>0, <2>4, <3>1
    <3>3. ASSUME NEW m \in 1..Len(b), Ended(b, 0, m), m < end PROVE FALSE
      <4>1. m - 1 = i /\ m = i + 1 /\ b[m - 1] = b[m]
        BY <1>0, <2>4, <2>6, <3>1, <3>3
      <4> QED BY <2>5, <3>1, <4>1
    <3> QED BY <1>0, <3>1, <3>2, <3>3 DEF Ended
  <2>9. CASE t = <<CR, LF, CR, LF>>
    <3>0. i + 3 <= Len(b) /\ b[i] = CR /\ b[i + 1] = LF /\ b[i + 2] = CR /\ b[i + 3] = LF
      BY <2>2, <2>4, <2>9, BeginBytes
    <3>1. /\ end = i + 3 /\ i + 3 <= Len(b)
          /\ b[i] = CR /\ b[i + 1] = LF /\ b[i + 2] = CR /\ b[i + 3] = LF
      <4>1. Len(t) = 4
        BY <2>9, TerminatorBytes
      <4> QED BY <2>4, <3>0, <4>1
    <3>2. end \in 1..Len(b) /\ end >= 4 /\ end - 3 = i /\ end - 2 = i + 1 /\ end - 1 = i + 2
      BY <1>0, <2>4, <3>1
    <3>3. ASSUME NEW m \in 1..Len(b), Ended(b, 0, m), m < end PROVE FALSE
      <4>1. b[m - 1] = b[m] /\ ((m = i + 1 /\ m - 1 = i) \/ (m = i + 2 /\ m - 1 = i + 1))
        BY <1>0, <2>4, <2>6, <3>1, <3>3
      <4> QED BY <2>5, <3>1, <4>1
    <3> QED BY <1>0, <3>1, <3>2, <3>3 DEF Ended
  <2> QED BY <2>2, <2>7, <2>8, <2>9 DEF Terminators
<1> QED BY <1>1, <1>2

\* In a buffer that is the rest of a stream.
LEMMA EndInStream ==
    ASSUME NEW s \in Seq(Bytes), NEW at \in 0..Len(s)
    PROVE  LET end == EventEnd(Drop(s, at)) IN
           /\ end \in 0..(Len(s) - at)
           /\ end > 0 => Terminated(s, at, at + end)
           /\ \A m \in 1..Len(s) : Terminated(s, at, m) => end > 0 /\ at + end <= m
<1> DEFINE b == Drop(s, at)
           end == EventEnd(b)
<1>0. Len(s) \in Nat /\ at \in Nat /\ at <= Len(s)
  BY LenProperties
<1>1. b \in Seq(Bytes) /\ Len(b) = Len(s) - at /\ \A i \in 1..(Len(s) - at) : b[i] = s[at + i]
  BY DropFacts
<1> HIDE DEF b
<1>2. ASSUME NEW m \in 1..(Len(s) - at) PROVE Ended(b, 0, m) <=> Ended(s, at, at + m)
  <2>1. m \in Nat /\ b[m] = s[at + m]
    BY <1>0, <1>1
  <2>2. m >= 2 => b[m - 1] = s[(at + m) - 1]
    <3>1. m >= 2 => m - 1 \in 1..(Len(s) - at) /\ at + (m - 1) = (at + m) - 1
      BY <1>0, <1>2
    <3> QED BY <1>1, <3>1
  <2>3. m >= 4 => b[m - 2] = s[(at + m) - 2] /\ b[m - 3] = s[(at + m) - 3]
    <3>1. m >= 4 => /\ m - 2 \in 1..(Len(s) - at) /\ at + (m - 2) = (at + m) - 2
                    /\ m - 3 \in 1..(Len(s) - at) /\ at + (m - 3) = (at + m) - 3
      BY <1>0, <1>2
    <3> QED BY <1>1, <3>1
  <2>4. /\ m >= 0 + 2 <=> m >= 2
        /\ m >= 0 + 4 <=> m >= 4
        /\ at + m >= at + 2 <=> m >= 2
        /\ at + m >= at + 4 <=> m >= 4
        /\ m >= 4 => m >= 2
    BY <1>0, <2>1
  <2> QED BY <2>1, <2>2, <2>3, <2>4 DEF Ended
<1>3. /\ end \in 0..(Len(s) - at) /\ (end > 0 => Ended(b, 0, end))
      /\ \A m \in 1..(Len(s) - at) : Ended(b, 0, m) => end > 0 /\ end <= m
  BY <1>1, EventEndFacts
<1> HIDE DEF end
<1>4. end > 0 => Terminated(s, at, at + end)
  <2> SUFFICES ASSUME end > 0 PROVE Terminated(s, at, at + end)
    OBVIOUS
  <2>1. end \in 1..(Len(s) - at) /\ at + end \in 0..Len(s)
    BY <1>0, <1>3
  <2> QED BY <1>0, <1>2, <1>3, <2>1, TerminatedMeans
<1>5. ASSUME NEW m \in 1..Len(s), Terminated(s, at, m) PROVE end > 0 /\ at + end <= m
  <2>1. Ended(s, at, m) /\ m \in Nat
    BY <1>0, <1>5, TerminatedMeans
  <2>2. m - at \in 1..(Len(s) - at) /\ at + (m - at) = m
    BY <1>0, <2>1 DEF Ended
  <2>3. end > 0 /\ end <= m - at
    BY <1>2, <1>3, <2>1, <2>2
  <2> QED BY <1>0, <1>3, <2>1, <2>3
<1> QED BY <1>3, <1>4, <1>5 DEF end, b

-----------------------------------------------------------------------------
(* Where events end.                                                       *)

\* What the ends within n bytes are: each is where a terminator ends first behind the
\* one before, and behind the last none does.
IsEnds(s, e, n) ==
    /\ e \in Seq(Nat) /\ Len(e) >= 1 /\ e[1] = 0
    /\ \A i \in 1..Len(e) : e[i] <= n
    /\ \A i \in 1..(Len(e) - 1) :
        /\ e[i] < e[i + 1] /\ Terminated(s, e[i], e[i + 1])
        /\ \A m \in (e[i] + 1)..(e[i + 1] - 1) : ~Terminated(s, e[i], m)
    /\ \A m \in (e[Len(e)] + 1)..n : ~Terminated(s, e[Len(e)], m)

NatSeq(e) == e \in Seq(Nat)

Walk == INSTANCE FoldTheorems WITH FoldOp <- EndAt, FoldKept <- NatSeq

Upto(n) == [i \in 1..n |-> i]

\* The ends are a fold over the positions.
LEMMA EndsAreFold ==
    ASSUME NEW s, NEW n
    PROVE  EndsWithin(s, n) = Walk!FoldOf(s, <<0>>, Upto(n))[DOMAIN Upto(n)]
BY DEF EndsWithin, Upto, FoldLeft, MapThenFoldSet, Max, Walk!FoldOf, Walk!IsFold,
       Walk!FoldTurn, Walk!Max

\* Without a byte there is no event.
LEMMA EndsOfNothing ==
    ASSUME NEW s
    PROVE  EndsWithin(s, 0) = <<0>>
<1>1. DOMAIN Upto(0) = {}
  BY DEF Upto
<1> QED BY <1>1, EndsAreFold, Walk!FoldNothing

\* One byte more is one turn more.
LEMMA EndsMore ==
    ASSUME NEW s, NEW n \in Nat
    PROVE  EndsWithin(s, n + 1) = EndAt(s, EndsWithin(s, n), n + 1)
<1>1. /\ DOMAIN Upto(n) = 1..n /\ DOMAIN Upto(n + 1) = 1..(n + 1) /\ Upto(n + 1)[n + 1] = n + 1
      /\ \A i \in 1..n : Upto(n + 1)[i] = Upto(n)[i]
  BY DEF Upto
<1>2. Walk!FoldOf(s, <<0>>, Upto(n + 1))[DOMAIN Upto(n + 1)]
        = EndAt(s, Walk!FoldOf(s, <<0>>, Upto(n))[DOMAIN Upto(n)], Upto(n + 1)[n + 1])
  BY <1>1, Walk!FoldMore
<1> QED BY <1>1, <1>2, EndsAreFold

\* A turn keeps the ends right.
LEMMA EndsTurn ==
    ASSUME NEW s, NEW e, NEW n \in Nat, IsEnds(s, e, n)
    PROVE  IsEnds(s, EndAt(s, e, n + 1), n + 1)
<1> DEFINE last == e[Len(e)]
<1>0. /\ e \in Seq(Nat) /\ Len(e) \in Nat /\ Len(e) >= 1 /\ e[1] = 0 /\ Len(e) \in 1..Len(e)
      /\ \A i \in 1..Len(e) : e[i] \in Nat /\ e[i] <= n
  <2>1. e \in Seq(Nat) /\ Len(e) >= 1 /\ e[1] = 0 /\ \A i \in 1..Len(e) : e[i] <= n
    BY DEF IsEnds
  <2> QED BY <2>1, LenProperties, ElementOfSeq
<1>1. last \in Nat /\ last <= n /\ Last(e) = last
  BY <1>0 DEF Last
<1>2. \A m \in (last + 1)..n : ~Terminated(s, last, m)
  BY DEF IsEnds
<1>3. CASE ~Terminated(s, last, n + 1)
  <2>1. EndAt(s, e, n + 1) = e
    BY <1>1, <1>3 DEF EndAt
  <2>2. \A m \in (last + 1)..(n + 1) : m = n + 1 \/ m \in (last + 1)..n
    BY <1>1
  <2>3. \A m \in (last + 1)..(n + 1) : ~Terminated(s, last, m)
    BY <1>2, <1>3, <2>2
  <2>4. \A i \in 1..Len(e) : e[i] <= n + 1
    BY <1>0
  <2> QED BY <2>1, <2>3, <2>4 DEF IsEnds
<1>4. CASE Terminated(s, last, n + 1)
  <2> DEFINE d == Append(e, n + 1)
             k == Len(e)
  <2>1. EndAt(s, e, n + 1) = d
    BY <1>1, <1>4 DEF EndAt
  <2>2. /\ d \in Seq(Nat) /\ Len(d) = k + 1 /\ d[k + 1] = n + 1
        /\ \A i \in 1..k : d[i] = e[i]
    BY <1>0, AppendProperties
  <2>3. d[1] = 0 /\ Len(d) >= 1
    BY <1>0, <2>2
  <2>4. \A i \in 1..Len(d) : d[i] <= n + 1
    <3>1. \A i \in 1..Len(d) : i \in 1..k \/ i = k + 1
      BY <1>0, <2>2
    <3>2. \A i \in 1..k : d[i] \in Nat /\ d[i] <= n
      BY <1>0, <2>2
    <3> QED BY <2>2, <3>1, <3>2
  <2>5. ASSUME NEW i \in 1..(Len(d) - 1)
        PROVE  /\ d[i] < d[i + 1] /\ Terminated(s, d[i], d[i + 1])
               /\ \A m \in (d[i] + 1)..(d[i + 1] - 1) : ~Terminated(s, d[i], m)
    <3>1. CASE i = k
      <4>1. d[i] = last /\ d[i + 1] = n + 1 /\ (n + 1) - 1 = n
        BY <1>0, <2>2, <3>1
      <4>2. last < n + 1
        BY <1>1
      <4>3. \A m \in (d[i] + 1)..(d[i + 1] - 1) : ~Terminated(s, d[i], m)
        BY <1>2, <4>1
      <4> QED BY <1>4, <4>1, <4>2, <4>3
    <3>2. CASE i # k
      <4>1. i \in 1..(k - 1) /\ i \in 1..k /\ i + 1 \in 1..k
        BY <1>0, <2>2, <3>2
      <4>2. d[i] = e[i] /\ d[i + 1] = e[i + 1]
        BY <2>2, <4>1
      <4> QED BY <4>1, <4>2 DEF IsEnds
    <3> QED BY <3>1, <3>2
  <2>6. \A m \in (d[Len(d)] + 1)..(n + 1) : ~Terminated(s, d[Len(d)], m)
    BY <2>2
  <2> HIDE DEF d, k
  <2> QED BY <2>1, <2>2, <2>3, <2>4, <2>5, <2>6 DEF IsEnds
<1> QED BY <1>3, <1>4

\* What EndsWithin computes.
LEMMA EndsRight ==
    ASSUME NEW s, NEW n \in Nat
    PROVE  IsEnds(s, EndsWithin(s, n), n)
<1> DEFINE T == {m \in Nat : IsEnds(s, EndsWithin(s, m), m)}
<1>1. 0 \in T
  <2>1. /\ <<0>> \in Seq(Nat) /\ Len(<<0>>) = 1 /\ <<0>>[1] = 0
        /\ 1..(1 - 1) = {} /\ (0 + 1)..0 = {} /\ \A i \in 1..1 : i = 1
    OBVIOUS
  <2>2. IsEnds(s, <<0>>, 0)
    BY <2>1 DEF IsEnds
  <2> QED BY <2>2, EndsOfNothing
<1>2. ASSUME NEW m \in T PROVE m + 1 \in T
  BY EndsMore, EndsTurn
<1>3. T = Nat
  <2> HIDE DEF T
  <2>1. T \in SUBSET Nat
    BY DEF T
  <2> QED BY <1>1, <1>2, <2>1, NatSetInduction
<1> QED BY <1>3

\* The ends of a stream.
LEMMA EndsFacts ==
    ASSUME NEW s \in Seq(Bytes)
    PROVE  /\ IsEnds(s, EndsOf(s), Len(s))
           /\ EndsOf(s) \in Seq(Nat) /\ Len(EndsOf(s)) \in Nat /\ Len(EndsOf(s)) >= 1
           /\ EndsOf(s)[1] = 0 /\ Last(EndsOf(s)) = EndsOf(s)[Len(EndsOf(s))]
           /\ \A i \in 1..Len(EndsOf(s)) : EndsOf(s)[i] \in 0..Len(s)
           /\ \A i \in 1..(Len(EndsOf(s)) - 1) : EndsOf(s)[i] < EndsOf(s)[i + 1]
<1> DEFINE e == EndsOf(s)
<1>0. Len(s) \in Nat
  BY LenProperties
<1>1. IsEnds(s, e, Len(s))
  BY <1>0, EndsRight DEF EndsOf
<1> HIDE DEF e
<1>2. e \in Seq(Nat) /\ Len(e) >= 1 /\ e[1] = 0 /\ \A i \in 1..Len(e) : e[i] <= Len(s)
  BY <1>1 DEF IsEnds
<1>3. Len(e) \in Nat /\ \A i \in 1..Len(e) : e[i] \in Nat
  BY <1>2, LenProperties, ElementOfSeq
<1>4. \A i \in 1..(Len(e) - 1) : e[i] < e[i + 1]
  BY <1>1 DEF IsEnds
<1>5. \A i \in 1..Len(e) : e[i] \in 0..Len(s)
  BY <1>0, <1>2, <1>3
<1> QED BY <1>1, <1>2, <1>3, <1>4, <1>5 DEF e, Last

\* The next end is where the first terminator behind an end ends.
LEMMA NextEnd ==
    ASSUME NEW s \in Seq(Bytes), NEW i \in 1..Len(EndsOf(s)), NEW x \in 1..Len(s),
           Terminated(s, EndsOf(s)[i], x), EndsOf(s)[i] < x,
           \A m \in 1..Len(s) : Terminated(s, EndsOf(s)[i], m) => x <= m
    PROVE  i + 1 \in 1..Len(EndsOf(s)) /\ EndsOf(s)[i + 1] = x
<1> DEFINE e == EndsOf(s)
<1>0. /\ IsEnds(s, e, Len(s)) /\ Len(e) \in Nat /\ Len(s) \in Nat
      /\ \A j \in 1..Len(e) : e[j] \in 0..Len(s)
  BY EndsFacts, LenProperties
<1> HIDE DEF e
<1>1. i \in 1..Len(e) /\ Terminated(s, e[i], x) /\ e[i] < x
      /\ \A m \in 1..Len(s) : Terminated(s, e[i], m) => x <= m
  BY DEF e
<1>2. i # Len(e)
  <2> SUFFICES ASSUME i = Len(e) PROVE FALSE
    OBVIOUS
  <2>1. x \in (e[Len(e)] + 1)..Len(s)
    BY <1>0, <1>1
  <2> QED BY <1>0, <1>1, <2>1 DEF IsEnds
<1>3. i \in 1..(Len(e) - 1) /\ i + 1 \in 1..Len(e)
  BY <1>0, <1>1, <1>2
<1>4. /\ e[i] < e[i + 1] /\ Terminated(s, e[i], e[i + 1])
      /\ \A m \in (e[i] + 1)..(e[i + 1] - 1) : ~Terminated(s, e[i], m)
  BY <1>0, <1>3 DEF IsEnds
<1>5. e[i + 1] \in 1..Len(s)
  BY <1>0, <1>1, <1>3, <1>4
<1>6. x <= e[i + 1]
  BY <1>1, <1>4, <1>5
<1>7. x \notin (e[i] + 1)..(e[i + 1] - 1)
  BY <1>1, <1>4
<1>8. e[i + 1] = x
  BY <1>0, <1>1, <1>3, <1>5, <1>6, <1>7
<1> QED BY <1>3, <1>8 DEF e

\* An end behind which no terminator ends is the last.
LEMMA LastEnd ==
    ASSUME NEW s \in Seq(Bytes), NEW i \in 1..Len(EndsOf(s)),
           \A m \in 1..Len(s) : ~Terminated(s, EndsOf(s)[i], m)
    PROVE  Len(EndsOf(s)) = i
<1> DEFINE e == EndsOf(s)
<1>0. /\ IsEnds(s, e, Len(s)) /\ Len(e) \in Nat /\ Len(s) \in Nat
      /\ \A j \in 1..Len(e) : e[j] \in 0..Len(s)
  BY EndsFacts, LenProperties
<1> HIDE DEF e
<1>1. i \in 1..Len(e) /\ \A m \in 1..Len(s) : ~Terminated(s, e[i], m)
  BY DEF e
<1>2. ASSUME i # Len(e) PROVE FALSE
  <2>1. i \in 1..(Len(e) - 1) /\ i + 1 \in 1..Len(e)
    BY <1>0, <1>1, <1>2
  <2>2. e[i] < e[i + 1] /\ Terminated(s, e[i], e[i + 1])
    BY <1>0, <2>1 DEF IsEnds
  <2>3. e[i + 1] \in 1..Len(s)
    BY <1>0, <1>1, <2>1, <2>2
  <2> QED BY <1>1, <2>2, <2>3
<1> QED BY <1>2 DEF e

-----------------------------------------------------------------------------
(* A stream that grows.                                                    *)

\* The bytes that were there stay.
LEMMA GrownBytes ==
    ASSUME NEW s \in Seq(Bytes), NEW f \in Seq(Bytes)
    PROVE  /\ s \o f \in Seq(Bytes) /\ Len(s) \in Nat /\ Len(f) \in Nat
           /\ Len(s \o f) = Len(s) + Len(f) /\ \A i \in 1..Len(s) : (s \o f)[i] = s[i]
<1>1. /\ s \o f \in Seq(Bytes) /\ Len(s \o f) = Len(s) + Len(f)
      /\ \A i \in 1..(Len(s) + Len(f)) : (s \o f)[i] = IF i <= Len(s) THEN s[i] ELSE f[i - Len(s)]
  BY ConcatProperties
<1>2. Len(s) \in Nat /\ Len(f) \in Nat
  BY LenProperties
<1>3. \A i \in 1..Len(s) : i \in 1..(Len(s) + Len(f)) /\ i <= Len(s)
  BY <1>2
<1> QED BY <1>1, <1>2, <1>3

\* So do the terminators.
LEMMA GrownTerminated ==
    ASSUME NEW s \in Seq(Bytes), NEW f \in Seq(Bytes), NEW a \in Nat, NEW n \in 1..Len(s)
    PROVE  Terminated(s \o f, a, n) <=> Terminated(s, a, n)
<1> DEFINE r == s \o f
<1>1. r \in Seq(Bytes) /\ Len(s) \in Nat /\ Len(f) \in Nat /\ Len(r) = Len(s) + Len(f)
      /\ \A i \in 1..Len(s) : r[i] = s[i]
  BY GrownBytes
<1> HIDE DEF r
<1>2. n \in 0..Len(s) /\ n \in 0..Len(r) /\ n \in Nat
  BY <1>1
<1>3. Ended(r, a, n) <=> Ended(s, a, n)
  <2>1. r[n] = s[n]
    BY <1>1
  <2>2. n >= a + 2 => n - 1 \in 1..Len(s)
    BY <1>1, <1>2
  <2>3. n >= a + 4 => n - 1 \in 1..Len(s) /\ n - 2 \in 1..Len(s) /\ n - 3 \in 1..Len(s)
    BY <1>1, <1>2
  <2> QED BY <1>1, <2>1, <2>2, <2>3 DEF Ended
<1> QED BY <1>1, <1>2, <1>3, TerminatedMeans DEF r

\* So do the ends of the events.
LEMMA GrownEnds ==
    ASSUME NEW s \in Seq(Bytes), NEW f \in Seq(Bytes)
    PROVE  /\ Len(EndsOf(s)) <= Len(EndsOf(s \o f))
           /\ \A i \in 1..Len(EndsOf(s)) : EndsOf(s \o f)[i] = EndsOf(s)[i]
<1> DEFINE r == s \o f
           e == EndsOf(s)
           d == EndsOf(r)
<1>0. r \in Seq(Bytes) /\ Len(s) \in Nat /\ Len(f) \in Nat /\ Len(r) = Len(s) + Len(f)
  BY GrownBytes
<1>1. \A a \in Nat : \A n \in 1..Len(s) : Terminated(r, a, n) <=> Terminated(s, a, n)
  BY GrownTerminated
<1> HIDE DEF r
<1>2. /\ IsEnds(s, e, Len(s)) /\ Len(e) \in Nat /\ Len(e) >= 1 /\ e[1] = 0
      /\ \A i \in 1..Len(e) : e[i] \in 0..Len(s)
  BY EndsFacts
<1>3. /\ IsEnds(r, d, Len(r)) /\ Len(d) \in Nat /\ Len(d) >= 1 /\ d[1] = 0
      /\ \A i \in 1..Len(d) : d[i] \in 0..Len(r)
  BY <1>0, EndsFacts
<1> HIDE DEF e, d
<1> DEFINE T == {j \in Nat : j + 1 <= Len(e) => j + 1 <= Len(d) /\ d[j + 1] = e[j + 1]}
<1>4. 0 \in T
  BY <1>2, <1>3
<1>5. ASSUME NEW j \in T PROVE j + 1 \in T
  <2> SUFFICES ASSUME (j + 1) + 1 <= Len(e)
               PROVE  (j + 1) + 1 <= Len(d) /\ d[(j + 1) + 1] = e[(j + 1) + 1]
    OBVIOUS
  <2> DEFINE i == j + 1
             x == e[i + 1]
             a == e[i]
  <2>1. i \in Nat /\ i <= Len(d) /\ d[i] = a /\ i \in 1..(Len(e) - 1) /\ i \in 1..Len(e)
        /\ i + 1 \in 1..Len(e) /\ i \in 1..Len(d)
    BY <1>2, <1>3
  <2> HIDE DEF T, i
  <2>2. /\ a \in Nat /\ x \in Nat /\ a < x /\ x <= Len(s) /\ x \in 1..Len(s)
        /\ Terminated(s, a, x) /\ \A m \in (a + 1)..(x - 1) : ~Terminated(s, a, m)
    <3>1. a < x /\ Terminated(s, a, x) /\ \A m \in (a + 1)..(x - 1) : ~Terminated(s, a, m)
      BY <1>2, <2>1 DEF IsEnds
    <3>2. a \in 0..Len(s) /\ x \in 0..Len(s)
      BY <1>2, <2>1
    <3> QED BY <1>0, <3>1, <3>2
  <2> HIDE DEF x, a
  <2>3. Terminated(r, a, x)
    BY <1>1, <2>2
  <2>4. i # Len(d)
    <3> SUFFICES ASSUME i = Len(d) PROVE FALSE
      OBVIOUS
    <3>1. x \in (d[Len(d)] + 1)..Len(r)
      BY <1>0, <2>1, <2>2
    <3> QED BY <1>3, <2>1, <2>3, <3>1 DEF IsEnds
  <2>5. i \in 1..(Len(d) - 1) /\ i + 1 \in 1..Len(d) /\ i + 1 <= Len(d)
    BY <1>3, <2>1, <2>4
  <2> DEFINE y == d[i + 1]
  <2>6. /\ a < y /\ Terminated(r, a, y) /\ y \in 0..Len(r)
        /\ \A m \in (a + 1)..(y - 1) : ~Terminated(r, a, m)
    <3>1. d[i] < y /\ Terminated(r, d[i], y) /\ \A m \in (d[i] + 1)..(y - 1) : ~Terminated(r, d[i], m)
      BY <1>3, <2>5 DEF IsEnds
    <3> QED BY <1>3, <2>1, <2>5, <3>1
  <2> HIDE DEF y
  <2>7. ~(y < x)
    <3> SUFFICES ASSUME y < x PROVE FALSE
      OBVIOUS
    <3>1. y \in (a + 1)..(x - 1) /\ y \in 1..Len(s)
      BY <1>0, <2>2, <2>6
    <3> QED BY <1>1, <2>2, <2>6, <3>1
  <2>8. ~(x < y)
    <3> SUFFICES ASSUME x < y PROVE FALSE
      OBVIOUS
    <3>1. x \in (a + 1)..(y - 1)
      BY <1>0, <2>2, <2>6
    <3> QED BY <2>3, <2>6, <3>1
  <2>9. y = x
    BY <1>0, <2>2, <2>6, <2>7, <2>8
  <2> QED BY <2>5, <2>9 DEF i, x, y
<1>6. T = Nat
  <2> HIDE DEF T
  <2>1. T \in SUBSET Nat
    BY DEF T
  <2> QED BY <1>4, <1>5, <2>1, NatSetInduction
<1>7. ASSUME NEW i \in 1..Len(e) PROVE i <= Len(d) /\ d[i] = e[i]
  <2>1. i - 1 \in Nat /\ (i - 1) + 1 = i /\ i <= Len(e)
    BY <1>2
  <2>2. i - 1 \in T
    BY <1>6, <2>1
  <2> QED BY <2>1, <2>2
<1>8. Len(e) \in 1..Len(e)
  BY <1>2
<1> QED BY <1>7, <1>8 DEF e, d, r

-----------------------------------------------------------------------------
(* Events.                                                                 *)

StoredEvents == [bytes : Seq(Bytes), note : BOOLEAN]

\* What is stored of an event.
LEMMA StoredFacts ==
    ASSUME NEW u \in Seq(Bytes)
    PROVE  TruncateEvent(u) \in StoredEvents /\ Saved(u) \in StoredEvents
<1>1. MaxEventBytes \in Nat
  BY SseAssumption
<1>2. Take(u, MaxEventBytes) \in Seq(Bytes)
  BY <1>1, TakeFacts
<1> QED BY <1>2 DEF StoredEvents, TruncateEvent, Saved, Whole

\* Of two events that are too long and begin alike the same is stored.
LEMMA SameTruncated ==
    ASSUME NEW u \in Seq(Bytes), NEW v \in Seq(Bytes),
           MaxEventBytes < Len(u), MaxEventBytes < Len(v),
           \A i \in 1..MaxEventBytes : u[i] = v[i]
    PROVE  TruncateEvent(u) = TruncateEvent(v) /\ Saved(v) = TruncateEvent(v)
<1>0. MaxEventBytes \in Nat /\ Len(u) \in Nat /\ Len(v) \in Nat
  BY SseAssumption, LenProperties
<1>1. /\ Take(u, MaxEventBytes) \in Seq(Bytes) /\ Len(Take(u, MaxEventBytes)) = MaxEventBytes
      /\ \A i \in 1..MaxEventBytes : Take(u, MaxEventBytes)[i] = u[i]
  BY <1>0, TakeFacts
<1>2. /\ Take(v, MaxEventBytes) \in Seq(Bytes) /\ Len(Take(v, MaxEventBytes)) = MaxEventBytes
      /\ \A i \in 1..MaxEventBytes : Take(v, MaxEventBytes)[i] = v[i]
  BY <1>0, TakeFacts
<1>3. Take(u, MaxEventBytes) = Take(v, MaxEventBytes)
  BY <1>1, <1>2, SeqEqual
<1> QED BY <1>0, <1>3 DEF TruncateEvent, Saved

\* The events one by one.
LEMMA EventsFacts ==
    ASSUME NEW s \in Seq(Bytes)
    PROVE  LET e == EndsOf(s)
               k == Len(e)
               rest == Drop(s, e[k]) IN
           /\ RemainderOf(s) = rest /\ rest \in Seq(Bytes) /\ Len(rest) = Len(s) - e[k]
           /\ EventsOf(s) \in Seq(StoredEvents)
           /\ Len(EventsOf(s)) = IF Len(rest) > MaxEventBytes THEN k ELSE k - 1
           /\ \A i \in 1..(k - 1) : EventsOf(s)[i] = Saved(SubSeq(s, e[i] + 1, e[i + 1]))
           /\ Len(rest) > MaxEventBytes => EventsOf(s)[k] = TruncateEvent(rest)
<1> DEFINE e == EndsOf(s)
           k == Len(e)
           rest == Drop(s, e[k])
           done == [i \in 1..(k - 1) |-> Saved(SubSeq(s, e[i] + 1, e[i + 1]))]
           long == Len(rest) > MaxEventBytes
           more == IF long THEN <<TruncateEvent(rest)>> ELSE <<>>
<1>0. /\ Len(s) \in Nat /\ k \in Nat /\ k >= 1 /\ k \in 1..k /\ Last(e) = e[k]
      /\ \A i \in 1..k : e[i] \in 0..Len(s)
      /\ \A i \in 1..(k - 1) : e[i] < e[i + 1]
  BY EndsFacts, LenProperties
<1>1. RemainderOf(s) = rest
  BY <1>0 DEF RemainderOf
<1>2. EventsOf(s) = done \o more
  BY <1>1 DEF EventsOf
<1> HIDE DEF e, k
<1>3. rest \in Seq(Bytes) /\ Len(rest) = Len(s) - e[k]
  BY <1>0, DropFacts
<1>4. ASSUME NEW i \in 1..(k - 1) PROVE done[i] \in StoredEvents
  <2>1. i \in 1..k /\ i + 1 \in 1..k
    BY <1>0
  <2>2. e[i] \in Nat /\ e[i + 1] \in Nat /\ e[i] <= e[i + 1] /\ e[i + 1] <= Len(s)
    BY <1>0, <2>1
  <2>3. SubSeq(s, e[i] + 1, e[i + 1]) \in Seq(Bytes)
    BY <2>2, PartFacts
  <2> QED BY <2>3, StoredFacts
<1>5. done \in Seq(StoredEvents) /\ Len(done) = k - 1
  <2>1. k - 1 \in Nat /\ done \in [1..(k - 1) -> StoredEvents]
    BY <1>0, <1>4
  <2> HIDE DEF done
  <2> QED BY <2>1
<1>6. more \in Seq(StoredEvents) /\ Len(more) = (IF long THEN 1 ELSE 0)
      /\ (long => more[1] = TruncateEvent(rest))
  <2>1. TruncateEvent(rest) \in StoredEvents
    BY <1>3, StoredFacts
  <2> HIDE DEF rest, long
  <2> QED BY <2>1
<1>7. \A i \in 1..(k - 1) : done[i] = Saved(SubSeq(s, e[i] + 1, e[i + 1]))
  OBVIOUS
<1> HIDE DEF done, more
<1>8. /\ done \o more \in Seq(StoredEvents) /\ Len(done \o more) = Len(done) + Len(more)
      /\ \A i \in 1..(Len(done) + Len(more)) :
            (done \o more)[i] = IF i <= Len(done) THEN done[i] ELSE more[i - Len(done)]
  BY <1>5, <1>6, ConcatProperties
<1>9. Len(EventsOf(s)) = IF long THEN k ELSE k - 1
  BY <1>0, <1>2, <1>5, <1>6, <1>8
<1>10. ASSUME NEW i \in 1..(k - 1) PROVE EventsOf(s)[i] = Saved(SubSeq(s, e[i] + 1, e[i + 1]))
  <2>1. i \in 1..(Len(done) + Len(more)) /\ i <= Len(done)
    BY <1>0, <1>5, <1>6
  <2> QED BY <1>2, <1>7, <1>8, <2>1
<1>11. long => EventsOf(s)[k] = TruncateEvent(rest)
  <2> SUFFICES ASSUME long PROVE EventsOf(s)[k] = TruncateEvent(rest)
    OBVIOUS
  <2>1. k \in 1..(Len(done) + Len(more)) /\ ~(k <= Len(done)) /\ k - Len(done) = 1
    BY <1>0, <1>5, <1>6
  <2> QED BY <1>2, <1>6, <1>8, <2>1
<1> QED BY <1>1, <1>2, <1>3, <1>8, <1>9, <1>10, <1>11 DEF e, k

\* A part of what was there stays.
LEMMA GrownPart ==
    ASSUME NEW s \in Seq(Bytes), NEW f \in Seq(Bytes), NEW a \in Nat, NEW b \in Nat, a <= b,
           b <= Len(s)
    PROVE  SubSeq(s \o f, a + 1, b) = SubSeq(s, a + 1, b)
<1> DEFINE r == s \o f
<1>1. r \in Seq(Bytes) /\ Len(s) \in Nat /\ Len(f) \in Nat /\ Len(r) = Len(s) + Len(f)
      /\ \A i \in 1..Len(s) : r[i] = s[i]
  BY GrownBytes
<1> HIDE DEF r
<1>2. b <= Len(r)
  BY <1>1
<1>3. /\ SubSeq(r, a + 1, b) \in Seq(Bytes) /\ Len(SubSeq(r, a + 1, b)) = b - a
      /\ \A i \in 1..(b - a) : SubSeq(r, a + 1, b)[i] = r[a + i]
  BY <1>1, <1>2, PartFacts
<1>4. /\ SubSeq(s, a + 1, b) \in Seq(Bytes) /\ Len(SubSeq(s, a + 1, b)) = b - a
      /\ \A i \in 1..(b - a) : SubSeq(s, a + 1, b)[i] = s[a + i]
  BY PartFacts
<1>5. \A i \in 1..(b - a) : a + i \in 1..Len(s)
  BY <1>1
<1>6. \A i \in 1..(b - a) : SubSeq(r, a + 1, b)[i] = SubSeq(s, a + 1, b)[i]
  BY <1>1, <1>3, <1>4, <1>5
<1>7. SubSeq(r, a + 1, b) = SubSeq(s, a + 1, b)
  BY <1>3, <1>4, <1>6, SeqEqual
<1> QED BY <1>7 DEF r

\* A frame that comes is added to what is left.
LEMMA GrownDrop ==
    ASSUME NEW s \in Seq(Bytes), NEW f \in Seq(Bytes), NEW n \in 0..Len(s)
    PROVE  Drop(s \o f, n) = Drop(s, n) \o f
<1> DEFINE r == s \o f
<1>1. r \in Seq(Bytes) /\ Len(s) \in Nat /\ Len(f) \in Nat /\ Len(r) = Len(s) + Len(f)
      /\ \A i \in 1..(Len(s) + Len(f)) : r[i] = IF i <= Len(s) THEN s[i] ELSE f[i - Len(s)]
  BY GrownBytes, ConcatProperties
<1> HIDE DEF r
<1>2. n \in 0..Len(r) /\ n \in Nat /\ n <= Len(s)
  BY <1>1
<1> DEFINE u == Drop(s, n)
           v == Drop(r, n)
<1>3. v \in Seq(Bytes) /\ Len(v) = Len(r) - n /\ \A i \in 1..(Len(r) - n) : v[i] = r[n + i]
  BY <1>1, <1>2, DropFacts
<1>4. u \in Seq(Bytes) /\ Len(u) = Len(s) - n /\ \A i \in 1..(Len(s) - n) : u[i] = s[n + i]
  BY DropFacts
<1> HIDE DEF u, v
<1>5. /\ u \o f \in Seq(Bytes) /\ Len(u \o f) = (Len(s) - n) + Len(f)
      /\ \A i \in 1..((Len(s) - n) + Len(f)) :
            (u \o f)[i] = IF i <= Len(s) - n THEN u[i] ELSE f[i - (Len(s) - n)]
  <2>1. /\ u \o f \in Seq(Bytes) /\ Len(u \o f) = Len(u) + Len(f)
        /\ \A i \in 1..(Len(u) + Len(f)) : (u \o f)[i] = IF i <= Len(u) THEN u[i] ELSE f[i - Len(u)]
    BY <1>4, ConcatProperties
  <2>2. Len(u) = Len(s) - n
    BY <1>4
  <2> QED BY <2>1, <2>2
<1>6. ASSUME NEW i \in 1..((Len(s) - n) + Len(f)) PROVE v[i] = (u \o f)[i]
  <2>1. i \in 1..(Len(r) - n) /\ n + i \in 1..(Len(s) + Len(f)) /\ i \in Nat
    BY <1>1, <1>2
  <2>2. v[i] = r[n + i]
    BY <1>3, <2>1
  <2>3. CASE i <= Len(s) - n
    <3>1. i \in 1..(Len(s) - n) /\ n + i <= Len(s)
      BY <1>1, <1>2, <2>1, <2>3
    <3>2. r[n + i] = s[n + i] /\ u[i] = s[n + i]
      BY <1>1, <1>4, <2>1, <3>1
    <3> QED BY <1>5, <2>2, <2>3, <3>2
  <2>4. CASE ~(i <= Len(s) - n)
    <3>1. ~(n + i <= Len(s)) /\ (n + i) - Len(s) = i - (Len(s) - n)
      BY <1>1, <1>2, <2>1, <2>4
    <3>2. r[n + i] = f[i - (Len(s) - n)]
      BY <1>1, <2>1, <3>1
    <3> QED BY <1>5, <2>2, <2>4, <3>2
  <2> QED BY <2>3, <2>4
<1>7. Len(v) = (Len(s) - n) + Len(f) /\ v \in Seq(Bytes)
  BY <1>1, <1>2, <1>3
<1>8. v = u \o f
  BY <1>5, <1>6, <1>7, SeqEqual
<1> QED BY <1>8 DEF u, v, r

\* The events of a stream are the first of a longer one: one that is too long is
\* stored as it will be when its end is known.
LEMMA GrownEvents ==
    ASSUME NEW s \in Seq(Bytes), NEW f \in Seq(Bytes)
    PROVE  /\ Len(EventsOf(s)) <= Len(EventsOf(s \o f))
           /\ \A i \in 1..Len(EventsOf(s)) : EventsOf(s \o f)[i] = EventsOf(s)[i]
<1> DEFINE r == s \o f
           e == EndsOf(s)
           d == EndsOf(r)
           k == Len(e)
           n == Len(d)
           a == e[k]
           rest == Drop(s, a)
           tail == Drop(r, d[n])
<1>0. r \in Seq(Bytes) /\ Len(s) \in Nat /\ Len(f) \in Nat /\ Len(r) = Len(s) + Len(f)
      /\ \A i \in 1..Len(s) : r[i] = s[i]
  BY GrownBytes
<1>1. k <= n /\ \A i \in 1..k : d[i] = e[i]
  BY GrownEnds
<1>2. ASSUME NEW i \in 1..k, NEW j \in 1..k, e[i] <= e[j]
      PROVE  SubSeq(r, e[i] + 1, e[j]) = SubSeq(s, e[i] + 1, e[j])
  <2>1. e[i] \in 0..Len(s) /\ e[j] \in 0..Len(s)
    BY EndsFacts
  <2>2. e[i] \in Nat /\ e[j] \in Nat /\ e[j] <= Len(s)
    BY <1>0, <2>1
  <2> QED BY <1>2, <2>2, GrownPart
<1>3. \A m \in 1..Len(s) : Terminated(r, a, m) <=> Terminated(s, a, m)
  <2>1. Len(EndsOf(s)) \in 1..Len(EndsOf(s)) /\ a \in 0..Len(s)
    BY EndsFacts
  <2> QED BY <1>0, <2>1, GrownTerminated
<1> HIDE DEF r
<1>4. /\ IsEnds(s, e, Len(s)) /\ k \in Nat /\ k >= 1 /\ k \in 1..k
      /\ \A i \in 1..k : e[i] \in 0..Len(s)
      /\ \A i \in 1..(k - 1) : e[i] < e[i + 1]
  BY EndsFacts
<1>5. /\ IsEnds(r, d, Len(r)) /\ n \in Nat /\ n >= 1
      /\ \A i \in 1..n : d[i] \in 0..Len(r)
      /\ \A i \in 1..(n - 1) : d[i] < d[i + 1]
  BY <1>0, EndsFacts
<1>6. /\ rest \in Seq(Bytes) /\ Len(rest) = Len(s) - a
      /\ Len(EventsOf(s)) = (IF Len(rest) > MaxEventBytes THEN k ELSE k - 1)
      /\ \A i \in 1..(k - 1) : EventsOf(s)[i] = Saved(SubSeq(s, e[i] + 1, e[i + 1]))
      /\ Len(rest) > MaxEventBytes => EventsOf(s)[k] = TruncateEvent(rest)
  BY EventsFacts
<1>7. /\ tail \in Seq(Bytes) /\ Len(tail) = Len(r) - d[n]
      /\ Len(EventsOf(r)) = (IF Len(tail) > MaxEventBytes THEN n ELSE n - 1)
      /\ \A i \in 1..(n - 1) : EventsOf(r)[i] = Saved(SubSeq(r, d[i] + 1, d[i + 1]))
      /\ Len(tail) > MaxEventBytes => EventsOf(r)[n] = TruncateEvent(tail)
  BY <1>0, EventsFacts
<1> HIDE DEF e, d, k, n
<1>8. ASSUME NEW i \in 1..(k - 1) PROVE EventsOf(r)[i] = EventsOf(s)[i]
  <2>1. i \in 1..k /\ i + 1 \in 1..k /\ i \in 1..(n - 1)
    BY <1>1, <1>4, <1>5
  <2>2. e[i] <= e[i + 1]
    BY <1>0, <1>4, <2>1
  <2>3. d[i] = e[i] /\ d[i + 1] = e[i + 1]
    BY <1>1, <2>1
  <2>4. SubSeq(r, e[i] + 1, e[i + 1]) = SubSeq(s, e[i] + 1, e[i + 1])
    BY <1>2, <2>1, <2>2
  <2> QED BY <1>6, <1>7, <2>1, <2>3, <2>4
<1>9. a \in Nat /\ a <= Len(s) /\ d[k] = a
  BY <1>0, <1>1, <1>4
<1>10. CASE Len(rest) > MaxEventBytes
  <2>0. MaxEventBytes \in Nat
    BY SseAssumption
  <2>1. \A i \in 1..MaxEventBytes : rest[i] = r[a + i] /\ i \in Nat /\ a + i \in 1..Len(s)
    <3>1. \A i \in 1..MaxEventBytes : i \in 1..(Len(s) - a) /\ a + i \in 1..Len(s)
      BY <1>0, <1>6, <1>9, <1>10, <2>0
    <3>2. a \in 0..Len(s)
      BY <1>0, <1>9
    <3>3. \A i \in 1..(Len(s) - a) : rest[i] = s[a + i]
      BY <3>2, DropFacts
    <3> QED BY <1>0, <2>0, <3>1, <3>3
  <2>2. CASE k < n
    <3> DEFINE x == d[k + 1]
               v == SubSeq(r, a + 1, x)
    <3>1. k \in 1..(n - 1) /\ k + 1 \in 1..n
      BY <1>4, <1>5, <2>2
    <3>2. a < x /\ x \in 0..Len(r) /\ Terminated(r, a, x) /\ x \in Nat
      <4>1. d[k] < x /\ Terminated(r, d[k], x)
        BY <1>5, <3>1 DEF IsEnds, n
      <4> QED BY <1>0, <1>5, <1>9, <3>1, <4>1
    <3>3. x > Len(s)
      <4> SUFFICES ASSUME ~(x > Len(s)) PROVE FALSE
        OBVIOUS
      <4>1. x \in 1..Len(s) /\ x \in (a + 1)..Len(s)
        BY <1>0, <1>9, <3>2
      <4>2. Terminated(s, a, x)
        BY <1>3, <3>2, <4>1
      <4> QED BY <1>4, <4>1, <4>2 DEF IsEnds, k
    <3>4. v \in Seq(Bytes) /\ Len(v) = x - a /\ \A i \in 1..(x - a) : v[i] = r[a + i]
      <4>1. a <= x /\ x <= Len(r)
        BY <1>0, <1>9, <3>2
      <4> QED BY <1>0, <1>9, <3>2, <4>1, PartFacts
    <3> HIDE DEF x, v
    <3>5. Len(v) > MaxEventBytes
      <4> HIDE DEF rest, a
      <4> QED BY <1>0, <1>6, <1>9, <1>10, <2>0, <3>2, <3>3, <3>4
    <3>6. \A i \in 1..MaxEventBytes : rest[i] = v[i]
      <4>1. \A i \in 1..MaxEventBytes : i \in 1..(x - a)
        BY <1>9, <2>0, <3>2, <3>4, <3>5
      <4> QED BY <2>1, <3>4, <4>1
    <3>7. TruncateEvent(rest) = TruncateEvent(v) /\ Saved(v) = TruncateEvent(v)
      BY <1>6, <1>10, <3>4, <3>5, <3>6, SameTruncated
    <3>8. EventsOf(r)[k] = Saved(v)
      BY <1>7, <1>9, <3>1 DEF v, x
    <3>9. EventsOf(r)[k] = EventsOf(s)[k]
      BY <1>6, <1>10, <3>7, <3>8
    <3>10. k <= Len(EventsOf(r)) /\ Len(EventsOf(s)) = k
      BY <1>4, <1>5, <1>6, <1>7, <1>10, <2>2
    <3>11. \A i \in 1..k : i \in 1..(k - 1) \/ i = k
      BY <1>4
    <3> QED BY <1>8, <3>9, <3>10, <3>11 DEF r
  <2>3. CASE k = n
    <3>1. d[n] = a /\ Len(tail) = Len(r) - a /\ a \in 0..Len(r)
      BY <1>0, <1>7, <1>9, <2>3
    <3>2. Len(tail) > MaxEventBytes
      BY <1>0, <1>6, <1>9, <1>10, <2>0, <3>1
    <3>3. \A i \in 1..(Len(r) - a) : tail[i] = r[a + i]
      BY <1>0, <3>1, DropFacts
    <3>4. \A i \in 1..MaxEventBytes : rest[i] = tail[i]
      <4>1. \A i \in 1..MaxEventBytes : i \in 1..(Len(r) - a)
        BY <1>0, <1>9, <2>0, <3>1, <3>2
      <4> QED BY <2>1, <3>3, <4>1
    <3>5. TruncateEvent(rest) = TruncateEvent(tail)
      BY <1>6, <1>7, <1>10, <3>2, <3>4, SameTruncated
    <3>6. EventsOf(r)[k] = EventsOf(s)[k]
      BY <1>6, <1>7, <1>10, <2>3, <3>2, <3>5
    <3>7. Len(EventsOf(r)) = k /\ Len(EventsOf(s)) = k
      BY <1>6, <1>7, <1>10, <2>3, <3>2
    <3>8. \A i \in 1..k : i \in 1..(k - 1) \/ i = k
      BY <1>4
    <3> QED BY <1>4, <1>8, <3>6, <3>7, <3>8 DEF r
  <2> QED BY <1>1, <1>4, <1>5, <2>2, <2>3
<1>11. CASE ~(Len(rest) > MaxEventBytes)
  <2>1. Len(EventsOf(s)) = k - 1
    BY <1>6, <1>11
  <2>2. k - 1 <= Len(EventsOf(r))
    BY <1>1, <1>4, <1>5, <1>7
  <2> QED BY <1>8, <2>1, <2>2 DEF r
<1> QED BY <1>10, <1>11

-----------------------------------------------------------------------------
(* The invariant.                                                          *)

\* What the types say of the capture.
LEMMA CaptureTypes ==
    ASSUME TypeOK
    PROVE  /\ stream \in Seq(Bytes) /\ buffer \in Seq(Bytes) /\ sent \in Seq(StoredEvents)
           /\ Len(stream) \in Nat /\ Len(buffer) \in Nat /\ Len(sent) \in Nat
           /\ Len(sent) <= MaxEvents /\ MaxEvents \in Nat /\ MaxEventBytes \in Nat
           /\ Events \in Seq(StoredEvents) /\ Len(Events) \in Nat
<1>1. stream \in Seq(Bytes) /\ buffer \in Seq(Bytes) /\ sent \in Seq(StoredEvents)
      /\ Len(sent) <= MaxEvents
  BY DEF TypeOK, StoredEvents
<1>2. Events \in Seq(StoredEvents)
  BY <1>1, EventsFacts DEF Events
<1> QED BY <1>1, <1>2, SseAssumption, LenProperties

\* Between two frames all events that there are have been sent, or as many as may be.
LEMMA Quiet ==
    ASSUME CaptureInv, ~scanning, ~finished
    PROVE  /\ FramesDoNotMatter
           /\ CaptureLimitReached(Len(sent)) =>
                 MaxEvents = 0 \/ MaxEventBytes = 0 \/ Len(Events) >= MaxEvents
           /\ ~CaptureLimitReached(Len(sent)) =>
                 /\ Len(Events) = Len(sent)
                 /\ discarding => Len(Remainder) > MaxEventBytes
                 /\ ~discarding => Remainder = buffer /\ Len(buffer) <= MaxEventBytes
<1> DEFINE k == Len(sent)
           e == EndsOf(stream)
<1>0. /\ stream \in Seq(Bytes) /\ buffer \in Seq(Bytes) /\ sent \in Seq(StoredEvents)
      /\ Len(stream) \in Nat /\ Len(buffer) \in Nat /\ k \in Nat
      /\ k <= MaxEvents /\ MaxEvents \in Nat /\ MaxEventBytes \in Nat
      /\ Events \in Seq(StoredEvents) /\ Len(Events) \in Nat
  BY CaptureTypes DEF CaptureInv
<1>1. k <= Len(Events) /\ \A i \in 1..k : sent[i] = Events[i]
  BY DEF CaptureInv, SentAreFirst
<1>2. CaptureLimitReached(k) => MaxEvents = 0 \/ MaxEventBytes = 0 \/ Len(Events) >= MaxEvents
  BY <1>0, <1>1 DEF CaptureLimitReached
<1>3. ASSUME ~CaptureLimitReached(k)
      PROVE  /\ Len(Events) = k
             /\ discarding => Len(Remainder) > MaxEventBytes
             /\ ~discarding => Remainder = buffer /\ Len(buffer) <= MaxEventBytes
  <2>1. PICK at \in 0..Len(stream) : Position(at)
    BY <1>3 DEF CaptureInv
  <2>2. /\ buffer = Drop(stream, at)
        /\ discarding => k \in 1..Len(e) /\ InTruncated(stream, e[k], at)
        /\ ~discarding => k + 1 \in 1..Len(e) /\ at = e[k + 1] /\ Len(buffer) <= MaxEventBytes
        /\ EventEnd(buffer) = 0
    BY <2>1 DEF Position
  <2>3. \A m \in 1..Len(stream) : ~Terminated(stream, at, m)
    BY <1>0, <2>2, EndInStream
  <2>4. LET rest == Drop(stream, e[Len(e)]) IN
        /\ Remainder = rest /\ Len(rest) = Len(stream) - e[Len(e)]
        /\ Len(Events) = IF Len(rest) > MaxEventBytes THEN Len(e) ELSE Len(e) - 1
    BY <1>0, EventsFacts DEF Events, Remainder
  <2>5. CASE discarding
    <3>1. k \in 1..Len(e) /\ \A m \in 1..Len(stream) : ~Terminated(stream, e[k], m)
      BY <2>2, <2>3, <2>5 DEF InTruncated
    <3>2. Len(e) = k
      BY <1>0, <3>1, LastEnd
    <3>3. e[k] + MaxEventBytes < Len(stream)
      BY <2>2, <2>5 DEF InTruncated
    <3>4. e[k] \in Nat
      BY <1>0, <3>1, EndsFacts
    <3> QED BY <1>0, <2>4, <2>5, <3>2, <3>3, <3>4
  <2>6. CASE ~discarding
    <3>1. k + 1 \in 1..Len(e) /\ at = e[k + 1]
      BY <2>2, <2>6
    <3>2. Len(e) = k + 1
      BY <1>0, <2>3, <3>1, LastEnd
    <3>3. Remainder = buffer
      BY <2>2, <2>4, <3>1, <3>2
    <3>4. ~(Len(buffer) > MaxEventBytes)
      BY <1>0, <2>2, <2>6
    <3>5. Len(Events) = Len(e) - 1
      BY <2>2, <2>4, <3>1, <3>2, <3>4
    <3> QED BY <1>0, <2>2, <2>6, <3>2, <3>3, <3>5
  <2> QED BY <2>5, <2>6
<1>4. FramesDoNotMatter
  <2> SUFFICES ASSUME MaxEventBytes > 0 PROVE sent = Take(Events, MaxEvents)
    BY DEF FramesDoNotMatter
  <2>1. /\ Take(Events, MaxEvents) \in Seq(StoredEvents)
        /\ Len(Take(Events, MaxEvents)) = IF Len(Events) < MaxEvents THEN Len(Events) ELSE MaxEvents
        /\ \A i \in 1..Len(Take(Events, MaxEvents)) : Take(Events, MaxEvents)[i] = Events[i]
    BY <1>0, TakeFacts
  <2>2. k = Len(Take(Events, MaxEvents))
    <3>1. CASE CaptureLimitReached(k)
      <4>1. k = MaxEvents /\ ~(Len(Events) < MaxEvents)
        BY <1>0, <1>1, <3>1 DEF CaptureLimitReached
      <4> QED BY <2>1, <4>1
    <3>2. CASE ~CaptureLimitReached(k)
      <4>1. Len(Events) = k /\ k < MaxEvents
        BY <1>0, <1>3, <3>2 DEF CaptureLimitReached
      <4> QED BY <2>1, <4>1
    <3> QED BY <3>1, <3>2
  <2> QED BY <1>0, <1>1, <2>1, <2>2, SeqEqual
<1> QED BY <1>2, <1>3, <1>4

\* Nothing has come yet.
LEMMA InitCapture == Init => CaptureInv
<1> SUFFICES ASSUME Init PROVE CaptureInv
  OBVIOUS
<1>0. /\ stream = <<>> /\ buffer = <<>> /\ sent = <<>> /\ partial = <<>>
      /\ scanning = FALSE /\ discarding = FALSE /\ finished = FALSE
      /\ marker = "none" /\ handled = 0 /\ written = {}
  BY DEF Init
<1>1. <<>> \in Seq(Bytes) /\ <<>> \in Seq(StoredEvents) /\ Len(<<>>) = 0
  BY EmptySeq
<1>2. TypeOK
  <2>1. /\ stream \in Seq(Bytes) /\ buffer \in Seq(Bytes)
        /\ sent \in Seq([bytes : Seq(Bytes), note : BOOLEAN])
    BY <1>0, EmptySeq
  <2>2. Len(sent) = 0 /\ Len(partial) = 0 /\ MaxEvents \in Nat
    BY <1>0, <1>1, SseAssumption
  <2>3. Len(sent) <= MaxEvents /\ Len(partial) <= 1 /\ handled \in 0..Messages
    BY <1>0, <2>2 DEF Messages
  <2> QED BY <1>0, <2>1, <2>3 DEF TypeOK
<1>3. SentAreFirst
  BY <1>0, <1>1, <1>2, CaptureTypes DEF SentAreFirst
<1>4. EndsOf(<<>>) = <<0>>
  BY <1>1, EndsOfNothing DEF EndsOf
<1>5. Drop(<<>>, 0) = <<>>
  <2>1. Drop(<<>>, 0) \in Seq(Bytes) /\ Len(Drop(<<>>, 0)) = 0 - 0
    <3> DEFINE nil == <<>>
    <3>1. nil \in Seq(Bytes) /\ Len(nil) = 0 /\ 0 \in 0..Len(nil)
      BY <1>1
    <3> HIDE DEF nil
    <3>2. Drop(nil, 0) \in Seq(Bytes) /\ Len(Drop(nil, 0)) = Len(nil) - 0
      BY <3>1, DropFacts
    <3> QED BY <3>1, <3>2 DEF nil
  <2> QED BY <1>1, <2>1, SeqEqual
<1>6. EventEnd(<<>>) = 0
  <2> DEFINE nil == <<>>
  <2>1. nil \in Seq(Bytes) /\ Len(nil) = 0
    BY <1>1
  <2> HIDE DEF nil
  <2>2. EventEnd(nil) \in 0..Len(nil)
    BY <2>1, EventEndFacts
  <2>3. EventEnd(nil) = 0
    BY <2>1, <2>2
  <2> QED BY <2>3 DEF nil
<1>7. Position(0)
  <2>1. Len(<<0>>) = 1 /\ <<0>>[1] = 0 /\ 0 + 1 \in 1..1 /\ 0 + 1 = 1
    OBVIOUS
  <2>2. 0 <= MaxEventBytes
    BY SseAssumption
  <2> QED BY <1>0, <1>1, <1>4, <1>5, <1>6, <2>1, <2>2 DEF Position
<1>8. 0 \in 0..Len(stream)
  BY <1>0, <1>1
<1> QED BY <1>0, <1>2, <1>3, <1>7, <1>8 DEF CaptureInv

\* A frame, whether it is still captured or not.
LEMMA PushStep ==
    ASSUME CaptureInv, Push
    PROVE  CaptureInv'
<1> DEFINE k == Len(sent)
<1>0. /\ stream \in Seq(Bytes) /\ buffer \in Seq(Bytes) /\ sent \in Seq(StoredEvents)
      /\ Len(stream) \in Nat /\ k \in Nat /\ MaxEventBytes \in Nat
  BY CaptureTypes DEF CaptureInv
<1>1. PICK n \in 1..MaxFrame : \E frame \in [1..n -> Bytes] :
          /\ stream' = stream \o frame
          /\ buffer' = IF CaptureLimitReached(k) THEN buffer ELSE buffer \o frame
  BY DEF Push
<1>2. PICK f \in [1..n -> Bytes] :
          /\ stream' = stream \o f
          /\ buffer' = IF CaptureLimitReached(k) THEN buffer ELSE buffer \o f
  BY <1>1
<1>3. f \in Seq(Bytes)
  <2>1. n \in Nat
    BY SseAssumption
  <2> QED BY <2>1, SeqDef
<1>4. /\ ~scanning /\ ~finished /\ scanning' = ~CaptureLimitReached(k)
      /\ discarding' = discarding /\ finished' = finished /\ sent' = sent /\ partial' = partial
      /\ marker' = marker /\ handled' = handled /\ written' = written
  BY DEF Push, writerVars
<1>5. stream' \in Seq(Bytes) /\ Len(stream') = Len(stream) + Len(f) /\ Len(f) \in Nat
      /\ buffer' \in Seq(Bytes)
  BY <1>0, <1>2, <1>3, GrownBytes
<1>6. TypeOK'
  <2>1. scanning' \in BOOLEAN
    BY <1>4 DEF CaptureLimitReached
  <2> QED BY <1>4, <1>5, <2>1 DEF CaptureInv, TypeOK, Messages
<1>7. SentAreFirst'
  <2>1. /\ Len(Events) <= Len(EventsOf(stream'))
        /\ \A i \in 1..Len(Events) : EventsOf(stream')[i] = Events[i]
    BY <1>0, <1>2, <1>3, GrownEvents DEF Events
  <2>2. k <= Len(Events) /\ \A i \in 1..k : sent[i] = Events[i]
    BY DEF CaptureInv, SentAreFirst
  <2>3. EventsOf(stream') \in Seq(StoredEvents) /\ Events \in Seq(StoredEvents)
    BY <1>0, <1>5, EventsFacts DEF Events
  <2>4. Len(EventsOf(stream')) \in Nat /\ Len(Events) \in Nat
    BY <2>3, LenProperties
  <2>5. k <= Len(EventsOf(stream')) /\ \A i \in 1..k : i \in 1..Len(Events)
    BY <1>0, <2>1, <2>2, <2>4
  <2> QED BY <1>4, <2>1, <2>2, <2>5 DEF SentAreFirst, Events
<1>8. ASSUME ~CaptureLimitReached(k) PROVE \E at \in 0..Len(stream') : Position(at)'
  <2>1. PICK at \in 0..Len(stream) : Position(at)
    BY <1>4, <1>8 DEF CaptureInv
  <2> DEFINE e == EndsOf(stream)
             d == EndsOf(stream')
             a == e[k]
  <2>2. Len(e) <= Len(d) /\ \A i \in 1..Len(e) : d[i] = e[i]
    BY <1>0, <1>2, <1>3, GrownEnds
  <2>3. Len(e) \in Nat /\ Len(d) \in Nat /\ \A i \in 1..Len(e) : e[i] \in Nat
    <3>1. Len(e) \in Nat /\ \A i \in 1..Len(e) : e[i] \in 0..Len(stream)
      BY <1>0, EndsFacts
    <3>2. Len(d) \in Nat
      BY <1>5, EndsFacts
    <3> QED BY <1>0, <3>1, <3>2
  <2>4. at \in Nat /\ at \in 0..Len(stream')
    BY <1>0, <1>5
  <2>5. buffer' = Drop(stream', at)
    BY <1>0, <1>2, <1>3, <1>8, <2>1, GrownDrop DEF Position
  <2>6. discarding => k \in 1..Len(d) /\ InTruncated(stream', d[k], at)
    <3> SUFFICES ASSUME discarding PROVE k \in 1..Len(d) /\ InTruncated(stream', d[k], at)
      OBVIOUS
    <3>1. k \in 1..Len(e) /\ InTruncated(stream, a, at)
      BY <2>1 DEF Position
    <3>2. k \in 1..Len(d) /\ d[k] = a /\ a \in Nat
      BY <2>2, <2>3, <3>1
    <3> HIDE DEF a, e, d
    <3>3. /\ a <= at /\ (at = a \/ at + 3 <= Len(stream)) /\ a + MaxEventBytes < Len(stream)
          /\ \A m \in 1..Len(stream) : Terminated(stream, a, m) =>
                Terminated(stream, at, m) /\ a + MaxEventBytes < m
      BY <3>1 DEF InTruncated
    <3>4. /\ a <= at /\ (at = a \/ at + 3 <= Len(stream')) /\ a + MaxEventBytes < Len(stream')
      BY <1>0, <1>5, <2>4, <3>2, <3>3
    <3>5. ASSUME NEW m \in 1..Len(stream'), Terminated(stream', a, m)
          PROVE  Terminated(stream', at, m) /\ a + MaxEventBytes < m
      <4>1. CASE m \in 1..Len(stream)
        BY <1>0, <1>2, <1>3, <2>4, <3>2, <3>3, <3>5, <4>1, GrownTerminated
      <4>2. CASE m \notin 1..Len(stream)
        <5>1. m \in Nat /\ m > Len(stream) /\ m \in 0..Len(stream')
          BY <1>0, <1>5, <4>2
        <5>2. Ended(stream', a, m)
          BY <1>5, <3>2, <3>5, <5>1, TerminatedMeans
        <5>3. m >= a + 2 => m >= at + 2
          BY <1>0, <2>4, <3>2, <3>3, <5>1
        <5>4. m >= a + 4 => m >= at + 4
          BY <1>0, <2>4, <3>2, <3>3, <5>1
        <5>5. Ended(stream', at, m)
          BY <5>2, <5>3, <5>4 DEF Ended
        <5>6. a + MaxEventBytes < m
          BY <1>0, <3>2, <3>3, <5>1
        <5> QED BY <1>5, <2>4, <5>1, <5>5, <5>6, TerminatedMeans
      <4> QED BY <4>1, <4>2
    <3> QED BY <3>2, <3>4, <3>5 DEF InTruncated
  <2>7. ~discarding => k + 1 \in 1..Len(d) /\ at = d[k + 1]
    BY <2>1, <2>2, <2>3 DEF Position
  <2>8. Position(at)'
    BY <1>4, <1>8, <2>5, <2>6, <2>7 DEF Position
  <2> QED BY <2>4, <2>8
<1>9. scanning' => ~finished' /\ ~CaptureLimitReached(Len(sent'))
  BY <1>4
<1>10. ~finished' => partial' = <<>>
  BY <1>4 DEF CaptureInv
<1> QED BY <1>4, <1>6, <1>7, <1>8, <1>9, <1>10 DEF CaptureInv

\* The rest of the rest, and what is taken of it.
LEMMA DropDrop ==
    ASSUME NEW s \in Seq(Bytes), NEW at \in 0..Len(s), NEW n \in 0..(Len(s) - at)
    PROVE  /\ Drop(Drop(s, at), n) = Drop(s, at + n)
           /\ Take(Drop(s, at), n) = SubSeq(s, at + 1, at + n)
<1> DEFINE u == Drop(s, at)
<1>0. Len(s) \in Nat /\ at \in Nat /\ n \in Nat /\ at + n <= Len(s) /\ at + n \in 0..Len(s)
      /\ at + n \in Nat /\ at <= at + n
  BY LenProperties
<1>1. u \in Seq(Bytes) /\ Len(u) = Len(s) - at /\ \A i \in 1..(Len(s) - at) : u[i] = s[at + i]
  BY DropFacts
<1> HIDE DEF u
<1>2. Drop(u, n) = Drop(s, at + n)
  <2>1. n \in 0..Len(u)
    BY <1>0, <1>1
  <2>2. /\ Drop(u, n) \in Seq(Bytes) /\ Len(Drop(u, n)) = Len(u) - n
        /\ \A i \in 1..(Len(u) - n) : Drop(u, n)[i] = u[n + i]
    BY <1>1, <2>1, DropFacts
  <2>3. /\ Drop(s, at + n) \in Seq(Bytes) /\ Len(Drop(s, at + n)) = Len(s) - (at + n)
        /\ \A i \in 1..(Len(s) - (at + n)) : Drop(s, at + n)[i] = s[(at + n) + i]
    BY <1>0, DropFacts
  <2>4. Len(u) - n = Len(s) - (at + n)
    BY <1>0, <1>1
  <2>5. \A i \in 1..(Len(u) - n) :
            n + i \in 1..(Len(s) - at) /\ at + (n + i) = (at + n) + i
    BY <1>0, <1>1
  <2>6. \A i \in 1..(Len(u) - n) : Drop(u, n)[i] = Drop(s, at + n)[i]
    BY <1>1, <2>2, <2>3, <2>4, <2>5
  <2> QED BY <2>2, <2>3, <2>4, <2>6, SeqEqual
<1>3. Take(u, n) = SubSeq(s, at + 1, at + n)
  <2>1. /\ Take(u, n) \in Seq(Bytes) /\ Len(Take(u, n)) = (IF Len(u) < n THEN Len(u) ELSE n)
        /\ \A i \in 1..Len(Take(u, n)) : Take(u, n)[i] = u[i]
    BY <1>0, <1>1, TakeFacts
  <2>2. Len(Take(u, n)) = n /\ (at + n) - at = n /\ \A i \in 1..n : i \in 1..(Len(s) - at)
    BY <1>0, <1>1, <2>1
  <2>3. /\ SubSeq(s, at + 1, at + n) \in Seq(Bytes) /\ Len(SubSeq(s, at + 1, at + n)) = (at + n) - at
        /\ \A i \in 1..((at + n) - at) : SubSeq(s, at + 1, at + n)[i] = s[at + i]
    BY <1>0, PartFacts
  <2>4. \A i \in 1..n : Take(u, n)[i] = SubSeq(s, at + 1, at + n)[i]
    BY <1>1, <2>1, <2>2, <2>3
  <2> QED BY <2>1, <2>2, <2>3, <2>4, SeqEqual
<1> QED BY <1>2, <1>3 DEF u

\* A terminator behind at is behind what is before at.
LEMMA TerminatedBack ==
    ASSUME NEW s \in Seq(Bytes), NEW a \in Nat, NEW at \in Nat, a <= at, NEW n \in 1..Len(s),
           Terminated(s, at, n)
    PROVE  Terminated(s, a, n)
<1>1. n \in 0..Len(s) /\ n \in Nat
  BY LenProperties
<1>2. Ended(s, at, n)
  BY <1>1, TerminatedMeans
<1>3. (n >= at + 2 => n >= a + 2) /\ (n >= at + 4 => n >= a + 4)
  BY <1>1
<1>4. Ended(s, a, n)
  BY <1>2, <1>3 DEF Ended
<1> QED BY <1>1, <1>4, TerminatedMeans
\* What a step of push leaves alone, and what it may change, of the types.
LEMMA TypesKept ==
    ASSUME TypeOK, stream' = stream, buffer' \in Seq(Bytes), sent' \in Seq(StoredEvents),
           Len(sent) <= Len(sent'), Len(sent') <= MaxEvents,
           scanning' \in BOOLEAN, discarding' \in BOOLEAN, finished' = finished,
           partial' = partial, UNCHANGED writerVars, partial = <<>>
    PROVE  TypeOK'
<1>1. Len(sent) \in Nat /\ Len(sent') \in Nat /\ Len(partial) = 0
  BY CaptureTypes, LenProperties
<1>2. handled' \in 0..Messages' /\ Len(partial') <= 1
  BY <1>1 DEF TypeOK, Messages, writerVars
<1>3. /\ finished' \in BOOLEAN /\ marker' \in {"none", "written", "failed"} /\ stream' \in Seq(Bytes)
      /\ written' \subseteq 1..handled'
  BY DEF TypeOK, writerVars
<1> QED BY <1>2, <1>3 DEF TypeOK, StoredEvents

\* One event more is sent, and it is the next one of the stream.
LEMMA OneMore ==
    ASSUME CaptureInv, NEW v \in StoredEvents, ~CaptureLimitReached(Len(sent)),
           stream' = stream, sent' = Append(sent, v),
           Len(sent) + 1 <= Len(Events), Events[Len(sent) + 1] = v
    PROVE  /\ sent' \in Seq(StoredEvents) /\ Len(sent') = Len(sent) + 1 /\ Len(sent') <= MaxEvents
           /\ SentAreFirst'
<1> DEFINE k == Len(sent)
<1>0. /\ sent \in Seq(StoredEvents) /\ k \in Nat /\ k <= MaxEvents /\ MaxEvents \in Nat
      /\ Len(Events) \in Nat
  BY CaptureTypes DEF CaptureInv
<1>1. /\ sent' \in Seq(StoredEvents) /\ Len(sent') = k + 1 /\ sent'[k + 1] = v
      /\ \A i \in 1..k : sent'[i] = sent[i]
  BY <1>0, AppendProperties
<1>2. k + 1 <= MaxEvents
  BY <1>0 DEF CaptureLimitReached
<1>3. \A i \in 1..k : sent[i] = Events[i]
  BY DEF CaptureInv, SentAreFirst
<1>4. \A i \in 1..(k + 1) : i \in 1..k \/ i = k + 1
  BY <1>0
<1>5. \A i \in 1..(k + 1) : sent'[i] = Events[i]
  BY <1>1, <1>3, <1>4
<1>6. Events' = Events
  BY DEF Events
<1> QED BY <1>1, <1>2, <1>5, <1>6 DEF SentAreFirst

\* An event whose end is found.
LEMMA CompleteStep ==
    ASSUME CaptureInv, CompleteEvent
    PROVE  CaptureInv'
<1> DEFINE k   == Len(sent)
           e   == EndsOf(stream)
           end == EventEnd(buffer)
<1>0. /\ stream \in Seq(Bytes) /\ buffer \in Seq(Bytes) /\ sent \in Seq(StoredEvents)
      /\ Len(stream) \in Nat /\ k \in Nat /\ MaxEventBytes \in Nat /\ k <= MaxEvents
      /\ TypeOK /\ SentAreFirst
  BY CaptureTypes DEF CaptureInv
<1>1. /\ scanning /\ ~finished /\ ~CaptureLimitReached(k) /\ partial = <<>> /\ end > 0
      /\ discarding \in BOOLEAN /\ scanning \in BOOLEAN /\ finished \in BOOLEAN
  BY DEF CaptureInv, CompleteEvent, TypeOK
<1>2. /\ stream' = stream /\ finished' = finished /\ partial' = partial /\ UNCHANGED writerVars
      /\ discarding' = FALSE
  BY DEF CompleteEvent
<1>3. PICK at \in 0..Len(stream) : Position(at)
  BY <1>1 DEF CaptureInv
<1>4. /\ buffer = Drop(stream, at)
      /\ discarding => k \in 1..Len(e) /\ InTruncated(stream, e[k], at)
      /\ ~discarding => k + 1 \in 1..Len(e) /\ at = e[k + 1]
  BY <1>3 DEF Position
<1>5. PICK x : x = at + end
  OBVIOUS
<1>6. /\ end \in 0..(Len(stream) - at) /\ Terminated(stream, at, x)
      /\ \A m \in 1..Len(stream) : Terminated(stream, at, m) => x <= m
  BY <1>0, <1>1, <1>4, <1>5, EndInStream
<1>7. /\ at \in Nat /\ x \in 1..Len(stream) /\ x \in 0..Len(stream) /\ at < x
      /\ Len(e) \in Nat /\ \A i \in 1..Len(e) : e[i] \in 0..Len(stream)
  BY <1>0, <1>1, <1>6, <1>5, EndsFacts
<1>8. /\ Take(buffer, end) = SubSeq(stream, at + 1, x)
      /\ Drop(buffer, end) = Drop(stream, x) /\ Drop(stream, x) \in Seq(Bytes)
  BY <1>0, <1>4, <1>6, <1>7, <1>5, DropDrop, DropFacts
<1> HIDE DEF end
<1>9. CASE discarding
  <2>1. sent' = sent /\ buffer' = Drop(stream, x) /\ scanning' = TRUE
    BY <1>8, <1>9 DEF CompleteEvent, end
  <2>2. /\ k \in 1..Len(e) /\ e[k] <= at /\ e[k] \in Nat
        /\ \A m \in 1..Len(stream) : Terminated(stream, e[k], m) => Terminated(stream, at, m)
    BY <1>0, <1>4, <1>7, <1>9 DEF InTruncated
  <2>3. Terminated(stream, e[k], x)
    BY <1>0, <1>6, <1>7, <2>2, TerminatedBack
  <2>4. e[k] < x /\ \A m \in 1..Len(stream) : Terminated(stream, e[k], m) => x <= m
    BY <1>0, <1>6, <1>7, <2>2
  <2>5. k + 1 \in 1..Len(e) /\ e[k + 1] = x
    BY <1>0, <1>7, <2>2, <2>3, <2>4, NextEnd
  <2>6. Position(x)'
    BY <1>2, <2>1, <2>5 DEF Position
  <2>7. SentAreFirst'
    BY <1>0, <1>2, <2>1 DEF SentAreFirst, Events
  <2>8. TypeOK'
    <3>1. k <= Len(sent') /\ Len(sent') <= MaxEvents
      BY <1>0, <2>1
    <3>2. scanning' \in BOOLEAN /\ discarding' \in BOOLEAN
      BY <1>2, <2>1
    <3> QED BY <1>0, <1>1, <1>2, <1>8, <2>1, <3>1, <3>2, TypesKept
  <2> QED BY <1>1, <1>2, <1>7, <2>1, <2>6, <2>7, <2>8 DEF CaptureInv
<1>10. CASE ~discarding
  <2> DEFINE v == Saved(Take(buffer, end))
  <2>1. /\ sent' = Append(sent, v) /\ scanning' = ~CaptureLimitReached(k + 1)
        /\ buffer' = IF CaptureLimitReached(k + 1) THEN <<>> ELSE Drop(stream, x)
    BY <1>8, <1>10 DEF CompleteEvent, end
  <2>2. k + 1 \in 1..Len(e) /\ e[k + 1] = at
    BY <1>4, <1>10
  <2>3. (k + 1) + 1 \in 1..Len(e) /\ e[(k + 1) + 1] = x
    BY <1>0, <1>6, <1>7, <2>2, NextEnd
  <2>4. v = Saved(SubSeq(stream, e[k + 1] + 1, e[(k + 1) + 1])) /\ v \in StoredEvents
    <3>1. SubSeq(stream, at + 1, x) \in Seq(Bytes)
      BY <1>0, <1>7, PartFacts
    <3> QED BY <1>8, <2>2, <2>3, <3>1, StoredFacts
  <2>5. k + 1 <= Len(Events) /\ Events[k + 1] = v
    <3>1. k + 1 \in 1..(Len(e) - 1)
      BY <1>0, <1>7, <2>3
    <3>2. /\ Len(Events) \in {Len(e), Len(e) - 1}
          /\ \A i \in 1..(Len(e) - 1) : Events[i] = Saved(SubSeq(stream, e[i] + 1, e[i + 1]))
      BY <1>0, EventsFacts DEF Events
    <3> QED BY <1>0, <1>7, <2>4, <3>1, <3>2
  <2> HIDE DEF v
  <2>6. /\ sent' \in Seq(StoredEvents) /\ Len(sent') = k + 1 /\ Len(sent') <= MaxEvents
        /\ SentAreFirst'
    BY <1>1, <1>2, <2>1, <2>4, <2>5, OneMore
  <2>7. ~CaptureLimitReached(k + 1) => Position(x)'
    BY <1>2, <2>1, <2>3, <2>6 DEF Position
  <2>8. TypeOK'
    <3>1. buffer' \in Seq(Bytes) /\ scanning' \in BOOLEAN /\ k <= Len(sent')
      BY <1>0, <1>8, <2>1, <2>6, EmptySeq DEF CaptureLimitReached
    <3> QED BY <1>0, <1>1, <1>2, <2>6, <3>1, TypesKept
  <2> QED BY <1>1, <1>2, <1>7, <2>1, <2>6, <2>7, <2>8 DEF CaptureInv
<1> QED BY <1>1, <1>9, <1>10

\* No end in the buffer.
LEMMA IncompleteStep ==
    ASSUME CaptureInv, IncompleteEvent
    PROVE  CaptureInv'
<1> DEFINE k == Len(sent)
           e == EndsOf(stream)
<1>0. /\ stream \in Seq(Bytes) /\ buffer \in Seq(Bytes) /\ sent \in Seq(StoredEvents)
      /\ Len(stream) \in Nat /\ Len(buffer) \in Nat /\ k \in Nat /\ MaxEventBytes \in Nat
      /\ k <= MaxEvents /\ TypeOK /\ SentAreFirst
  BY CaptureTypes DEF CaptureInv
<1>1. /\ scanning /\ ~finished /\ ~CaptureLimitReached(k) /\ partial = <<>> /\ EventEnd(buffer) = 0
      /\ discarding \in BOOLEAN
  BY DEF CaptureInv, IncompleteEvent, TypeOK
<1>2. /\ stream' = stream /\ finished' = finished /\ partial' = partial /\ UNCHANGED writerVars
      /\ scanning' = FALSE
  BY DEF IncompleteEvent
<1>3. PICK at \in 0..Len(stream) : Position(at)
  BY <1>1 DEF CaptureInv
<1>4. /\ buffer = Drop(stream, at)
      /\ discarding => k \in 1..Len(e) /\ InTruncated(stream, e[k], at)
      /\ ~discarding => k + 1 \in 1..Len(e) /\ at = e[k + 1]
  BY <1>3 DEF Position
<1>5. \A m \in 1..Len(stream) : ~Terminated(stream, at, m)
  BY <1>0, <1>1, <1>4, EndInStream
<1>6. at \in Nat /\ Len(buffer) = Len(stream) - at
  <2>1. Len(Drop(stream, at)) = Len(stream) - at
    BY <1>0, DropFacts
  <2> QED BY <1>0, <1>4, <2>1
<1>7. CASE discarding \/ Len(buffer) <= MaxEventBytes
  <2>1. buffer' = buffer /\ discarding' = discarding /\ sent' = sent
    BY <1>7 DEF IncompleteEvent
  <2>2. Position(at)'
    BY <1>1, <1>2, <1>4, <1>7, <2>1 DEF Position
  <2>3. SentAreFirst'
    BY <1>0, <1>2, <2>1 DEF SentAreFirst, Events
  <2>4. TypeOK'
    <3>1. k <= Len(sent') /\ Len(sent') <= MaxEvents
      BY <1>0, <2>1
    <3>2. scanning' \in BOOLEAN /\ discarding' \in BOOLEAN
      BY <1>1, <1>2, <2>1
    <3> QED BY <1>0, <1>1, <1>2, <2>1, <3>1, <3>2, TypesKept
  <2> QED BY <1>1, <1>2, <2>1, <2>2, <2>3, <2>4 DEF CaptureInv
<1>8. CASE ~discarding /\ Len(buffer) > MaxEventBytes
  <2>1. PICK n : n = IF Len(buffer) > 3 THEN Len(buffer) - 3 ELSE 0
    OBVIOUS
  <2>2. /\ sent' = Append(sent, TruncateEvent(buffer)) /\ discarding' = TRUE
        /\ buffer' = Drop(buffer, n)
    BY <1>0, <1>8, <2>1 DEF IncompleteEvent
  <2>3. PICK to : to = at + n
    OBVIOUS
  <2>4. /\ n \in 0..(Len(stream) - at) /\ to \in Nat /\ to \in 0..Len(stream) /\ at <= to
        /\ (to = at \/ to + 3 <= Len(stream)) /\ at + MaxEventBytes < Len(stream)
    BY <1>0, <1>6, <1>8, <2>1, <2>3
  <2>5. buffer' = Drop(stream, to) /\ buffer' \in Seq(Bytes)
    BY <1>0, <1>4, <2>2, <2>3, <2>4, DropDrop, DropFacts
  <2>6. k + 1 \in 1..Len(e) /\ e[k + 1] = at /\ Len(e) = k + 1
    BY <1>0, <1>4, <1>5, <1>8, LastEnd
  <2>7. Len(Events) = k + 1 /\ Events[k + 1] = TruncateEvent(buffer)
    <3> DEFINE rest == Drop(stream, e[Len(e)])
    <3>1. /\ Len(Events) = IF Len(rest) > MaxEventBytes THEN Len(e) ELSE Len(e) - 1
          /\ Len(rest) > MaxEventBytes => Events[Len(e)] = TruncateEvent(rest)
      BY <1>0, EventsFacts DEF Events
    <3>2. rest = buffer
      BY <1>4, <2>6
    <3> HIDE DEF rest, e
    <3> QED BY <1>8, <2>6, <3>1, <3>2
  <2>8. TruncateEvent(buffer) \in StoredEvents
    BY <1>0, StoredFacts
  <2>9. /\ sent' \in Seq(StoredEvents) /\ Len(sent') = k + 1 /\ Len(sent') <= MaxEvents
        /\ SentAreFirst'
    BY <1>0, <1>1, <1>2, <2>2, <2>7, <2>8, OneMore
  <2>10. InTruncated(stream, at, to)
    BY <1>5, <2>4 DEF InTruncated
  <2>11. EventEnd(buffer') = 0
    <3>1. EventEnd(buffer') \in 0..(Len(stream) - to)
      BY <1>0, <2>4, <2>5, EndInStream
    <3>2. ASSUME EventEnd(buffer') > 0 PROVE FALSE
      <4>1. PICK y : y = to + EventEnd(buffer')
        OBVIOUS
      <4>2. Terminated(stream, to, y)
        BY <1>0, <2>4, <2>5, <3>2, <4>1, EndInStream
      <4>3. y \in 1..Len(stream)
        BY <1>0, <2>4, <3>1, <3>2, <4>1
      <4>4. Terminated(stream, at, y)
        BY <1>0, <1>6, <2>4, <4>2, <4>3, TerminatedBack
      <4> QED BY <1>5, <4>3, <4>4
    <3> QED BY <1>0, <2>4, <3>1, <3>2
  <2>12. Position(to)'
    BY <1>2, <2>2, <2>5, <2>6, <2>9, <2>10, <2>11 DEF Position
  <2>13. TypeOK'
    <3>1. k <= Len(sent')
      BY <1>0, <2>9
    <3>2. scanning' \in BOOLEAN /\ discarding' \in BOOLEAN
      BY <1>2, <2>2
    <3> QED BY <1>0, <1>1, <1>2, <2>5, <2>9, <3>1, <3>2, TypesKept
  <2> QED BY <1>1, <1>2, <2>4, <2>9, <2>12, <2>13 DEF CaptureInv
<1> QED BY <1>0, <1>1, <1>7, <1>8

\* The end of the body.
LEMMA FinishStep ==
    ASSUME CaptureInv, Finish
    PROVE  CaptureInv'
<1> DEFINE k == Len(sent)
<1>0. /\ stream \in Seq(Bytes) /\ buffer \in Seq(Bytes) /\ sent \in Seq(StoredEvents)
      /\ k \in Nat /\ Len(buffer) \in Nat /\ MaxEventBytes \in Nat /\ MaxEvents \in Nat
      /\ TypeOK /\ SentAreFirst
  BY CaptureTypes DEF CaptureInv
<1>1. /\ ~scanning /\ ~finished /\ finished' = TRUE /\ partial = <<>> /\ discarding \in BOOLEAN
      /\ stream' = stream /\ scanning' = scanning /\ discarding' = discarding /\ sent' = sent
      /\ UNCHANGED writerVars
  BY DEF CaptureInv, Finish, TypeOK
<1>2. /\ FramesDoNotMatter
      /\ CaptureLimitReached(k) => MaxEvents = 0 \/ MaxEventBytes = 0 \/ Len(Events) >= MaxEvents
      /\ ~CaptureLimitReached(k) =>
            /\ Len(Events) = k
            /\ discarding => Len(Remainder) > MaxEventBytes
            /\ ~discarding => Remainder = buffer /\ Len(buffer) <= MaxEventBytes
  BY <1>1, Quiet
<1>3. Remainder \in Seq(Bytes) /\ Len(Remainder) \in Nat
  BY <1>0, EventsFacts, LenProperties DEF Remainder
<1>4. Events' = Events /\ Remainder' = Remainder
  BY <1>1 DEF Events, Remainder
<1>5. FramesDoNotMatter' /\ SentAreFirst'
  BY <1>0, <1>1, <1>2, <1>4 DEF FramesDoNotMatter, SentAreFirst
<1> DEFINE none == \/ Remainder = <<>> \/ Len(Remainder) > MaxEventBytes
                   \/ MaxEvents = 0 \/ Len(Events) >= MaxEvents
<1>6. CASE buffer = <<>> \/ discarding \/ CaptureLimitReached(k)
  <2>1. buffer' = buffer /\ partial' = <<>>
    BY <1>1, <1>6 DEF Finish
  <2>2. none
    <3>1. CASE CaptureLimitReached(k)
      <4>1. Len(Remainder) = 0 => Remainder = <<>>
        BY <1>3, EmptySeq
      <4>2. MaxEventBytes = 0 => Remainder = <<>> \/ Len(Remainder) > MaxEventBytes
        BY <1>3, <4>1
      <4> QED BY <1>2, <3>1, <4>2
    <3>2. CASE ~CaptureLimitReached(k)
      BY <1>2, <1>6, <3>2
    <3> QED BY <3>1, <3>2
  <2>3. PartialIsTheRemainder'
    BY <1>4, <2>1, <2>2 DEF PartialIsTheRemainder
  <2>4. TypeOK'
    BY <1>0, <1>1, <2>1 DEF TypeOK, Messages, writerVars
  <2> QED BY <1>1, <1>5, <2>3, <2>4 DEF CaptureInv
<1>7. CASE ~(buffer = <<>> \/ discarding \/ CaptureLimitReached(k))
  <2>1. buffer' = <<>> /\ partial' = <<TruncateEvent(buffer)>>
    BY <1>1, <1>7 DEF Finish
  <2>2. ~none /\ Remainder = buffer
    BY <1>0, <1>2, <1>7 DEF CaptureLimitReached
  <2>3. PartialIsTheRemainder'
    BY <1>4, <2>1, <2>2 DEF PartialIsTheRemainder
  <2>4. TypeOK'
    <3>1. buffer' \in Seq(Bytes) /\ Len(partial) = 0 /\ Len(partial') = 1
      BY <1>1, <2>1, EmptySeq
    <3>2. handled' \in 0..Messages'
      BY <1>0, <1>1, <3>1 DEF TypeOK, Messages, writerVars
    <3> QED BY <1>0, <1>1, <3>1, <3>2 DEF TypeOK, writerVars
  <2> QED BY <1>1, <1>5, <2>3, <2>4 DEF CaptureInv
<1> QED BY <1>6, <1>7

\* The task that writes, and a step in which nothing happens.
LEMMA WriterStep ==
    ASSUME CaptureInv, Writer \/ UNCHANGED vars
    PROVE  CaptureInv'
<1>0. Len(sent) \in Nat /\ TypeOK
  BY CaptureTypes DEF CaptureInv
<1>1. /\ stream' = stream /\ buffer' = buffer /\ scanning' = scanning /\ discarding' = discarding
      /\ finished' = finished /\ sent' = sent /\ partial' = partial
  BY DEF Writer, WriteMarker, WriteMessage, vars, captureVars
<1>2. Messages' = Messages
  BY <1>1 DEF Messages
<1>3. /\ marker' \in {"none", "written", "failed"} /\ handled' \in 0..Messages
      /\ written' \subseteq 1..handled'
  <2>1. CASE WriteMarker
    BY <1>0, <2>1 DEF TypeOK, WriteMarker
  <2>2. CASE WriteMessage
    <3>1. handled \in Nat /\ handled < Messages /\ handled' = handled + 1 /\ marker' = marker
      BY <1>0, <2>2 DEF TypeOK, WriteMessage
    <3>2. \A i \in 1..handled : i \in 1..(handled + 1)
      BY <3>1
    <3>3. written' \subseteq written \cup {handled + 1} /\ handled + 1 \in 1..(handled + 1)
      BY <2>2, <3>1 DEF WriteMessage
    <3>4. Messages \in Nat
      <4>1. partial = <<>> \/ partial = <<TruncateEvent(Remainder)>>
        BY DEF CaptureInv, PartialIsTheRemainder
      <4> QED BY <1>0, <4>1 DEF Messages
    <3>5. handled' \in 0..Messages
      BY <3>1, <3>4
    <3> QED BY <1>0, <3>1, <3>2, <3>3, <3>5 DEF TypeOK
  <2>3. CASE UNCHANGED vars
    BY <1>0, <2>3 DEF TypeOK, vars, writerVars
  <2> QED BY <2>1, <2>2, <2>3 DEF Writer
<1>4. TypeOK'
  BY <1>0, <1>1, <1>2, <1>3 DEF TypeOK
<1>5. Events' = Events /\ Remainder' = Remainder
  BY <1>1 DEF Events, Remainder
<1>6. SentAreFirst' = SentAreFirst
  BY <1>1, <1>5 DEF SentAreFirst
<1>7. FramesDoNotMatter' = FramesDoNotMatter /\ PartialIsTheRemainder' = PartialIsTheRemainder
  BY <1>1, <1>5 DEF FramesDoNotMatter, PartialIsTheRemainder
<1>8. ASSUME NEW at PROVE Position(at)' = Position(at)
  BY <1>1 DEF Position
<1> QED BY <1>1, <1>4, <1>6, <1>7, <1>8 DEF CaptureInv

-----------------------------------------------------------------------------
(* Theorems.                                                               *)

\* Whatever the frames: what was sent are the first events of the stream, and the
\* buffer is what follows them (SseCapture::push, finish and the task of start).
THEOREM CaptureInvariance == Spec => []CaptureInv
<1>1. Init => CaptureInv
  BY InitCapture
<1>2. CaptureInv /\ [Next]_vars => CaptureInv'
  BY PushStep, CompleteStep, IncompleteStep, FinishStep, WriterStep DEF Next, Scan
<1> QED BY <1>1, <1>2, PTL DEF Spec

\* The types, with the limit on the events and what the task has taken and written.
THEOREM SseTypes == Spec => []TypeOK
<1>1. CaptureInv => TypeOK
  BY DEF CaptureInv
<1> QED BY <1>1, CaptureInvariance, PTL

\* Between two frames the events captured are the first events of the stream, however
\* push received it: also when a terminator or a limit falls between two frames.
THEOREM FramingIrrelevant == Spec => []FramesDoNotMatter
<1>1. CaptureInv => FramesDoNotMatter
  <2> SUFFICES ASSUME CaptureInv PROVE FramesDoNotMatter
    OBVIOUS
  <2>1. CASE scanning
    BY <2>1 DEF FramesDoNotMatter
  <2>2. CASE ~scanning /\ ~finished
    BY <2>2, Quiet
  <2>3. CASE finished
    BY <2>3 DEF CaptureInv
  <2> QED BY <2>1, <2>2, <2>3
<1> QED BY <1>1, CaptureInvariance, PTL

\* finish stores an incomplete event exactly when one is left that may still be stored.
THEOREM PartialRight == Spec => []PartialIsTheRemainder
<1>1. CaptureInv => PartialIsTheRemainder
  <2> SUFFICES ASSUME CaptureInv, finished PROVE PartialIsTheRemainder
    BY DEF PartialIsTheRemainder
  <2> QED BY DEF CaptureInv
<1> QED BY <1>1, CaptureInvariance, PTL
=============================================================================
