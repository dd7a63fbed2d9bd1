---------------------------- MODULE FoldTheorems ----------------------------
(***************************************************************************)
(* Facts about folds: sums over finite sets (SumFunctionOnSet), which      *)
(* StateStore uses for the bytes that entries hold, folds of a sequence    *)
(* from the left, by which FilterChain runs scripts and queues jobs, and   *)
(* sequences joined to one (FlattenSeq).  All of them are recursive        *)
(* functions, so that everything here rests on induction.  Induction is    *)
(* stated for SETS of numbers or of subsets rather than for predicates:    *)
(* the instance is then a set, which first-order provers can be given.     *)
(***************************************************************************)
EXTENDS Naturals, Sequences, Functions, FiniteSets, SequencesExt, FiniteSetTheorems,
        SequenceTheorems, TLAPS

\* A module can be instantiated with any two operators, a lemma cannot: what is folded is a
\* constant of this module.
CONSTANTS FoldOp(_, _, _),  \* what is folded; its first argument is the same throughout
          FoldKept(_)       \* what it keeps

-----------------------------------------------------------------------------
(* Induction.                                                              *)

\* A set of numbers that has 0, and n + 1 with every n, has them all.
LEMMA NatSetInduction ==
    ASSUME NEW T \in SUBSET Nat, 0 \in T, \A n \in T : n + 1 \in T
    PROVE  T = Nat
<1> SUFFICES ASSUME Nat \ T # {} PROVE FALSE
  OBVIOUS
<1>1. PICK n \in Nat \ T : \A m \in Nat \ T : ~ (<<m, n>> \in OpToRel(<, Nat))
  BY NatLessThanWellFounded, WFMin
<1>2. n # 0 /\ n - 1 \in Nat /\ (n - 1) + 1 = n
  OBVIOUS
<1>3. <<n - 1, n>> \in OpToRel(<, Nat)
  BY <1>2 DEF OpToRel
<1>4. n - 1 \in T
  BY <1>1, <1>2, <1>3
<1>5. n \in T
  BY <1>2, <1>4
<1> QED BY <1>5

\* A set of numbers has a least.
LEMMA HasLeast ==
    ASSUME NEW T \in SUBSET Nat, T # {}
    PROVE  \E n \in T : \A m \in T : n <= m
<1>1. PICK n \in T : \A m \in T : ~ (<<m, n>> \in OpToRel(<, Nat))
  BY NatLessThanWellFounded, WFMin
<1>2. \A m \in T : n <= m
  <2> SUFFICES ASSUME NEW m \in T, ~ (n <= m) PROVE FALSE
    OBVIOUS
  <2>1. m \in Nat /\ n \in Nat /\ m < n
    OBVIOUS
  <2> QED BY <1>1, <2>1 DEF OpToRel
<1> QED BY <1>2

\* A set of subsets of a finite set that has the empty one, and with every one
\* those that have one element more, has them all.
LEMMA SubsetInduction ==
    ASSUME NEW S, IsFiniteSet(S), NEW Q \in SUBSET SUBSET S,
           {} \in Q, \A s \in Q : \A x \in S \ s : s \cup {x} \in Q
    PROVE  Q = SUBSET S
<1> DEFINE T == {n \in Nat : \A s \in SUBSET S : Cardinality(s) = n => s \in Q}
<1>1. \A s \in SUBSET S : IsFiniteSet(s) /\ Cardinality(s) \in Nat
  BY FS_Subset, FS_CardinalityType
<1>2. 0 \in T
  BY <1>1, FS_EmptySet
<1>3. ASSUME NEW n \in T PROVE n + 1 \in T
  <2> SUFFICES ASSUME NEW s \in SUBSET S, Cardinality(s) = n + 1 PROVE s \in Q
    OBVIOUS
  <2>1. s # {}
    BY <1>1, FS_EmptySet
  <2>2. PICK x \in s : TRUE
    BY <2>1
  <2>3. Cardinality(s \ {x}) = n
    BY <1>1, <2>2, FS_RemoveElement
  <2>4. s \ {x} \in Q
    BY <2>3
  <2>5. s = (s \ {x}) \cup {x} /\ x \in S \ (s \ {x})
    BY <2>2
  <2> QED BY <2>4, <2>5
<1>4. T = Nat
  <2> HIDE DEF T
  <2>1. T \in SUBSET Nat
    BY DEF T
  <2> QED BY <1>2, <1>3, <2>1, NatSetInduction
<1> QED BY <1>1, <1>4

\* A finite set of numbers has a greatest.
LEMMA MaxFacts ==
    ASSUME NEW n \in Nat, NEW s \in SUBSET (1..n), s # {}
    PROVE  Max(s) \in s /\ \A y \in s : y <= Max(s)
<1> DEFINE T == {m \in Nat : \A r \in SUBSET (1..n) :
                    r # {} /\ (\A y \in r : y <= m) => \E x \in r : \A y \in r : x >= y}
<1>1. 0 \in T
  <2> SUFFICES ASSUME NEW r \in SUBSET (1..n), NEW x \in r, \A y \in r : y <= 0 PROVE FALSE
    OBVIOUS
  <2>1. x \in 1..n /\ x <= 0
    OBVIOUS
  <2> QED BY <2>1
<1>2. ASSUME NEW m \in T PROVE m + 1 \in T
  <2> SUFFICES ASSUME NEW r \in SUBSET (1..n), r # {}, \A y \in r : y <= m + 1
               PROVE  \E x \in r : \A y \in r : x >= y
    OBVIOUS
  <2>0. m \in Nat /\ \A y \in r : y \in Nat
    OBVIOUS
  <2>1. CASE m + 1 \in r
    BY <2>0, <2>1
  <2>2. CASE m + 1 \notin r
    <3>1. \A y \in r : y <= m
      <4> HIDE DEF T
      <4> QED BY <2>0, <2>2
    <3> QED BY <3>1
  <2> QED BY <2>1, <2>2
<1>3. T = Nat
  <2> HIDE DEF T
  <2>1. T \in SUBSET Nat
    BY DEF T
  <2> QED BY <1>1, <1>2, <2>1, NatSetInduction
<1>4. \E x \in s : \A y \in s : x >= y
  <2>1. n \in T
    BY <1>3
  <2> QED BY <2>1
<1>5. Max(s) \in s /\ \A y \in s : Max(s) >= y
  BY <1>4 DEF Max
<1> QED BY <1>5

\* Induction along a fold from the left, which takes the greatest index first.
LEMMA FoldInduction ==
    ASSUME NEW n \in Nat, NEW Q \in SUBSET SUBSET (1..n), {} \in Q,
           \A s \in SUBSET (1..n) : s # {} /\ s \ {Max(s)} \in Q => s \in Q
    PROVE  Q = SUBSET (1..n)
<1> DEFINE D == 1..n
           T == {m \in Nat : \A s \in SUBSET D : Cardinality(s) = m => s \in Q}
<1>0. IsFiniteSet(D)
  BY FS_Interval
<1>1. \A s \in SUBSET D : IsFiniteSet(s) /\ Cardinality(s) \in Nat /\ (Cardinality(s) = 0 => s = {})
  <2> HIDE DEF D
  <2> QED BY <1>0, FS_Subset, FS_CardinalityType, FS_EmptySet
<1>2. 0 \in T
  BY <1>1
<1>3. ASSUME NEW m \in T PROVE m + 1 \in T
  <2> SUFFICES ASSUME NEW s \in SUBSET D, Cardinality(s) = m + 1 PROVE s \in Q
    OBVIOUS
  <2>0. m \in Nat
    OBVIOUS
  <2>1. s # {}
    <3> HIDE DEF T, D
    <3>1. Cardinality({}) = 0
      BY FS_EmptySet
    <3>2. s = {} => m + 1 = 0
      BY <3>1
    <3> QED BY <2>0, <3>2
  <2>2. Max(s) \in s
    BY <2>1, MaxFacts
  <2>3. Cardinality(s \ {Max(s)}) = m /\ s \ {Max(s)} \in SUBSET D
    <3> HIDE DEF T, D
    <3>1. IsFiniteSet(s)
      BY <1>1
    <3>2. Cardinality(s \ {Max(s)}) = Cardinality(s) - 1
      BY <2>2, <3>1, FS_RemoveElement
    <3> QED BY <2>0, <3>2
  <2>4. s \ {Max(s)} \in Q
    BY <2>3
  <2> QED BY <2>1, <2>4
<1>4. T = Nat
  <2> HIDE DEF T
  <2>1. T \in SUBSET Nat
    BY DEF T
  <2> QED BY <1>2, <1>3, <2>1, NatSetInduction
<1>5. SUBSET D \subseteq Q
  BY <1>1, <1>4
<1> QED BY <1>5

-----------------------------------------------------------------------------
(* The recursion that the sum is defined by.                               *)

\* The element that the fold takes next.
Pick(s) == CHOOSE x \in s : TRUE

\* One turn of the recursion: the sum over s, given the sums over smaller sets.
Turn(g, f, s) == IF s = {} THEN 0 ELSE f[Pick(s)] + g[s \ {Pick(s)}]

IsSum(g, f, S) == g = [s \in SUBSET S |-> Turn(g, f, s)]

\* The sum is the function that satisfies the recursion, if there is one.
LEMMA SumDef ==
    ASSUME NEW f, NEW S
    PROVE  SumFunctionOnSet(f, S) = (CHOOSE g : IsSum(g, f, S))[S]
BY DEF SumFunctionOnSet, FoldFunctionOnSet, MapThenFoldSet, Pick, Turn, IsSum

\* What is picked is an element.
LEMMA PickFacts ==
    ASSUME NEW S, IsFiniteSet(S), NEW s \in SUBSET S, s # {}
    PROVE  /\ Pick(s) \in s /\ s \ {Pick(s)} \in SUBSET S
           /\ IsFiniteSet(s) /\ Cardinality(s) \in Nat
           /\ Cardinality(s \ {Pick(s)}) = Cardinality(s) - 1
<1>1. Pick(s) \in s
  BY DEF Pick
<1>2. IsFiniteSet(s) /\ Cardinality(s) \in Nat
  BY FS_Subset, FS_CardinalityType
<1> QED BY <1>1, <1>2, FS_RemoveElement

\* On a finite set there is one: a function that is right up to n elements is
\* made right up to n + 1 by one turn.
LEMMA SumExists ==
    ASSUME NEW f, NEW S, IsFiniteSet(S)
    PROVE  \E g : IsSum(g, f, S)
<1> DEFINE Right(g, n) == \A s \in SUBSET S : Cardinality(s) <= n => g[s] = Turn(g, f, s)
           T == {n \in Nat : \E g : DOMAIN g = SUBSET S /\ g = [s \in SUBSET S |-> g[s]] /\ Right(g, n)}
<1>1. \A s \in SUBSET S : Cardinality(s) \in Nat /\ (Cardinality(s) = 0 => s = {})
  BY FS_Subset, FS_CardinalityType, FS_EmptySet
<1>2. 0 \in T
  <2> DEFINE g == [s \in SUBSET S |-> 0]
  <2>1. Right(g, 0)
    BY <1>1 DEF Turn
  <2> QED BY <2>1
<1>3. ASSUME NEW n \in T PROVE n + 1 \in T
  <2>1. PICK g : DOMAIN g = SUBSET S /\ Right(g, n)
    OBVIOUS
  <2> DEFINE h == [s \in SUBSET S |-> Turn(g, f, s)]
  <2>2. \A s \in SUBSET S : Cardinality(s) <= n => h[s] = g[s]
    BY <2>1
  <2>3. ASSUME NEW s \in SUBSET S, Cardinality(s) <= n + 1 PROVE h[s] = Turn(h, f, s)
    <3>1. CASE s = {}
      BY <3>1 DEF Turn
    <3>2. CASE s # {}
      <4>1. s \ {Pick(s)} \in SUBSET S /\ Cardinality(s \ {Pick(s)}) <= n
        BY <2>3, <3>2, PickFacts
      <4>2. h[s \ {Pick(s)}] = g[s \ {Pick(s)}]
        BY <2>2, <4>1
      <4> QED BY <3>2, <4>2 DEF Turn
    <3> QED BY <3>1, <3>2
  <2>4. DOMAIN h = SUBSET S /\ h = [s \in SUBSET S |-> h[s]] /\ Right(h, n + 1)
    BY <2>3
  <2>5. \E g1 : DOMAIN g1 = SUBSET S /\ g1 = [s \in SUBSET S |-> g1[s]] /\ Right(g1, n + 1)
    <3> HIDE DEF h, Right
    <3> QED BY <2>4
  <2> HIDE DEF Right
  <2>6. n + 1 \in Nat
    OBVIOUS
  <2> QED BY <2>5, <2>6
<1>4. T = Nat
  <2> HIDE DEF T
  <2>1. T \in SUBSET Nat
    BY DEF T
  <2> QED BY <1>2, <1>3, <2>1, NatSetInduction
<1>5. Cardinality(S) \in T
  BY <1>1, <1>4
<1>6. PICK g : g = [s \in SUBSET S |-> g[s]] /\ Right(g, Cardinality(S))
  BY <1>5
<1>7. \A s \in SUBSET S : g[s] = Turn(g, f, s)
  BY <1>6, FS_Subset
<1>8. IsSum(g, f, S)
  BY <1>6, <1>7 DEF IsSum
<1> QED BY <1>8

\* The function that the recursion defines.
SumOf(f, S) == CHOOSE g : IsSum(g, f, S)

\* It satisfies the recursion, at every subset.
LEMMA SumOfStep ==
    ASSUME NEW f, NEW S, IsFiniteSet(S), NEW s \in SUBSET S
    PROVE  SumOf(f, S)[s] = Turn(SumOf(f, S), f, s)
<1>1. IsSum(SumOf(f, S), f, S)
  BY SumExists DEF SumOf
<1> DEFINE g == SumOf(f, S)
<1>2. g = [r \in SUBSET S |-> Turn(g, f, r)]
  BY <1>1 DEF IsSum
<1> HIDE DEF g
<1>3. g[s] = Turn(g, f, s)
  BY <1>2
<1> QED BY <1>3 DEF g

\* Its value at a set depends on nothing but the values summed there.
LEMMA SumOfAgree ==
    ASSUME NEW f1, NEW S1, IsFiniteSet(S1), NEW f2, NEW S2, IsFiniteSet(S2),
           NEW u, u \subseteq S1, u \subseteq S2, \A x \in u : f1[x] = f2[x]
    PROVE  SumOf(f1, S1)[u] = SumOf(f2, S2)[u]
<1> DEFINE g1 == SumOf(f1, S1)
           g2 == SumOf(f2, S2)
           Same(s) == g1[s] = g2[s]
           T == {n \in Nat : \A s \in SUBSET u : Cardinality(s) = n => Same(s)}
<1>0. IsFiniteSet(u)
  BY FS_Subset
<1>1. \A s \in SUBSET u : /\ Cardinality(s) \in Nat /\ (Cardinality(s) = 0 => s = {})
                          /\ g1[s] = Turn(g1, f1, s) /\ g2[s] = Turn(g2, f2, s)
  <2> SUFFICES ASSUME NEW s \in SUBSET u
               PROVE /\ Cardinality(s) \in Nat /\ (Cardinality(s) = 0 => s = {})
                     /\ g1[s] = Turn(g1, f1, s) /\ g2[s] = Turn(g2, f2, s)
    OBVIOUS
  <2>1. s \in SUBSET S1 /\ s \in SUBSET S2
    OBVIOUS
  <2>2. g1[s] = Turn(g1, f1, s)
    BY <2>1, SumOfStep
  <2>3. g2[s] = Turn(g2, f2, s)
    BY <2>1, SumOfStep
  <2> QED BY <1>0, <2>2, <2>3, FS_Subset, FS_CardinalityType, FS_EmptySet
<1> HIDE DEF g1, g2
<1>2. 0 \in T
  BY <1>1 DEF Turn
<1>3. ASSUME NEW n \in T PROVE n + 1 \in T
  <2> SUFFICES ASSUME NEW s \in SUBSET u, Cardinality(s) = n + 1 PROVE Same(s)
    OBVIOUS
  <2>0. n \in Nat
    OBVIOUS
  <2>1. s # {}
    <3> HIDE DEF T, Same
    <3>1. Cardinality({}) = 0
      BY FS_EmptySet
    <3> QED BY <2>0, <3>1
  <2>2. Pick(s) \in s /\ s \ {Pick(s)} \in SUBSET u /\ Cardinality(s \ {Pick(s)}) = n
    BY <1>0, <2>1, PickFacts
  <2>3. Same(s \ {Pick(s)})
    BY <2>2
  <2>4. g1[s] = f1[Pick(s)] + g1[s \ {Pick(s)}]
    BY <1>1, <2>1 DEF Turn
  <2>5. g2[s] = f2[Pick(s)] + g2[s \ {Pick(s)}]
    BY <1>1, <2>1 DEF Turn
  <2> QED BY <2>2, <2>3, <2>4, <2>5
<1>4. T = Nat
  <2> HIDE DEF T
  <2>1. T \in SUBSET Nat
    BY DEF T
  <2> QED BY <1>2, <1>3, <2>1, NatSetInduction
<1>5. Same(u)
  <2>1. Cardinality(u) \in T /\ u \in SUBSET u
    BY <1>1, <1>4
  <2> QED BY <2>1
<1> QED BY <1>5 DEF g1, g2

-----------------------------------------------------------------------------
(* The sum itself.                                                         *)

\* Functions that agree on a set have the same sum there.
LEMMA SumAgree ==
    ASSUME NEW f1, NEW f2, NEW S, IsFiniteSet(S), \A x \in S : f1[x] = f2[x]
    PROVE  SumFunctionOnSet(f1, S) = SumFunctionOnSet(f2, S)
<1>1. SumOf(f1, S)[S] = SumOf(f2, S)[S]
  BY SumOfAgree
<1> QED BY <1>1, SumDef DEF SumOf

\* Nothing sums to zero.
LEMMA SumEmpty ==
    ASSUME NEW f
    PROVE  SumFunctionOnSet(f, {}) = 0
<1>1. SumOf(f, {})[{}] = 0
  BY SumOfStep, FS_EmptySet DEF Turn
<1> QED BY <1>1, SumDef DEF SumOf

\* The element picked first, and the rest.
LEMMA SumStep ==
    ASSUME NEW f, NEW S, IsFiniteSet(S), S # {}
    PROVE  SumFunctionOnSet(f, S) = f[Pick(S)] + SumFunctionOnSet(f, S \ {Pick(S)})
<1> DEFINE R == S \ {Pick(S)}
<1>1. IsFiniteSet(R) /\ R \subseteq S
  BY FS_Subset
<1>2. SumOf(f, S)[S] = f[Pick(S)] + SumOf(f, S)[R]
  BY SumOfStep DEF Turn
<1>3. SumOf(f, S)[R] = SumOf(f, R)[R]
  BY <1>1, SumOfAgree
<1>4. SumFunctionOnSet(f, S) = SumOf(f, S)[S]
  BY SumDef DEF SumOf
<1>5. SumFunctionOnSet(f, R) = SumOf(f, R)[R]
  BY SumDef DEF SumOf
<1> QED BY <1>2, <1>3, <1>4, <1>5

\* A sum of naturals is a natural.
LEMMA SumNat ==
    ASSUME NEW f, NEW S, IsFiniteSet(S), \A x \in S : f[x] \in Nat
    PROVE  SumFunctionOnSet(f, S) \in Nat
<1> DEFINE T == {n \in Nat : \A s \in SUBSET S : Cardinality(s) = n => SumFunctionOnSet(f, s) \in Nat}
<1>1. \A s \in SUBSET S : Cardinality(s) \in Nat /\ (Cardinality(s) = 0 => s = {})
  BY FS_Subset, FS_CardinalityType, FS_EmptySet
<1>2. 0 \in T
  BY <1>1, SumEmpty
<1>3. ASSUME NEW n \in T PROVE n + 1 \in T
  <2> SUFFICES ASSUME NEW s \in SUBSET S, Cardinality(s) = n + 1
               PROVE SumFunctionOnSet(f, s) \in Nat
    OBVIOUS
  <2>1. s # {}
    BY FS_EmptySet
  <2>2. /\ IsFiniteSet(s) /\ Pick(s) \in s /\ s \ {Pick(s)} \in SUBSET S
        /\ Cardinality(s \ {Pick(s)}) = n
    BY <2>1, PickFacts
  <2>3. SumFunctionOnSet(f, s \ {Pick(s)}) \in Nat
    BY <2>2
  <2>4. SumFunctionOnSet(f, s) = f[Pick(s)] + SumFunctionOnSet(f, s \ {Pick(s)})
    BY <2>1, <2>2, SumStep
  <2> QED BY <2>2, <2>3, <2>4
<1>4. T = Nat
  <2> HIDE DEF T
  <2>1. T \in SUBSET Nat
    BY DEF T
  <2> QED BY <1>2, <1>3, <2>1, NatSetInduction
<1>5. Cardinality(S) \in T /\ S \in SUBSET S
  BY <1>1, <1>4
<1> QED BY <1>5

\* Whichever element is taken out first, the sum is the same.
LEMMA SumRemove ==
    ASSUME NEW f, NEW S, IsFiniteSet(S), \A x \in S : f[x] \in Nat, NEW e \in S
    PROVE  SumFunctionOnSet(f, S) = f[e] + SumFunctionOnSet(f, S \ {e})
<1> DEFINE Sum(s) == SumFunctionOnSet(f, s)
           T == {n \in Nat : \A s \in SUBSET S : Cardinality(s) = n =>
                               \A x \in s : Sum(s) = f[x] + Sum(s \ {x})}
<1>1. \A s \in SUBSET S : /\ IsFiniteSet(s) /\ Cardinality(s) \in Nat /\ Sum(s) \in Nat
                          /\ (Cardinality(s) = 0 => s = {})
  BY FS_Subset, FS_CardinalityType, FS_EmptySet, SumNat
<1>0. \A s \in SUBSET S : s # {} => /\ Sum(s) = f[Pick(s)] + Sum(s \ {Pick(s)})
                                    /\ Pick(s) \in s
  BY <1>1, SumStep, PickFacts
<1> HIDE DEF Sum
<1>2. 0 \in T
  BY <1>1
<1>3. ASSUME NEW n \in T PROVE n + 1 \in T
  <2> SUFFICES ASSUME NEW s \in SUBSET S, Cardinality(s) = n + 1, NEW x \in s
               PROVE Sum(s) = f[x] + Sum(s \ {x})
    OBVIOUS
  <2> DEFINE p == Pick(s)
             both == (s \ {p}) \ {x}
  <2>1. p \in s /\ Sum(s) = f[p] + Sum(s \ {p})
    BY <1>0
  <2> HIDE DEF p
  <2>2. CASE x = p
    BY <2>1, <2>2
  <2>3. CASE x # p
    <3>1. /\ s \ {p} \in SUBSET S /\ Cardinality(s \ {p}) = n /\ x \in s \ {p}
          /\ s \ {x} \in SUBSET S /\ Cardinality(s \ {x}) = n /\ p \in s \ {x}
      BY <1>1, <2>1, <2>3, FS_RemoveElement
    <3>2. Sum(s \ {p}) = f[x] + Sum(both)
      BY <3>1
    <3>3. Sum(s \ {x}) = f[p] + Sum((s \ {x}) \ {p})
      BY <3>1
    <3>4. (s \ {x}) \ {p} = both /\ both \in SUBSET S
      OBVIOUS
    <3>5. f[x] \in Nat /\ f[p] \in Nat /\ Sum(both) \in Nat
      BY <1>1, <2>1, <3>4
    <3>6. Sum(s) = f[p] + (f[x] + Sum(both)) /\ Sum(s \ {x}) = f[p] + Sum(both)
      BY <2>1, <3>2, <3>3, <3>4
    <3> HIDE DEF both
    <3> QED BY <3>5, <3>6
  <2> QED BY <2>2, <2>3
<1>4. T = Nat
  <2> HIDE DEF T
  <2>1. T \in SUBSET Nat
    BY DEF T
  <2> QED BY <1>2, <1>3, <2>1, NatSetInduction
<1>5. Cardinality(S) \in T /\ S \in SUBSET S
  BY <1>1, <1>4
<1>6. Sum(S) = f[e] + Sum(S \ {e})
  BY <1>5
<1> QED BY <1>6 DEF Sum

\* The sum over two sets with nothing in common.
LEMMA SumDisjoint ==
    ASSUME NEW f, NEW A, NEW B, IsFiniteSet(A), IsFiniteSet(B), A \cap B = {},
           \A x \in A \cup B : f[x] \in Nat
    PROVE  SumFunctionOnSet(f, A \cup B) = SumFunctionOnSet(f, A) + SumFunctionOnSet(f, B)
<1> DEFINE Sum(s) == SumFunctionOnSet(f, s)
           Q == {b \in SUBSET B : Sum(A \cup b) = Sum(A) + Sum(b)}
<1>1. \A b \in SUBSET B : Sum(b) \in Nat /\ IsFiniteSet(b) /\ IsFiniteSet(A \cup b)
  BY FS_Subset, FS_Union, SumNat
<1>2. Sum(A) \in Nat /\ Sum({}) = 0
  BY SumNat, SumEmpty
<1>3. ASSUME NEW b \in SUBSET B, NEW x \in B \ b
      PROVE  Sum(b \cup {x}) = f[x] + Sum(b) /\ Sum(A \cup (b \cup {x})) = f[x] + Sum(A \cup b)
  <2>1. b \cup {x} \in SUBSET B /\ (b \cup {x}) \ {x} = b
    OBVIOUS
  <2>2. (A \cup (b \cup {x})) \ {x} = A \cup b
    OBVIOUS
  <2>5. \A s : (IsFiniteSet(s) /\ s \subseteq A \cup B /\ x \in s) => Sum(s) = f[x] + Sum(s \ {x})
    BY SumRemove
  <2>6. /\ IsFiniteSet(b \cup {x}) /\ b \cup {x} \subseteq A \cup B
        /\ IsFiniteSet(A \cup (b \cup {x})) /\ A \cup (b \cup {x}) \subseteq A \cup B
    BY <1>1, <2>1
  <2> HIDE DEF Sum
  <2>3. Sum(b \cup {x}) = f[x] + Sum(b)
    BY <2>1, <2>5, <2>6
  <2>4. Sum(A \cup (b \cup {x})) = f[x] + Sum(A \cup b)
    BY <2>2, <2>5, <2>6
  <2> QED BY <2>3, <2>4
<1> HIDE DEF Sum
<1>4. {} \in Q
  <2>1. A \cup {} = A
    OBVIOUS
  <2> QED BY <1>2, <2>1
<1>5. ASSUME NEW b \in Q, NEW x \in B \ b PROVE b \cup {x} \in Q
  <2>1. f[x] \in Nat /\ Sum(b) \in Nat /\ Sum(A \cup b) = Sum(A) + Sum(b)
    BY <1>1
  <2>2. Sum(A \cup (b \cup {x})) = Sum(A) + Sum(b \cup {x})
    BY <1>2, <1>3, <2>1
  <2> QED BY <2>2
<1>6. Q = SUBSET B
  <2> HIDE DEF Q
  <2>1. Q \in SUBSET SUBSET B
    BY DEF Q
  <2> QED BY <1>4, <1>5, <2>1, SubsetInduction
<1>7. B \in Q
  BY <1>6
<1>8. Sum(A \cup B) = Sum(A) + Sum(B)
  BY <1>7
<1> QED BY <1>8 DEF Sum

\* A set split in two.
LEMMA SumSplit ==
    ASSUME NEW f, NEW S, IsFiniteSet(S), NEW K \in SUBSET S, \A x \in S : f[x] \in Nat
    PROVE  /\ SumFunctionOnSet(f, S) = SumFunctionOnSet(f, K) + SumFunctionOnSet(f, S \ K)
           /\ {SumFunctionOnSet(f, S), SumFunctionOnSet(f, K), SumFunctionOnSet(f, S \ K)} \subseteq Nat
<1>1. IsFiniteSet(K) /\ IsFiniteSet(S \ K) /\ K \cap (S \ K) = {} /\ K \cup (S \ K) = S
  BY FS_Subset
<1>2. SumFunctionOnSet(f, K \cup (S \ K)) = SumFunctionOnSet(f, K) + SumFunctionOnSet(f, S \ K)
  BY <1>1, SumDisjoint
<1>3. /\ SumFunctionOnSet(f, S) \in Nat /\ SumFunctionOnSet(f, K) \in Nat
      /\ SumFunctionOnSet(f, S \ K) \in Nat
  BY <1>1, SumNat
<1> QED BY <1>1, <1>2, <1>3

-----------------------------------------------------------------------------
(* Sequences of anything.                                                  *)

\* s is a sequence, whatever its elements are.
IsSeq(s) == s \in Seq(ToSet(s))

\* A sequence is one of its own elements.
LEMMA OwnElements ==
    ASSUME NEW S, NEW s \in Seq(S)
    PROVE  IsSeq(s) /\ Len(s) \in Nat /\ DOMAIN s = 1..Len(s) /\ ToSet(s) \subseteq S
<1>1. Len(s) \in Nat /\ s \in [1..Len(s) -> S] /\ DOMAIN s = 1..Len(s)
  BY LenProperties
<1>2. s \in [1..Len(s) -> ToSet(s)]
  BY <1>1 DEF ToSet
<1>3. s \in Seq(ToSet(s))
  BY <1>1, <1>2, SeqDef
<1> QED BY <1>1, <1>3 DEF IsSeq, ToSet

\* Sequences of different elements are sequences of all of them.
LEMMA JoinedSeq ==
    ASSUME NEW s, NEW t, IsSeq(s), IsSeq(t)
    PROVE  IsSeq(s \o t) /\ <<>> \o t = t /\ Len(s \o t) = Len(s) + Len(t)
           /\ ToSet(s \o t) \subseteq ToSet(s) \cup ToSet(t)
<1> DEFINE S == ToSet(s) \cup ToSet(t)
<1>1. s \in Seq(S) /\ t \in Seq(S)
  BY SeqMonotonic DEF IsSeq
<1> HIDE DEF S
<1>2. s \o t \in Seq(S) /\ Len(s \o t) = Len(s) + Len(t) /\ <<>> \o t = t
  BY <1>1, ConcatProperties, ConcatEmptySeq
<1> QED BY <1>2, OwnElements DEF S

\* So is one with an element more.
LEMMA AppendedSeq ==
    ASSUME NEW s, NEW x, IsSeq(s)
    PROVE  /\ IsSeq(Append(s, x)) /\ Len(Append(s, x)) = Len(s) + 1 /\ Len(s) \in Nat
           /\ ToSet(Append(s, x)) \subseteq ToSet(s) \cup {x}
<1> DEFINE S == ToSet(s) \cup {x}
<1>1. s \in Seq(S) /\ x \in S
  BY SeqMonotonic DEF IsSeq
<1> HIDE DEF S
<1>2. Append(s, x) \in Seq(S) /\ Len(Append(s, x)) = Len(s) + 1 /\ Len(s) \in Nat
  BY <1>1, AppendProperties, LenProperties
<1> QED BY <1>2, OwnElements DEF S

\* And so is the empty one.
LEMMA EmptyIsSeq == IsSeq(<<>>) /\ Len(<<>>) = 0 /\ ToSet(<<>>) = {}
<1>1. <<>> \in Seq({}) /\ Len(<<>>) = 0
  BY EmptySeq
<1>2. \A s \in Seq({}) : IsSeq(s) /\ ToSet(s) \subseteq {}
  BY OwnElements
<1>3. IsSeq(<<>>) /\ ToSet(<<>>) = {}
  BY <1>1, <1>2
<1> QED BY <1>1, <1>3

\* A part of a sequence.
LEMMA SliceFacts ==
    ASSUME NEW S, NEW s \in Seq(S), NEW a \in Nat, NEW b \in Nat, a <= b, b <= Len(s)
    PROVE  /\ SubSeq(s, a + 1, b) \in Seq(S) /\ Len(SubSeq(s, a + 1, b)) = b - a
           /\ \A i \in 1..(b - a) : SubSeq(s, a + 1, b)[i] = s[a + i]
<1>1. Len(s) \in Nat /\ \A i \in (a + 1)..b : s[i] \in S
  BY ElementOfSeq, LenProperties
<1>2. /\ SubSeq(s, a + 1, b) \in Seq(S)
      /\ Len(SubSeq(s, a + 1, b)) = IF a + 1 <= b THEN b - (a + 1) + 1 ELSE 0
      /\ \A i \in 1..(b - (a + 1) + 1) : SubSeq(s, a + 1, b)[i] = s[(a + 1) + i - 1]
  BY <1>1, SubSeqProperties
<1>3. b - (a + 1) + 1 = b - a /\ \A i \in 1..(b - a) : (a + 1) + i - 1 = a + i
  OBVIOUS
<1> QED BY <1>2, <1>3

\* The elements of a sequence that is longer.
LEMMA AppendedSet ==
    ASSUME NEW s, NEW x, IsSeq(s)
    PROVE  ToSet(Append(s, x)) = ToSet(s) \cup {x}
<1>1. ToSet(Append(s, x)) \subseteq ToSet(s) \cup {x}
  BY AppendedSeq
<1>2. ToSet(s) \cup {x} \subseteq ToSet(Append(s, x))
  <2> DEFINE S == ToSet(s) \cup {x}
             t == Append(s, x)
  <2>1. s \in Seq(S) /\ x \in S
    BY SeqMonotonic DEF IsSeq
  <2> HIDE DEF S
  <2>2. /\ t \in Seq(S) /\ Len(t) = Len(s) + 1 /\ t[Len(s) + 1] = x /\ Len(s) \in Nat
        /\ \A i \in 1..Len(s) : t[i] = s[i]
    BY <2>1, AppendProperties, LenProperties
  <2>3. DOMAIN s = 1..Len(s) /\ DOMAIN t = 1..(Len(s) + 1)
    BY <2>1, <2>2, LenProperties
  <2>4. x \in ToSet(t)
    BY <2>2, <2>3 DEF ToSet
  <2>5. ASSUME NEW y \in ToSet(s) PROVE y \in ToSet(t)
    <3>1. PICK i \in 1..Len(s) : s[i] = y
      BY <2>3 DEF ToSet
    <3>2. i \in DOMAIN t /\ t[i] = y
      BY <2>2, <2>3, <3>1
    <3> QED BY <3>2 DEF ToSet
  <2> QED BY <2>4, <2>5
<1> QED BY <1>1, <1>2

LEMMA JoinedSet ==
    ASSUME NEW s, NEW t, IsSeq(s), IsSeq(t)
    PROVE  ToSet(s \o t) = ToSet(s) \cup ToSet(t)
<1> DEFINE S == ToSet(s) \cup ToSet(t)
           u == s \o t
<1>1. s \in Seq(S) /\ t \in Seq(S)
  BY SeqMonotonic DEF IsSeq
<1> HIDE DEF S
<1>2. /\ u \in Seq(S) /\ Len(u) = Len(s) + Len(t) /\ Len(s) \in Nat /\ Len(t) \in Nat
      /\ \A i \in 1..(Len(s) + Len(t)) : u[i] = IF i <= Len(s) THEN s[i] ELSE t[i - Len(s)]
  BY <1>1, ConcatProperties, LenProperties
<1>3. DOMAIN s = 1..Len(s) /\ DOMAIN t = 1..Len(t) /\ DOMAIN u = 1..(Len(s) + Len(t))
  BY <1>1, <1>2, LenProperties
<1>4. ASSUME NEW y \in ToSet(s) PROVE y \in ToSet(u)
  <2>1. PICK i \in 1..Len(s) : s[i] = y
    BY <1>3 DEF ToSet
  <2>2. i \in DOMAIN u /\ u[i] = y
    BY <1>2, <1>3, <2>1
  <2> QED BY <2>2 DEF ToSet
<1>5. ASSUME NEW y \in ToSet(t) PROVE y \in ToSet(u)
  <2>1. PICK i \in 1..Len(t) : t[i] = y
    BY <1>3 DEF ToSet
  <2>2. Len(s) + i \in 1..(Len(s) + Len(t)) /\ ~(Len(s) + i <= Len(s)) /\ (Len(s) + i) - Len(s) = i
    BY <1>2
  <2>3. u[Len(s) + i] = t[i]
    BY <1>2, <2>2
  <2> QED BY <1>3, <2>1, <2>2, <2>3 DEF ToSet
<1>6. ToSet(u) \subseteq ToSet(s) \cup ToSet(t)
  BY JoinedSeq
<1> QED BY <1>4, <1>5, <1>6

\* A sequence that is not empty is a shorter one with an element more.
LEMMA SeqEnd ==
    ASSUME NEW S, NEW s \in Seq(S), s # <<>>
    PROVE  \E t \in Seq(S) : \E x \in S : s = Append(t, x)
<1> DEFINE n == Len(s) - 1
<1>0. n \in Nat /\ Len(s) = n + 1 /\ n + 1 \in 1..Len(s) /\ \A i \in 1..n : i \in 1..Len(s)
  <2>1. Len(s) \in Nat /\ Len(s) # 0
    BY EmptySeq, LenProperties
  <2> QED BY <2>1
<1> HIDE DEF n
<1> DEFINE t == [i \in 1..n |-> s[i]]
           x == s[n + 1]
<1>1. x \in S /\ \A i \in 1..n : s[i] \in S
  BY <1>0, ElementOfSeq
<1>2. t \in Seq(S) /\ Len(t) = n /\ \A i \in 1..n : t[i] = s[i]
  <2>1. t \in [1..n -> S] /\ \A i \in 1..n : t[i] = s[i]
    BY <1>1
  <2>2. DOMAIN t = 1..n
    OBVIOUS
  <2> HIDE DEF t
  <2>3. t \in Seq(S)
    BY <1>0, <2>1, SeqDef
  <2>4. Len(t) \in Nat /\ DOMAIN t = 1..Len(t)
    BY <2>3, LenProperties
  <2>5. Len(t) = n
    BY <1>0, <2>2, <2>4
  <2> QED BY <2>1, <2>3, <2>5
<1> HIDE DEF t, x
<1>3. Append(t, x) = s
  <2>1. /\ Append(t, x) \in Seq(S) /\ Len(Append(t, x)) = Len(t) + 1
        /\ Append(t, x)[Len(t) + 1] = x /\ \A i \in 1..Len(t) : Append(t, x)[i] = t[i]
    BY <1>1, <1>2, AppendProperties
  <2>2. \A i \in 1..(n + 1) : i \in 1..n \/ i = n + 1
    BY <1>0
  <2>3. \A i \in 1..(n + 1) : Append(t, x)[i] = s[i]
    BY <1>2, <2>1, <2>2 DEF x
  <2> QED BY <1>0, <1>2, <2>1, <2>3, SeqEqual
<1> QED BY <1>1, <1>2, <1>3

\* A set of sequences that has the empty one, and with every one those that are longer by
\* one element, has them all.
Extends(Q, S) == \A s \in Q : \A x \in S : Append(s, x) \in Q

LEMMA SeqSetInduction ==
    ASSUME NEW S, NEW Q \in SUBSET Seq(S), <<>> \in Q, Extends(Q, S)
    PROVE  Q = Seq(S)
<1> DEFINE T == {n \in Nat : \A s \in Seq(S) : Len(s) = n => s \in Q}
<1>1. 0 \in T
  BY EmptySeq
<1>2. ASSUME NEW n \in T PROVE n + 1 \in T
  <2> SUFFICES ASSUME NEW s \in Seq(S), Len(s) = n + 1 PROVE s \in Q
    OBVIOUS
  <2>1. n \in Nat
    OBVIOUS
  <2>2. \E t \in Seq(S) : \E x \in S : s = Append(t, x)
    <3>1. s # <<>>
      BY <2>1, EmptySeq
    <3> QED BY <3>1, SeqEnd
  <2>3. PICK t \in Seq(S) : \E x \in S : s = Append(t, x)
    BY <2>2
  <2>4. PICK x \in S : s = Append(t, x)
    BY <2>3
  <2>5. Len(t) = n
    <3>1. Len(t) \in Nat /\ Len(s) = Len(t) + 1
      BY <2>4, AppendProperties, LenProperties
    <3> QED BY <2>1, <3>1
  <2>6. t \in Q
    BY <2>1, <2>5
  <2> QED BY <2>4, <2>6 DEF Extends
<1>3. T = Nat
  <2> HIDE DEF T
  <2>1. T \in SUBSET Nat
    BY DEF T
  <2> QED BY <1>1, <1>2, <2>1, NatSetInduction
<1>4. ASSUME NEW s \in Seq(S) PROVE s \in Q
  <2>1. Len(s) \in T
    BY <1>3, LenProperties
  <2> QED BY <2>1
<1> QED BY <1>4

-----------------------------------------------------------------------------
(* Sequences joined to one.                                                *)

\* One turn of the recursion of FlattenSeq.
JoinTurn(g, s, i) == IF i = 1 THEN s[i] ELSE g[i - 1] \o s[i]

IsJoin(g, s) == g = [i \in 1..Len(s) |-> JoinTurn(g, s, i)]

JoinOf(s) == CHOOSE g : IsJoin(g, s)

\* FlattenSeq is the last value of the function that satisfies the recursion.
LEMMA FlattenDef ==
    ASSUME NEW s
    PROVE  FlattenSeq(s) = IF Len(s) = 0 THEN s ELSE JoinOf(s)[Len(s)]
BY DEF FlattenSeq, JoinOf, IsJoin, JoinTurn

\* The recursion has a solution.
LEMMA JoinOfStep ==
    ASSUME NEW s, NEW n \in Nat, Len(s) = n, NEW i \in 1..n
    PROVE  JoinOf(s)[i] = JoinTurn(JoinOf(s), s, i)
<1> DEFINE D == 1..n
           Right(g, m) == \A j \in D : j <= m => g[j] = JoinTurn(g, s, j)
           T == {m \in Nat : \E g : g = [j \in D |-> g[j]] /\ Right(g, m)}
<1>1. 0 \in T
  <2> DEFINE g == [j \in D |-> 0]
  <2>1. g = [j \in D |-> g[j]] /\ Right(g, 0)
    OBVIOUS
  <2>2. \E g1 : g1 = [j \in D |-> g1[j]] /\ Right(g1, 0)
    <3> HIDE DEF g, Right, D
    <3> QED BY <2>1
  <2> HIDE DEF Right, D
  <2> QED BY <2>2
<1>2. ASSUME NEW m \in T PROVE m + 1 \in T
  <2>0. m \in Nat
    OBVIOUS
  <2>1. PICK g : Right(g, m)
    OBVIOUS
  <2> DEFINE h == [j \in D |-> JoinTurn(g, s, j)]
  <2>2. \A j \in D : j <= m => h[j] = g[j]
    BY <2>1
  <2>3. ASSUME NEW j \in D, j <= m + 1 PROVE h[j] = JoinTurn(h, s, j)
    <3>1. CASE j = 1
      BY <3>1 DEF JoinTurn
    <3>2. CASE j # 1
      <4>1. j - 1 \in D /\ j - 1 <= m
        BY <2>0, <2>3, <3>2
      <4>2. h[j - 1] = g[j - 1]
        BY <2>2, <4>1
      <4> QED BY <3>2, <4>2 DEF JoinTurn
    <3> QED BY <3>1, <3>2
  <2>4. h = [j \in D |-> h[j]] /\ Right(h, m + 1)
    BY <2>3
  <2>5. \E g1 : g1 = [j \in D |-> g1[j]] /\ Right(g1, m + 1)
    <3> HIDE DEF h, Right, D
    <3> QED BY <2>4
  <2>6. m + 1 \in Nat
    BY <2>0
  <2> HIDE DEF Right, D
  <2> QED BY <2>5, <2>6
<1>3. T = Nat
  <2> HIDE DEF T
  <2>1. T \in SUBSET Nat
    BY DEF T
  <2> QED BY <1>1, <1>2, <2>1, NatSetInduction
<1>4. PICK g : g = [j \in D |-> g[j]] /\ Right(g, n)
  <2>1. n \in T
    BY <1>3
  <2> QED BY <2>1
<1>5. IsJoin(g, s)
  <2>1. \A j \in D : g[j] = JoinTurn(g, s, j)
    BY <1>4
  <2> QED BY <1>4, <2>1 DEF IsJoin
<1>6. IsJoin(JoinOf(s), s)
  BY <1>5 DEF JoinOf
<1> DEFINE k == JoinOf(s)
<1>7. k = [j \in 1..Len(s) |-> JoinTurn(k, s, j)]
  BY <1>6 DEF IsJoin
<1> HIDE DEF k
<1>8. k[i] = JoinTurn(k, s, i)
  BY <1>7
<1> QED BY <1>8 DEF k

\* The first m of a sequence of sequences joined.
Joined(F, m) == FlattenSeq([k \in 1..m |-> F[k]])

\* Nothing joined is empty.
LEMMA JoinedNothing ==
    ASSUME NEW F
    PROVE  Joined(F, 0) = <<>>
<1>1. Len([k \in 1..0 |-> F[k]]) = 0 /\ [k \in 1..0 |-> F[k]] = <<>>
  OBVIOUS
<1> QED BY <1>1, FlattenDef DEF Joined

\* The next sequence is joined at the end.
LEMMA JoinedStep ==
    ASSUME NEW F, NEW n \in Nat, \A k \in 1..(n + 1) : IsSeq(F[k])
    PROVE  Joined(F, n + 1) = Joined(F, n) \o F[n + 1]
<1> DEFINE s1 == [k \in 1..n |-> F[k]]
           s2 == [k \in 1..(n + 1) |-> F[k]]
           g1 == JoinOf(s1)
           g2 == JoinOf(s2)
           T == {i \in Nat : i \in 1..n => g1[i] = g2[i]}
<1>1. Len(s1) = n /\ Len(s2) = n + 1 /\ n + 1 \in Nat
  OBVIOUS
<1>2. \A i \in 1..n : s1[i] = F[i] /\ g1[i] = JoinTurn(g1, s1, i)
  <2> SUFFICES ASSUME NEW i \in 1..n PROVE s1[i] = F[i] /\ g1[i] = JoinTurn(g1, s1, i)
    OBVIOUS
  <2>1. s1[i] = F[i]
    OBVIOUS
  <2> HIDE DEF s1
  <2>2. g1[i] = JoinTurn(g1, s1, i)
    BY <1>1, JoinOfStep
  <2> QED BY <2>1, <2>2
<1>3. \A i \in 1..(n + 1) : s2[i] = F[i] /\ g2[i] = JoinTurn(g2, s2, i)
  <2> SUFFICES ASSUME NEW i \in 1..(n + 1) PROVE s2[i] = F[i] /\ g2[i] = JoinTurn(g2, s2, i)
    OBVIOUS
  <2>1. s2[i] = F[i]
    OBVIOUS
  <2> HIDE DEF s2
  <2>2. g2[i] = JoinTurn(g2, s2, i)
    BY <1>1, JoinOfStep
  <2> QED BY <2>1, <2>2
<1>4. Joined(F, n) = IF n = 0 THEN s1 ELSE g1[n]
  BY <1>1, FlattenDef DEF Joined
<1>5. Joined(F, n + 1) = g2[n + 1]
  BY <1>1, FlattenDef DEF Joined
<1>6. Joined(F, 0) = <<>>
  BY JoinedNothing
<1> HIDE DEF s1, s2, g1, g2
<1>7. 0 \in T
  OBVIOUS
<1>8. ASSUME NEW i \in T PROVE i + 1 \in T
  <2>0. i \in Nat
    OBVIOUS
  <2>1. CASE i + 1 \in 1..n
    <3>1. i + 1 \in 1..(n + 1)
      BY <2>1
    <3>2. CASE i = 0
      <4>1. g1[i + 1] = s1[i + 1] /\ g2[i + 1] = s2[i + 1]
        BY <1>2, <1>3, <2>1, <3>1, <3>2 DEF JoinTurn
      <4> QED BY <1>2, <1>3, <2>1, <3>1, <4>1
    <3>3. CASE i # 0
      <4>1. i \in 1..n /\ (i + 1) - 1 = i /\ i + 1 # 1
        BY <2>0, <2>1, <3>3
      <4>2. g1[i] = g2[i]
        BY <4>1
      <4>3. g1[i + 1] = g1[i] \o s1[i + 1] /\ g2[i + 1] = g2[i] \o s2[i + 1]
        BY <1>2, <1>3, <2>1, <3>1, <4>1 DEF JoinTurn
      <4>4. g1[i + 1] = g2[i + 1]
        BY <1>2, <1>3, <2>1, <3>1, <4>2, <4>3
      <4> QED BY <2>0, <4>4
    <3> QED BY <3>2, <3>3
  <2> QED BY <2>0, <2>1
<1>9. T = Nat
  <2> HIDE DEF T
  <2>1. T \in SUBSET Nat
    BY DEF T
  <2> QED BY <1>7, <1>8, <2>1, NatSetInduction
<1>10. CASE n = 0
  <2>1. Joined(F, n + 1) = F[n + 1]
    BY <1>3, <1>5, <1>10 DEF JoinTurn
  <2>2. <<>> \o F[n + 1] = F[n + 1]
    BY <1>10, JoinedSeq, EmptyIsSeq
  <2> QED BY <1>6, <1>10, <2>1, <2>2
<1>11. CASE n # 0
  <2>1. n \in 1..n /\ n + 1 \in 1..(n + 1) /\ (n + 1) - 1 = n /\ n + 1 # 1
    BY <1>11
  <2>2. g1[n] = g2[n]
    BY <1>9, <2>1
  <2>3. g2[n + 1] = g2[n] \o F[n + 1]
    BY <1>3, <2>1 DEF JoinTurn
  <2> QED BY <1>4, <1>5, <1>6, <1>11, <2>2, <2>3
<1> QED BY <1>10, <1>11

\* What is joined is a sequence.
LEMMA JoinedIsSeq ==
    ASSUME NEW F, NEW n \in Nat, \A k \in 1..n : IsSeq(F[k])
    PROVE  IsSeq(Joined(F, n))
<1> DEFINE T == {m \in Nat : m <= n => IsSeq(Joined(F, m))}
<1>1. 0 \in T
  BY JoinedNothing, EmptyIsSeq
<1>2. ASSUME NEW m \in T PROVE m + 1 \in T
  <2> SUFFICES ASSUME m + 1 <= n PROVE IsSeq(Joined(F, m + 1))
    OBVIOUS
  <2>1. m \in Nat /\ m <= n /\ m + 1 \in 1..n /\ \A k \in 1..(m + 1) : k \in 1..n
    OBVIOUS
  <2>2. Joined(F, m + 1) = Joined(F, m) \o F[m + 1]
    BY <2>1, JoinedStep
  <2>3. IsSeq(Joined(F, m)) /\ IsSeq(F[m + 1])
    BY <2>1
  <2>4. IsSeq(Joined(F, m) \o F[m + 1])
    BY <2>3, JoinedSeq
  <2> QED BY <2>2, <2>4
<1>3. T = Nat
  <2> HIDE DEF T
  <2>1. T \in SUBSET Nat
    BY DEF T
  <2> QED BY <1>1, <1>2, <2>1, NatSetInduction
<1>4. n \in T
  BY <1>3
<1> QED BY <1>4

-----------------------------------------------------------------------------
(* What a fold of a sequence from the left keeps, and what it comes to for a  *)
(* sequence that is one longer.                                               *)

\* One turn of the recursion of FoldLeft, which takes the greatest index first.
FoldTurn(p, g, base, s, r) == IF r = {} THEN base ELSE FoldOp(p, g[r \ {Max(r)}], s[Max(r)])

IsFold(p, g, base, s) == g = [r \in SUBSET DOMAIN s |-> FoldTurn(p, g, base, s, r)]

\* The function that the recursion defines; FoldLeft(FoldOp, base, s) is its value at all
\* indices.
FoldOf(p, base, s) == CHOOSE g : IsFold(p, g, base, s)

\* The recursion has a solution: a function that is right up to m elements is made
\* right up to m + 1 by one turn.
LEMMA FoldExists ==
    ASSUME NEW p, NEW base, NEW s, NEW n \in Nat, DOMAIN s = 1..n
    PROVE  \E g : IsFold(p, g, base, s)
<1> DEFINE D == 1..n
           Right(g, m) ==
               \A r \in SUBSET D : Cardinality(r) <= m => g[r] = FoldTurn(p, g, base, s, r)
           T == {m \in Nat : \E g : g = [r \in SUBSET D |-> g[r]] /\ Right(g, m)}
<1>0. IsFiniteSet(D)
  BY FS_Interval
<1>1. \A r \in SUBSET D : /\ IsFiniteSet(r) /\ Cardinality(r) \in Nat
                          /\ Cardinality(r) <= Cardinality(D) /\ (Cardinality(r) = 0 => r = {})
  <2> HIDE DEF D
  <2> QED BY <1>0, FS_Subset, FS_CardinalityType, FS_EmptySet
<1>2. \A r \in SUBSET D : r # {} => /\ Max(r) \in r /\ r \ {Max(r)} \in SUBSET D
                                    /\ Cardinality(r \ {Max(r)}) = Cardinality(r) - 1
  <2> SUFFICES ASSUME NEW r \in SUBSET D, r # {}
               PROVE  /\ Max(r) \in r /\ r \ {Max(r)} \in SUBSET D
                      /\ Cardinality(r \ {Max(r)}) = Cardinality(r) - 1
    OBVIOUS
  <2>1. Max(r) \in r
    BY MaxFacts
  <2> HIDE DEF D
  <2> QED BY <1>1, <2>1, FS_RemoveElement
<1> HIDE DEF D
<1>3. 0 \in T
  <2> DEFINE g == [r \in SUBSET D |-> base]
  <2>1. g = [r \in SUBSET D |-> g[r]] /\ Right(g, 0)
    BY <1>1 DEF FoldTurn
  <2>2. \E g1 : g1 = [r \in SUBSET D |-> g1[r]] /\ Right(g1, 0)
    <3> HIDE DEF g, Right
    <3> QED BY <2>1
  <2> HIDE DEF Right
  <2> QED BY <2>2
<1>4. ASSUME NEW m \in T PROVE m + 1 \in T
  <2>0. m \in Nat /\ m + 1 \in Nat
    OBVIOUS
  <2>1. PICK g : Right(g, m)
    OBVIOUS
  <2> HIDE DEF T
  <2> DEFINE h == [r \in SUBSET D |-> FoldTurn(p, g, base, s, r)]
  <2>2. \A r \in SUBSET D : Cardinality(r) <= m => h[r] = g[r]
    BY <2>1
  <2>3. ASSUME NEW r \in SUBSET D, Cardinality(r) <= m + 1 PROVE h[r] = FoldTurn(p, h, base, s, r)
    <3>1. CASE r = {}
      BY <3>1 DEF FoldTurn
    <3>2. CASE r # {}
      <4>1. r \ {Max(r)} \in SUBSET D /\ Cardinality(r \ {Max(r)}) <= m
        BY <1>1, <1>2, <2>0, <2>3, <3>2
      <4>2. h[r \ {Max(r)}] = g[r \ {Max(r)}]
        BY <2>2, <4>1
      <4> QED BY <3>2, <4>2 DEF FoldTurn
    <3> QED BY <3>1, <3>2
  <2>4. h = [r \in SUBSET D |-> h[r]] /\ Right(h, m + 1)
    BY <2>3
  <2>5. \E g1 : g1 = [r \in SUBSET D |-> g1[r]] /\ Right(g1, m + 1)
    <3> HIDE DEF h, Right
    <3> QED BY <2>4
  <2> HIDE DEF Right
  <2> QED BY <2>0, <2>5 DEF T
<1>5. T = Nat
  <2> HIDE DEF T
  <2>1. T \in SUBSET Nat
    BY DEF T
  <2> QED BY <1>3, <1>4, <2>1, NatSetInduction
<1>6. PICK g : g = [r \in SUBSET D |-> g[r]] /\ Right(g, Cardinality(D))
  <2>1. Cardinality(D) \in T
    BY <1>0, <1>5, FS_CardinalityType
  <2> QED BY <2>1
<1>7. \A r \in SUBSET D : g[r] = FoldTurn(p, g, base, s, r)
  BY <1>1, <1>6
<1>8. IsFold(p, g, base, s)
  BY <1>6, <1>7 DEF IsFold, D
<1> QED BY <1>8

\* What holds of the base, and is kept by the operation with every element of the
\* sequence, holds of the fold.
LEMMA FoldKeeps ==
    ASSUME NEW p, NEW base, NEW s, NEW n \in Nat, DOMAIN s = 1..n, FoldKept(base),
           \A x : \A i \in 1..n : FoldKept(x) => FoldKept(FoldOp(p, x, s[i]))
    PROVE  FoldKept(FoldOf(p, base, s)[DOMAIN s])
<1> DEFINE g == FoldOf(p, base, s)
           Q == {r \in SUBSET (1..n) : FoldKept(g[r])}
<1>1. g = [r \in SUBSET DOMAIN s |-> FoldTurn(p, g, base, s, r)]
  <2>1. IsFold(p, g, base, s)
    BY FoldExists DEF FoldOf
  <2> QED BY <2>1 DEF IsFold
<1> HIDE DEF g
<1>2. \A r \in SUBSET (1..n) : g[r] = FoldTurn(p, g, base, s, r)
  BY <1>1
<1>3. {} \in Q
  BY <1>2 DEF FoldTurn
<1>4. ASSUME NEW r \in SUBSET (1..n), r # {}, r \ {Max(r)} \in Q PROVE r \in Q
  <2>1. Max(r) \in 1..n
    BY <1>4, MaxFacts
  <2>2. g[r] = FoldOp(p, g[r \ {Max(r)}], s[Max(r)])
    BY <1>2, <1>4 DEF FoldTurn
  <2> QED BY <1>4, <2>1, <2>2
<1>5. Q = SUBSET (1..n)
  <2> HIDE DEF Q
  <2>1. Q \in SUBSET SUBSET (1..n)
    BY DEF Q
  <2> QED BY <1>3, <1>4, <2>1, FoldInduction
<1>6. FoldKept(g[1..n])
  BY <1>5
<1> QED BY <1>6 DEF g

\* The recursion that a fold solves.
LEMMA FoldTurns ==
    ASSUME NEW p, NEW base, NEW s, NEW n \in Nat, DOMAIN s = 1..n
    PROVE  \A r \in SUBSET (1..n) : FoldOf(p, base, s)[r] = FoldTurn(p, FoldOf(p, base, s), base, s, r)
<1> DEFINE g == FoldOf(p, base, s)
<1>1. g = [r \in SUBSET DOMAIN s |-> FoldTurn(p, g, base, s, r)]
  <2>1. IsFold(p, g, base, s)
    BY FoldExists DEF FoldOf
  <2> QED BY <2>1 DEF IsFold
<1> HIDE DEF g
<1>2. \A r \in SUBSET (1..n) : g[r] = FoldTurn(p, g, base, s, r)
  BY <1>1
<1> QED BY <1>2 DEF g

\* The fold of nothing.
LEMMA FoldNothing ==
    ASSUME NEW p, NEW base, NEW s, DOMAIN s = {}
    PROVE  FoldOf(p, base, s)[DOMAIN s] = base
<1>1. DOMAIN s = 1..0
  OBVIOUS
<1>2. FoldOf(p, base, s)[{}] = FoldTurn(p, FoldOf(p, base, s), base, s, {})
  BY <1>1, FoldTurns
<1> QED BY <1>2 DEF FoldTurn

\* Two folds whose operations agree on the first n elements agree on all sets of these.
LEMMA FoldsAgree ==
    ASSUME NEW p, NEW q, NEW base, NEW s, NEW t, NEW n \in Nat, NEW m \in Nat, n <= m,
           DOMAIN s = 1..n, DOMAIN t = 1..m,
           \A x : \A i \in 1..n : FoldOp(p, x, s[i]) = FoldOp(q, x, t[i])
    PROVE  \A r \in SUBSET (1..n) : FoldOf(p, base, s)[r] = FoldOf(q, base, t)[r]
<1> DEFINE g == FoldOf(p, base, s)
           h == FoldOf(q, base, t)
           Q == {r \in SUBSET (1..n) : g[r] = h[r]}
<1>1. \A r \in SUBSET (1..n) : g[r] = FoldTurn(p, g, base, s, r)
  BY FoldTurns
<1>2. \A r \in SUBSET (1..n) : h[r] = FoldTurn(q, h, base, t, r)
  <2>1. \A r \in SUBSET (1..m) : h[r] = FoldTurn(q, h, base, t, r)
    BY FoldTurns
  <2>2. \A r \in SUBSET (1..n) : r \in SUBSET (1..m)
    OBVIOUS
  <2> QED BY <2>1, <2>2
<1> HIDE DEF g, h
<1>3. {} \in Q
  BY <1>1, <1>2 DEF FoldTurn
<1>4. ASSUME NEW r \in SUBSET (1..n), r # {}, r \ {Max(r)} \in Q PROVE r \in Q
  <2>1. Max(r) \in 1..n
    BY <1>4, MaxFacts
  <2>2. g[r] = FoldOp(p, g[r \ {Max(r)}], s[Max(r)])
    BY <1>1, <1>4 DEF FoldTurn
  <2>3. h[r] = FoldOp(q, h[r \ {Max(r)}], t[Max(r)])
    BY <1>2, <1>4 DEF FoldTurn
  <2>4. g[r \ {Max(r)}] = h[r \ {Max(r)}]
    BY <1>4
  <2> QED BY <2>1, <2>2, <2>3, <2>4
<1>5. Q = SUBSET (1..n)
  <2> HIDE DEF Q
  <2>1. Q \in SUBSET SUBSET (1..n)
    BY DEF Q
  <2> QED BY <1>3, <1>4, <2>1, FoldInduction
<1>6. \A r \in SUBSET (1..n) : g[r] = h[r]
  BY <1>5
<1> QED BY <1>6 DEF g, h

\* Operations that agree on the elements fold to the same.
LEMMA FoldSame ==
    ASSUME NEW p, NEW q, NEW base, NEW s, NEW t, NEW n \in Nat, DOMAIN s = 1..n, DOMAIN t = 1..n,
           \A x : \A i \in 1..n : FoldOp(p, x, s[i]) = FoldOp(q, x, t[i])
    PROVE  FoldOf(p, base, s)[DOMAIN s] = FoldOf(q, base, t)[DOMAIN t]
BY FoldsAgree

\* One element more is one operation more.
LEMMA FoldMore ==
    ASSUME NEW p, NEW base, NEW s, NEW t, NEW n \in Nat, DOMAIN s = 1..n, DOMAIN t = 1..(n + 1),
           \A i \in 1..n : t[i] = s[i]
    PROVE  FoldOf(p, base, t)[DOMAIN t] = FoldOp(p, FoldOf(p, base, s)[DOMAIN s], t[n + 1])
<1> DEFINE g == FoldOf(p, base, s)
           h == FoldOf(p, base, t)
           D == 1..(n + 1)
<1>1. \A r \in SUBSET D : h[r] = FoldTurn(p, h, base, t, r)
  BY FoldTurns
<1>2. g[1..n] = h[1..n]
  BY FoldsAgree
<1>3. Max(D) = n + 1 /\ D \ {Max(D)} = 1..n /\ D # {}
  <2>1. n + 1 \in D /\ \A y \in D : y <= n + 1 /\ y \in Nat
    OBVIOUS
  <2>2. Max(D) \in D /\ \A y \in D : y <= Max(D)
    BY <2>1, MaxFacts
  <2>3. Max(D) = n + 1
    <3> HIDE DEF D
    <3>1. Max(D) <= n + 1 /\ n + 1 <= Max(D) /\ Max(D) \in Nat
      BY <2>1, <2>2
    <3> QED BY <3>1
  <2>4. D \ {n + 1} = 1..n
    OBVIOUS
  <2>5. D # {}
    BY <2>1
  <2> QED
    <3> HIDE DEF D
    <3> QED BY <2>3, <2>4, <2>5
<1> HIDE DEF g, h
<1>4. h[D] = FoldOp(p, h[D \ {Max(D)}], t[Max(D)])
  BY <1>1, <1>3 DEF FoldTurn
<1>5. h[D] = FoldOp(p, g[1..n], t[n + 1])
  BY <1>2, <1>3, <1>4
<1> QED BY <1>5 DEF g, h

\* In other words:
LEMMA FoldAppended ==
    ASSUME NEW p, NEW base, NEW s, NEW x, IsSeq(s)
    PROVE  FoldOf(p, base, Append(s, x))[DOMAIN Append(s, x)]
             = FoldOp(p, FoldOf(p, base, s)[DOMAIN s], x)
<1> DEFINE S == ToSet(s) \cup {x}
           t == Append(s, x)
<1>1. s \in Seq(S) /\ x \in S
  BY SeqMonotonic DEF IsSeq
<1> HIDE DEF S
<1>2. /\ t \in Seq(S) /\ Len(t) = Len(s) + 1 /\ t[Len(s) + 1] = x /\ Len(s) \in Nat
      /\ \A i \in 1..Len(s) : t[i] = s[i]
  BY <1>1, AppendProperties, LenProperties
<1>3. DOMAIN s = 1..Len(s) /\ DOMAIN t = 1..(Len(s) + 1)
  BY <1>1, <1>2, LenProperties
<1>4. FoldOf(p, base, t)[DOMAIN t] = FoldOp(p, FoldOf(p, base, s)[DOMAIN s], t[Len(s) + 1])
  <2> HIDE DEF t
  <2> QED BY <1>2, <1>3, FoldMore
<1> QED BY <1>2, <1>4
=============================================================================
