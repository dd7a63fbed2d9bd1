--------------------------- MODULE MC_StateStore ---------------------------
(* Instances of StateStore for TLC. *)
EXTENDS StateStore, TLC

CONSTANTS t1, t2, c1, c2, n1, n2, k1

\* Threads, connections and filters are interchangeable.
Symmetry == Permutations(Threads) \cup Permutations(Conns) \cup Permutations(Filters)
=============================================================================
