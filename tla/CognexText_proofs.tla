-------------------------- MODULE CognexText_proofs --------------------------
(* What the proofs need to know of numbers, of logs, and of functions that  *)
(* are defined by recursion: replay, compaction and the indexing of a text; *)
(* and proofs about the texts of CognexText: what apply_record_() makes of  *)
(* the records that put() and del() write.                                  *)
EXTENDS CognexText, Functions, SequenceTheorems, FiniteSetTheorems,
        WellFoundedInduction, TLAPS

(* A non-empty set of natural numbers has a least element. *)
LEMMA NatMin ==
  ASSUME NEW S \in SUBSET Nat, S # {}
  PROVE  \E i \in S : \A j \in S : i <= j
<1>1. PICK i \in S : \A j \in S : <<j, i>> \notin OpToRel(<, Nat)
  BY NatLessThanWellFounded, WFMin
<1>2. ASSUME NEW j \in S
      PROVE  i <= j
  <2>1. i \in Nat /\ j \in Nat
    BY <1>1
  <2>2. ~(j < i)
    BY <1>1, <2>1 DEF OpToRel
  <2> QED
    BY <2>1, <2>2
<1> QED
  BY <1>1, <1>2

(* A non-empty set of numbers up to n has a greatest element. *)
LEMMA NatMax ==
  ASSUME NEW n \in Nat, NEW S \in SUBSET (0 .. n), S # {}
  PROVE  \E i \in S : \A j \in S : j <= i
<1> DEFINE T == {n - i : i \in S}
<1>1. T \in SUBSET Nat /\ T # {}
  <2>1. \A i \in S : n - i \in Nat
    OBVIOUS
  <2> QED
    BY <2>1
<1>2. PICK t \in T : \A u \in T : t <= u
  BY <1>1, NatMin
<1>3. PICK i \in S : t = n - i
  BY <1>2
<1>4. \A j \in S : n - i <= n - j
  BY <1>2, <1>3
<1> QED
  BY <1>3, <1>4

(* A record is put behind a log. *)
LEMMA AppendLog ==
  ASSUME NEW R, NEW log \in Seq(R), NEW r \in R
  PROVE  /\ Append(log, r) \in Seq(R)
         /\ Len(Append(log, r)) = Len(log) + 1
         /\ \A i \in 1 .. Len(log) : Append(log, r)[i] = log[i]
         /\ Append(log, r)[Len(log) + 1] = r
BY AppendProperties

(* What holds of an element when it holds of all that rank below it. *)
LEMMA RankInduction ==
  ASSUME NEW D, NEW N \in Nat, NEW rank \in [D -> 0 .. N], NEW T,
         \A d \in D : (\A c \in D : rank[c] < rank[d] => c \in T) => d \in T
  PROVE  D \subseteq T
<1> SUFFICES ASSUME ~(D \subseteq T)
             PROVE  FALSE
  OBVIOUS
<1> DEFINE R == {rank[d] : d \in D \ T}
<1>1. R # {} /\ R \in SUBSET Nat
  OBVIOUS
<1>2. PICK r \in R : \A q \in R : r <= q
  <2> HIDE DEF R
  <2> QED
    BY <1>1, NatMin
<1>3. PICK d \in D \ T : r = rank[d]
  BY <1>2
<1>4. ASSUME NEW c \in D, rank[c] < rank[d]
      PROVE  c \in T
  <2>1. ASSUME c \notin T
        PROVE  FALSE
    <3>1. rank[c] \in R
      BY <2>1
    <3>2. rank[d] <= rank[c]
      BY <1>2, <1>3, <3>1
    <3>3. rank[c] \in Nat /\ rank[d] \in Nat
      OBVIOUS
    <3> HIDE DEF R
    <3> QED
      BY <1>4, <3>2, <3>3
  <2> QED
    BY <2>1
<1> QED
  BY <1>3, <1>4

(* The rank below which the elements of D that stop nothing depend on others. *)
Recursive(D, S, N, rank, Stop, base, before, step) ==
  /\ N \in Nat /\ rank \in [D -> 0 .. N]
  /\ base \in [D -> S] /\ before \in [D -> D] /\ step \in [D -> [S -> S]]
  /\ \A d \in D : d \notin Stop => rank[before[d]] < rank[d]

(***************************************************************************)
(* A recursive function exists if each of its values depends on the value  *)
(* at one element of lower rank, or on none.                               *)
(***************************************************************************)
LEMMA Recursion ==
  ASSUME NEW D, NEW S, NEW N, NEW rank, NEW Stop, NEW base, NEW before, NEW step,
         Recursive(D, S, N, rank, Stop, base, before, step)
  PROVE  \E f \in [D -> S] :
           \A d \in D : f[d] = IF d \in Stop THEN base[d] ELSE step[d][f[before[d]]]
<1> DEFINE Below(n) == {d \in D : rank[d] < n}
           Def(f, d) == IF d \in Stop THEN base[d] ELSE step[d][f[before[d]]]
           Has(n) == \E f \in [Below(n) -> S] : \A d \in Below(n) : f[d] = Def(f, d)
           ranks == [n \in 0 .. N + 1 |-> n]
           T == {n \in 0 .. N + 1 : Has(n)}
<1>0. /\ N \in Nat /\ rank \in [D -> 0 .. N]
      /\ base \in [D -> S] /\ before \in [D -> D] /\ step \in [D -> [S -> S]]
      /\ \A d \in D : d \notin Stop => rank[before[d]] < rank[d]
  BY DEF Recursive
<1> USE <1>0
<1>1. Has(0)
  <2>1. Below(0) = {}
    OBVIOUS
  <2>2. [d \in Below(0) |-> base[d]] \in [Below(0) -> S]
    BY <2>1
  <2> QED
    BY <2>1, <2>2
<1>2. ASSUME NEW n \in 0 .. N, Has(n)
      PROVE  Has(n + 1)
  <2>1. PICK f \in [Below(n) -> S] : \A d \in Below(n) : f[d] = Def(f, d)
    BY <1>2
  <2> DEFINE g == [d \in Below(n + 1) |-> Def(f, d)]
  <2>2. \A d \in Below(n + 1) : d \notin Stop => before[d] \in Below(n)
    OBVIOUS
  <2>3. Below(n) \subseteq Below(n + 1)
    OBVIOUS
  <2> HIDE DEF Below
  <2>4. \A d \in Below(n) : g[d] = f[d]
    BY <2>1, <2>3
  <2>5. Below(n + 1) \subseteq D
    BY DEF Below
  <2>6. g \in [Below(n + 1) -> S]
    BY <2>2, <2>5
  <2>7. \A d \in Below(n + 1) : g[d] = Def(g, d)
    BY <2>2, <2>4
  <2> HIDE DEF g
  <2> QED
    BY <2>6, <2>7
<1> HIDE DEF Has
<1>3. 0 .. N + 1 \subseteq T
  <2>1. ranks \in [0 .. N + 1 -> 0 .. N + 1]
    OBVIOUS
  <2>2. ASSUME NEW n \in 0 .. N + 1, \A c \in 0 .. N + 1 : ranks[c] < ranks[n] => c \in T
        PROVE  n \in T
    <3>1. CASE n = 0
      BY <1>1, <3>1
    <3>2. CASE n # 0
      <4>1. n - 1 \in 0 .. N /\ n - 1 \in 0 .. N + 1 /\ n - 1 < n /\ (n - 1) + 1 = n
        BY <3>2
      <4>2. Has(n - 1)
        BY <2>2, <4>1
      <4> QED
        BY <1>2, <4>1, <4>2
    <3> QED
      BY <3>1, <3>2
  <2>3. N + 1 \in Nat
    OBVIOUS
  <2> DEFINE m == N + 1
             range == 0 .. N + 1
  <2>4. /\ m \in Nat /\ ranks \in [range -> 0 .. m]
        /\ \A n \in range : (\A c \in range : ranks[c] < ranks[n] => c \in T) => n \in T
    <3> HIDE DEF ranks, T
    <3> QED
      BY <2>1, <2>2, <2>3
  <2> HIDE DEF ranks, T, m, range
  <2>5. range \subseteq T
    BY <2>4, RankInduction
  <2> QED
    BY <2>5 DEF range
<1>4. Has(N + 1)
  <2>1. N + 1 \in 0 .. N + 1
    OBVIOUS
  <2> QED
    BY <1>3, <2>1
<1>5. Below(N + 1) = D
  OBVIOUS
<1> HIDE DEF Below
<1> QED
  BY <1>4, <1>5 DEF Has

(* The same for the numbers up to n. *)
LEMMA CountedInduction ==
  ASSUME NEW n \in Nat, NEW T, 0 \in T, \A i \in 1 .. n : i - 1 \in T => i \in T
  PROVE  0 .. n \subseteq T
<1> DEFINE D == 0 .. n
           rank == [i \in D |-> i]
<1>1. rank \in [D -> 0 .. n]
  OBVIOUS
<1>2. ASSUME NEW i \in D, \A j \in D : rank[j] < rank[i] => j \in T
      PROVE  i \in T
  <2>1. CASE i = 0
    BY <2>1
  <2>2. CASE i # 0
    <3>1. i \in 1 .. n /\ i - 1 \in D /\ rank[i - 1] < rank[i]
      BY <2>2
    <3> QED
      BY <1>2, <3>1
  <2> QED
    BY <2>1, <2>2
<1> HIDE DEF rank, D
<1>3. D \subseteq T
  BY <1>1, <1>2, RankInduction
<1> QED
  BY <1>3 DEF D

Counted(n, S, first, step) ==
  n \in Nat /\ first \in S /\ step \in [1 .. n -> [S -> S]]

LEMMA CountedRecursion ==
  ASSUME NEW n, NEW S, NEW first, NEW step, Counted(n, S, first, step)
  PROVE  \E f \in [0 .. n -> S] :
           \A i \in 0 .. n : f[i] = IF i = 0 THEN first ELSE step[i][f[i - 1]]
<1> DEFINE D == 0 .. n
           rank == [i \in D |-> i]
           before == [i \in D |-> IF i = 0 THEN 0 ELSE i - 1]
           base == [i \in D |-> first]
           steps == [i \in D |-> [s \in S |-> IF i = 0 THEN s ELSE step[i][s]]]
           Stop == {0}
<1> USE DEF Counted
<1>1. /\ rank \in [D -> 0 .. n] /\ before \in [D -> D] /\ base \in [D -> S]
      /\ \A i \in D : i \notin Stop => rank[before[i]] < rank[i]
  OBVIOUS
<1>2. steps \in [D -> [S -> S]]
  <2>1. \A i \in D : i = 0 \/ i \in 1 .. n
    OBVIOUS
  <2> HIDE DEF D
  <2> QED
    BY <2>1
<1>3. Recursive(D, S, n, rank, Stop, base, before, steps)
  <2> HIDE DEF D, rank, before, base, steps, Stop
  <2> QED
    BY <1>1, <1>2 DEF Recursive
<1>4. PICK f \in [D -> S] :
        \A i \in D : f[i] = IF i \in Stop THEN base[i] ELSE steps[i][f[before[i]]]
  <2> HIDE DEF D, rank, before, base, steps, Stop
  <2> QED
    BY <1>3, Recursion
<1>5. ASSUME NEW i \in D
      PROVE  f[i] = IF i = 0 THEN first ELSE step[i][f[i - 1]]
  <2>1. CASE i = 0
    BY <1>4, <2>1
  <2>2. CASE i # 0
    <3>1. before[i] = i - 1 /\ i - 1 \in D
      BY <2>2
    <3>2. f[i] = steps[i][f[i - 1]] /\ f[i - 1] \in S
      <4> HIDE DEF D, before, base, steps
      <4> QED
        BY <1>4, <2>2, <3>1
    <3> HIDE DEF D
    <3> QED
      BY <2>2, <3>2
  <2> QED
    BY <2>1, <2>2
<1> QED
  BY <1>4, <1>5

(* g[s] is the sum of f over s, for each part s of S. *)
AddsUp(g, f, S) ==
  /\ g \in [SUBSET S -> Nat]
  /\ SumFunction(f) = g[S]
  /\ g[{}] = 0
  /\ \A s \in SUBSET S : s # {} => \E x \in s : g[s] = f[x] + g[s \ {x}]

(* A sum over a finite set is added up one element at a time. *)
LEMMA SumIs ==
  ASSUME NEW S, IsFiniteSet(S), NEW f \in [S -> Nat]
  PROVE  \E g : AddsUp(g, f, S)
<1> DEFINE D == SUBSET S
           Any(s) == CHOOSE x \in s : TRUE
           Def(g, s) == IF s = {} THEN 0 ELSE f[Any(s)] + g[s \ {Any(s)}]
           sum == CHOOSE g : g = [s \in D |-> Def(g, s)]
           N == Cardinality(S)
           rank == [s \in D |-> Cardinality(s)]
           Stop == {{}}
           base == [s \in D |-> 0]
           before == [s \in D |-> IF s = {} THEN s ELSE s \ {Any(s)}]
           step == [s \in D |-> [n \in Nat |-> IF s = {} THEN n ELSE f[Any(s)] + n]]
<1>1. SumFunction(f) = sum[S]
  <2>1. DOMAIN f = S
    OBVIOUS
  <2> QED
    BY <2>1 DEF SumFunction, SumFunctionOnSet, FoldFunctionOnSet, MapThenFoldSet
<1>2. \A s \in D : s # {} => Any(s) \in s /\ Any(s) \in S
  OBVIOUS
<1> HIDE DEF Any
<1>3. N \in Nat /\ rank \in [D -> 0 .. N] /\ \A s \in D : s \notin Stop => rank[before[s]] < rank[s]
  <2>1. N \in Nat
    BY FS_CardinalityType
  <2>2. ASSUME NEW s \in D
        PROVE  /\ IsFiniteSet(s) /\ Cardinality(s) \in Nat /\ Cardinality(s) <= N
               /\ Cardinality(s) = 0 <=> s = {}
    BY FS_Subset, FS_CardinalityType, FS_EmptySet
  <2>3. rank \in [D -> 0 .. N]
    BY <2>1, <2>2
  <2>4. ASSUME NEW s \in D, s # {}
        PROVE  rank[before[s]] < rank[s]
    <3>1. before[s] = s \ {Any(s)} /\ before[s] \in D
      BY <2>4
    <3>2. Cardinality(s \ {Any(s)}) = Cardinality(s) - 1
      BY <1>2, <2>2, <2>4, FS_RemoveElement
    <3>3. rank[before[s]] = Cardinality(s) - 1 /\ rank[s] = Cardinality(s)
      BY <3>1, <3>2
    <3> QED
      BY <2>2, <3>3
  <2> QED
    BY <2>1, <2>3, <2>4
<1>4. Recursive(D, Nat, N, rank, Stop, base, before, step)
  <2>1. base \in [D -> Nat] /\ before \in [D -> D]
    OBVIOUS
  <2>2. step \in [D -> [Nat -> Nat]]
    BY <1>2
  <2> HIDE DEF D, N, rank, Stop, base, before, step
  <2> QED
    BY <1>3, <2>1, <2>2 DEF Recursive
<1>5. PICK g \in [D -> Nat] : \A s \in D : g[s] = IF s \in Stop THEN base[s] ELSE step[s][g[before[s]]]
  <2> HIDE DEF D, N, rank, Stop, base, before, step
  <2> QED
    BY <1>4, Recursion
<1>6. ASSUME NEW s \in D
      PROVE  g[s] = Def(g, s)
  <2>1. CASE s = {}
    BY <1>5, <2>1
  <2>2. CASE s # {}
    <3>1. before[s] = s \ {Any(s)} /\ before[s] \in D /\ s \notin Stop
      BY <2>2
    <3>2. g[before[s]] \in Nat
      BY <3>1
    <3>3. g[s] = step[s][g[before[s]]]
      BY <1>5, <3>1
    <3>4. step[s][g[before[s]]] = f[Any(s)] + g[before[s]]
      BY <2>2, <3>2
    <3> QED
      BY <2>2, <3>1, <3>3, <3>4
  <2> QED
    BY <2>1, <2>2
<1> HIDE DEF Def, D
<1>7. g = [s \in D |-> Def(g, s)]
  BY <1>6
<1>8. sum = [s \in D |-> Def(sum, s)]
  BY <1>7
<1> HIDE DEF sum
<1>9. \A s \in D : sum[s] = Def(sum, s)
  BY <1>8
<1> DEFINE T == {s \in D : sum[s] \in Nat}
<1>10. ASSUME NEW s \in D, \A c \in D : rank[c] < rank[s] => c \in T
       PROVE  s \in T
  <2>1. CASE s = {}
    BY <1>9, <2>1 DEF Def
  <2>2. CASE s # {}
    <3>1. s \notin Stop /\ before[s] = s \ {Any(s)} /\ before[s] \in D
      BY <2>2 DEF D
    <3>2. sum[before[s]] \in Nat
      <4> HIDE DEF rank, before, Stop
      <4> QED
        BY <1>3, <1>10, <3>1
    <3>3. f[Any(s)] \in Nat
      BY <1>2, <2>2
    <3>4. sum[s] = f[Any(s)] + sum[before[s]]
      BY <1>9, <2>2, <3>1 DEF Def
    <3> QED
      BY <3>2, <3>3, <3>4
  <2> QED
    BY <2>1, <2>2
<1>11. D \subseteq T
  <2>1. N \in Nat /\ rank \in [D -> 0 .. N]
    BY <1>3
  <2> HIDE DEF rank, N, T, Stop, base, before, step
  <2> QED
    BY <1>10, <2>1, RankInduction
<1>12. sum \in [D -> Nat]
  BY <1>8, <1>11
<1>13. sum[{}] = 0
  BY <1>9 DEF Def, D
<1>14. ASSUME NEW s \in D, s # {}
       PROVE  \E x \in s : sum[s] = f[x] + sum[s \ {x}]
  BY <1>2, <1>9, <1>14 DEF Def
<1>15. AddsUp(sum, f, S)
  BY <1>1, <1>12, <1>13, <1>14 DEF D, AddsUp
<1> QED
  BY <1>15

(* The elements that belong to some x in s. *)
Owned(P, s) == UNION {P[x] : x \in s}

(* Sets of the sizes that f says, one for each x in S, with nothing in common. *)
Apart(P, S, f) ==
  /\ \A x \in S : IsFiniteSet(P[x]) /\ Cardinality(P[x]) = f[x]
  /\ \A x, y \in S : x # y => P[x] \cap P[y] = {}

(* The sum of the sizes of sets that have nothing in common is the size of their union. *)
LEMMA SumOfSizes ==
  ASSUME NEW S, IsFiniteSet(S), NEW f \in [S -> Nat], NEW P, Apart(P, S, f)
  PROVE  /\ IsFiniteSet(Owned(P, S))
         /\ SumFunction(f) = Cardinality(Owned(P, S))
<1>1. PICK g : AddsUp(g, f, S)
  BY SumIs
<1> USE <1>1 DEF AddsUp
<1> DEFINE D == SUBSET S
           N == Cardinality(S)
           rank == [s \in D |-> Cardinality(s)]
           T == {s \in D : IsFiniteSet(Owned(P, s)) /\ g[s] = Cardinality(Owned(P, s))}
<1>2. ASSUME NEW s \in D
      PROVE  IsFiniteSet(s) /\ Cardinality(s) \in 0 .. N
  BY FS_Subset, FS_CardinalityType
<1>3. N \in Nat /\ rank \in [D -> 0 .. N]
  BY <1>2, FS_CardinalityType
<1>4. ASSUME NEW s \in D, \A c \in D : rank[c] < rank[s] => c \in T
      PROVE  s \in T
  <2>1. CASE s = {}
    <3>1. Owned(P, s) = {}
      BY <2>1 DEF Owned
    <3> QED
      BY <1>1, <2>1, <3>1, FS_EmptySet
  <2>2. CASE s # {}
    <3>1. PICK x \in s : g[s] = f[x] + g[s \ {x}]
      BY <1>1, <2>2
    <3> DEFINE c == s \ {x}
    <3>2. c \in D /\ rank[c] < rank[s]
      <4>1. Cardinality(c) = Cardinality(s) - 1
        BY <1>2, FS_RemoveElement
      <4> QED
        BY <1>2, <4>1
    <3>3. IsFiniteSet(Owned(P, c)) /\ g[c] = Cardinality(Owned(P, c))
      BY <1>4, <3>2
    <3>4. Owned(P, s) = P[x] \cup Owned(P, c) /\ P[x] \cap Owned(P, c) = {}
      BY DEF Owned, Apart
    <3>5. IsFiniteSet(P[x]) /\ Cardinality(P[x]) = f[x] /\ f[x] \in Nat
      BY DEF Apart
    <3> HIDE DEF c
    <3>6. /\ IsFiniteSet(Owned(P, s))
          /\ Cardinality(Owned(P, s)) = f[x] + Cardinality(Owned(P, c))
      <4>1. /\ IsFiniteSet(P[x] \cup Owned(P, c))
            /\ Cardinality(P[x] \cup Owned(P, c)) =
                 Cardinality(P[x]) + Cardinality(Owned(P, c))
                   - Cardinality(P[x] \cap Owned(P, c))
        BY <3>3, <3>5, FS_Union
      <4>2. Cardinality(P[x] \cap Owned(P, c)) = 0 /\ Cardinality(Owned(P, c)) \in Nat
        BY <3>3, <3>4, FS_EmptySet, FS_CardinalityType
      <4> QED
        BY <3>4, <3>5, <4>1, <4>2
    <3> QED
      BY <3>1, <3>3, <3>6 DEF c
  <2> QED
    BY <2>1, <2>2
<1>5. D \subseteq T
  <2> HIDE DEF D, T, rank, N
  <2> QED
    BY <1>3, <1>4, RankInduction
<1> QED
  BY <1>1, <1>5

(* A sum of positive numbers over a set that is not empty is positive. *)
LEMMA SumPositive ==
  ASSUME NEW S, IsFiniteSet(S), S # {}, NEW f \in [S -> Nat \ {0}]
  PROVE  SumFunction(f) \in Nat \ {0}
<1>1. f \in [S -> Nat]
  OBVIOUS
<1>2. PICK g : AddsUp(g, f, S)
  BY <1>1, SumIs
<1>3. PICK x \in S : g[S] = f[x] + g[S \ {x}]
  BY <1>2 DEF AddsUp
<1>4. f[x] \in Nat /\ f[x] # 0 /\ g[S \ {x}] \in Nat /\ SumFunction(f) = g[S]
  BY <1>2 DEF AddsUp
<1> QED
  BY <1>3, <1>4

-----------------------------------------------------------------------------
(* Texts *)

(* find() returns npos, or the first place that holds the symbol. *)
LEMMA FirstIn ==
  ASSUME NEW S, NEW s \in Seq(S), NEW c, NEW from \in Nat \ {0}
  PROVE  LET p == Find(s, c, from)
         IN  \/ p = NPos /\ \A i \in from .. Len(s) : s[i] # c
             \/ /\ p \in from .. Len(s) /\ s[p] = c
                /\ \A i \in from .. (p - 1) : s[i] # c
<1> DEFINE hits == {i \in from .. Len(s) : s[i] = c}
<1>0. Len(s) \in Nat
  OBVIOUS
<1>1. CASE hits = {}
  BY <1>1 DEF Find
<1>2. CASE hits # {}
  <2>1. hits \in SUBSET Nat
    BY <1>0
  <2>2. \E i \in hits : \A j \in hits : i <= j
    BY <1>2, <2>1, NatMin
  <2>3. Find(s, c, from) \in hits /\ \A j \in hits : Find(s, c, from) <= j
    BY <1>2, <2>2 DEF Find
  <2> HIDE DEF hits
  <2>4. Find(s, c, from) \in from .. Len(s) /\ s[Find(s, c, from)] = c
    BY <2>3 DEF hits
  <2>5. \A i \in from .. (Find(s, c, from) - 1) : s[i] # c
    <3> SUFFICES ASSUME NEW i \in from .. (Find(s, c, from) - 1), s[i] = c
                 PROVE  FALSE
      OBVIOUS
    <3>1. i \in hits
      BY <1>0, <2>4 DEF hits
    <3> QED
      BY <1>0, <2>3, <2>4, <3>1
  <2> QED
    BY <2>4, <2>5
<1> QED
  BY <1>1, <1>2

LEMMA FindFirst ==
  ASSUME NEW s \in Text, NEW c, NEW from \in Nat \ {0}
  PROVE  LET p == Find(s, c, from)
         IN  \/ p = NPos /\ \A i \in from .. Len(s) : s[i] # c
             \/ /\ p \in from .. Len(s) /\ s[p] = c
                /\ \A i \in from .. (p - 1) : s[i] # c
BY FirstIn DEF Text

(* p is the first place from `from` on where s holds c. *)
IsFirst(s, c, from, p) ==
  /\ p \in from .. Len(s)
  /\ s[p] = c
  /\ \A i \in from .. (p - 1) : s[i] # c

LEMMA PlaceIn ==
  ASSUME NEW S, NEW s \in Seq(S), NEW c, NEW from \in Nat \ {0}, NEW p, IsFirst(s, c, from, p)
  PROVE  Find(s, c, from) = p
<1> DEFINE q == Find(s, c, from)
<1>1. \/ q = NPos /\ \A i \in from .. Len(s) : s[i] # c
      \/ /\ q \in from .. Len(s) /\ s[q] = c
         /\ \A i \in from .. (q - 1) : s[i] # c
  BY FirstIn
<1> HIDE DEF q
<1>2. Len(s) \in Nat
  OBVIOUS
<1>3. p \in from .. Len(s) /\ s[p] = c /\ \A i \in from .. (p - 1) : s[i] # c
  BY DEF IsFirst
<1>4. q \in from .. Len(s) /\ s[q] = c /\ \A i \in from .. (q - 1) : s[i] # c
  BY <1>1, <1>3
<1>5. ~(q < p) /\ ~(p < q)
  BY <1>2, <1>3, <1>4
<1>6. q = p
  BY <1>2, <1>3, <1>4, <1>5
<1> QED
  BY <1>6 DEF q

LEMMA FirstPlace ==
  ASSUME NEW s \in Text, NEW c, NEW from \in Nat \ {0}, NEW p, IsFirst(s, c, from, p)
  PROVE  Find(s, c, from) = p
BY PlaceIn DEF Text

LEMMA Symbols == "PUT" \in Symbol /\ "DEL" \in Symbol /\ SP \in Symbol
BY SymbolAssumption

LEMMA SubText ==
  ASSUME NEW s \in Text, NEW m \in Nat \ {0}, NEW n \in 0 .. Len(s)
  PROVE  SubSeq(s, m, n) \in Text
<1>1. \A i \in m .. n : s[i] \in Symbol
  BY DEF Text
<1> QED
  BY <1>1, SubSeqProperties, LenProperties DEF Text

(* Whatever the log holds, replay finds texts in it. *)
LEMMA ParsedRecordType ==
  ASSUME NEW record \in Text
  PROVE  ParsedRecord(record) \in
           [type : {"PUT", "DEL", "NONE"}, key : Text, value : Text]
<1> DEFINE p1 == Find(record, SP, 1)
           p2 == Find(record, SP, p1 + 1)
<1>0. Len(record) \in Nat /\ <<>> \in Text
  BY DEF Text
<1>1. p1 = NPos \/ p1 \in 1 .. Len(record)
  BY FindFirst
<1>2. p1 # NPos => p2 = NPos \/ p2 \in (p1 + 1) .. Len(record)
  BY <1>0, <1>1, FindFirst
<1> HIDE DEF p1, p2
<1>3. p1 # NPos => SubSeq(record, p1 + 1, Len(record)) \in Text
  BY <1>0, <1>1, SubText DEF NPos
<1>4. p1 # NPos /\ p2 # NPos =>
        /\ SubSeq(record, p1 + 1, p2 - 1) \in Text
        /\ SubSeq(record, p2 + 1, Len(record)) \in Text
  BY <1>0, <1>1, <1>2, SubText DEF NPos
<1> QED
  BY <1>0, <1>3, <1>4 DEF ParsedRecord, NoRecord, p1, p2

-----------------------------------------------------------------------------

LEMMA Concat ==
  ASSUME NEW s \in Seq(Symbol), NEW t \in Seq(Symbol)
  PROVE  /\ s \o t \in Seq(Symbol)
         /\ Len(s \o t) = Len(s) + Len(t)
         /\ \A i \in 1 .. Len(s) : (s \o t)[i] = s[i]
         /\ \A i \in 1 .. Len(t) : (s \o t)[i + Len(s)] = t[i]
<1>1. \A i \in 1 .. Len(s) : (s \o t)[i] = s[i]
  OBVIOUS
<1>2. \A i \in 1 .. Len(t) : (s \o t)[i + Len(s)] = t[i]
  OBVIOUS
<1> QED
  BY <1>1, <1>2

(* r is s, of length m, followed by t, of length n. *)
Joins(r, s, m, t, n) ==
  /\ r \in Text
  /\ m + n = Len(r)
  /\ \A i \in 1 .. m : r[i] = s[i]
  /\ \A i \in 1 .. n : r[i + m] = t[i]

LEMMA ConcatJoins ==
  ASSUME NEW s \in Text, NEW t \in Text, NEW r, r = s \o t,
         NEW m, m = Len(s), NEW n, n = Len(t)
  PROVE  Joins(r, s, m, t, n)
BY Concat, Zenon DEF Text, Joins

(* From place m to place e, r is t, of length n. *)
IsPart(r, m, e, t, n) ==
  /\ n = Len(t)
  /\ e = m + n - 1
  /\ e <= Len(r)
  /\ \A i \in 1 .. n : r[m + i - 1] = t[i]

LEMMA PartIn ==
  ASSUME NEW S, NEW r \in Seq(S), NEW t \in Seq(S), NEW m \in Nat \ {0}, NEW n, NEW e,
         IsPart(r, m, e, t, n)
  PROVE  SubSeq(r, m, e) = t
<1> DEFINE s == SubSeq(r, m, e)
<1>0. /\ n = Len(t) /\ e = m + n - 1 /\ e <= Len(r)
      /\ \A i \in 1 .. n : r[m + i - 1] = t[i]
  BY DEF IsPart
<1>1. n \in Nat /\ Len(r) \in Nat /\ e \in Int
  BY <1>0
<1>2. \A i \in m .. e : r[i] \in S
  BY <1>0, <1>1
<1>3. /\ s \in Seq(S)
      /\ Len(s) = IF m <= e THEN e - m + 1 ELSE 0
      /\ \A i \in 1 .. e - m + 1 : s[i] = r[m + i - 1]
  BY <1>1, <1>2, SubSeqProperties
<1>4. Len(s) = n /\ e - m + 1 = n
  BY <1>0, <1>1, <1>3
<1> HIDE DEF s
<1>5. \A i \in 1 .. n : s[i] = t[i]
  BY <1>0, <1>3, <1>4
<1>6. Len(s) = Len(t) /\ \A i \in 1 .. Len(s) : s[i] = t[i]
  BY <1>0, <1>4, <1>5
<1> QED
  BY <1>3, <1>6, SeqEqual DEF s

LEMMA SubSeqIs ==
  ASSUME NEW r \in Text, NEW t \in Text, NEW m \in Nat \ {0}, NEW n, NEW e,
         IsPart(r, m, e, t, n)
  PROVE  SubSeq(r, m, e) = t
BY PartIn DEF Text

LEMMA Singleton ==
  ASSUME NEW a \in Symbol
  PROVE  <<a>> \in Text /\ 1 = Len(<<a>>) /\ <<a>>[1] = a
<1>1. <<a>> \in Text
  BY DEF Text
<1> QED
  BY <1>1

LEMMA Pair ==
  ASSUME NEW a \in Symbol, NEW b \in Symbol
  PROVE  <<a, b>> \in Text /\ 2 = Len(<<a, b>>) /\ <<a, b>>[1] = a /\ <<a, b>>[2] = b
<1>1. <<a, b>> \in Text
  BY DEF Text
<1> QED
  BY <1>1

-----------------------------------------------------------------------------
(* PUT records *)

(***************************************************************************)
(* Where the pieces of a PUT record r are: n is the length of the key, l   *)
(* that of the value. The proofs below reason about these places and never *)
(* about how the record was put together.                                  *)
(***************************************************************************)
PutLayout(r, key, value, n, l) ==
  /\ r \in Text
  /\ Len(r) = n + l + 3
  /\ r[1] = "PUT" /\ r[2] = SP /\ r[n + 3] = SP
  /\ \A i \in 1 .. n : r[i + 2] = key[i]
  /\ \A i \in 1 .. l : r[i + (n + 3)] = value[i]

(* What ParsedRecord looks up in such a record. *)
PutSplit(r, key, value, n, word) ==
  /\ Find(r, SP, 1) = 2
  /\ Find(r, SP, 3) = n + 3
  /\ SubSeq(r, 1, 1) = word
  /\ SubSeq(r, 3, n + 2) = key
  /\ SubSeq(r, n + 4, Len(r)) = value

LEMMA PutSpaces ==
  ASSUME NEW key, NEW value, NEW n \in Nat, n = Len(key), NEW l \in Nat, 
         Plain(key), NEW r, PutLayout(r, key, value, n, l)
  PROVE  IsFirst(r, SP, 1, 2) /\ IsFirst(r, SP, 3, n + 3)
<1>1. IsFirst(r, SP, 1, 2)
  <2>1. 2 \in 1 .. Len(r) /\ r[2] = SP /\ r[1] = "PUT"
    BY DEF PutLayout
  <2>2. ASSUME NEW i \in 1 .. (2 - 1)
        PROVE  r[i] # SP
    <3>1. i = 1
      OBVIOUS
    <3> QED
      BY <2>1, <3>1 DEF SP
  <2> QED
    BY <2>1, <2>2 DEF IsFirst
<1>2. IsFirst(r, SP, 3, n + 3)
  <2>1. ASSUME NEW i \in 3 .. ((n + 3) - 1)
        PROVE  r[i] # SP
    <3>1. i - 2 \in 1 .. n /\ (i - 2) + 2 = i
      OBVIOUS
    <3>2. r[i] = key[i - 2]
      BY <3>1 DEF PutLayout
    <3>3. key[i - 2] # SP
      BY <3>1 DEF Plain
    <3> QED
      BY <3>2, <3>3
  <2>2. n + 3 \in 3 .. Len(r) /\ r[n + 3] = SP
    BY DEF PutLayout
  <2> QED
    BY <2>1, <2>2 DEF IsFirst
<1> QED
  BY <1>1, <1>2

LEMMA PutParts ==
  ASSUME NEW key, NEW value, NEW n \in Nat, n = Len(key), NEW l \in Nat, l = Len(value),
         NEW r, PutLayout(r, key, value, n, l),
         NEW word, word[1] = "PUT", 1 = Len(word)
  PROVE  /\ IsPart(r, 1, 1, word, 1)
         /\ IsPart(r, 3, n + 2, key, n)
         /\ IsPart(r, n + 4, Len(r), value, l)
<1>1. IsPart(r, 1, 1, word, 1)
  BY DEF IsPart, PutLayout
<1>2. IsPart(r, 3, n + 2, key, n)
  <2>1. ASSUME NEW i \in 1 .. n
        PROVE  r[3 + i - 1] = key[i]
    <3>1. 3 + i - 1 = i + 2
      OBVIOUS
    <3> QED
      BY <3>1 DEF PutLayout
  <2> QED
    BY <2>1 DEF IsPart, PutLayout
<1>3. IsPart(r, n + 4, Len(r), value, l)
  <2>1. ASSUME NEW i \in 1 .. l
        PROVE  r[(n + 4) + i - 1] = value[i]
    <3>1. (n + 4) + i - 1 = i + (n + 3)
      OBVIOUS
    <3> QED
      BY <3>1 DEF PutLayout
  <2> QED
    BY <2>1 DEF IsPart, PutLayout
<1> QED
  BY <1>1, <1>2, <1>3

LEMMA PutParsed ==
  ASSUME NEW key \in Text, Plain(key), NEW value \in Text,
         NEW n \in Nat, n = Len(key), NEW l \in Nat, l = Len(value),
         NEW word \in Text, word[1] = "PUT", 1 = Len(word),
         NEW r, PutLayout(r, key, value, n, l)
  PROVE  PutSplit(r, key, value, n, word)
<1>9. r \in Text
  BY DEF PutLayout
<1>0. 1 \in Nat \ {0} /\ 3 \in Nat \ {0} /\ n + 4 \in Nat \ {0}
  OBVIOUS
<1>1. IsFirst(r, SP, 1, 2) /\ IsFirst(r, SP, 3, n + 3)
  BY PutSpaces, Zenon
<1>2. /\ IsPart(r, 1, 1, word, 1)
      /\ IsPart(r, 3, n + 2, key, n)
      /\ IsPart(r, n + 4, Len(r), value, l)
  BY PutParts, Zenon
<1>3. Find(r, SP, 1) = 2
  BY <1>9, <1>0, <1>1, FirstPlace, Zenon
<1>4. Find(r, SP, 3) = n + 3
  BY <1>9, <1>0, <1>1, FirstPlace, Zenon
<1>5. SubSeq(r, 1, 1) = word
  BY <1>9, <1>0, <1>2, SubSeqIs, Zenon
<1>6. SubSeq(r, 3, n + 2) = key
  BY <1>9, <1>0, <1>2, SubSeqIs, Zenon
<1>7. SubSeq(r, n + 4, Len(r)) = value
  <2> DEFINE m == n + 4  len == Len(r)
  <2>1. m \in Nat \ {0} /\ IsPart(r, m, len, value, l)
    BY <1>0, <1>2
  <2> HIDE DEF m, len
  <2>2. SubSeq(r, m, len) = value
    BY <1>9, <2>1, SubSeqIs, Zenon
  <2> QED
    BY <2>2 DEF m, len
<1> QED
  BY <1>3, <1>4, <1>5, <1>6, <1>7, Zenon DEF PutSplit

LEMMA PutJoined ==
  ASSUME NEW key, NEW value, NEW n \in Nat, NEW l \in Nat,
         NEW put, put[1] = "PUT", put[2] = SP, NEW sp, sp[1] = SP,
         NEW b, NEW c, NEW r,
         Joins(b, put, 2, key, n),
         Joins(c, b, 2 + n, sp, 1),
         Joins(r, c, (2 + n) + 1, value, l)
  PROVE  PutLayout(r, key, value, n, l)
BY DEF Joins, PutLayout

LEMMA PutPlaces ==
  ASSUME NEW key \in Text, NEW value \in Text,
         NEW n, n = Len(key), NEW l, l = Len(value),
         NEW put \in Text, 2 = Len(put), put[1] = "PUT", put[2] = SP,
         NEW sp \in Text, 1 = Len(sp), sp[1] = SP,
         NEW r, r = ((put \o key) \o sp) \o value
  PROVE  PutLayout(r, key, value, n, l)
<1> DEFINE b == put \o key   c == b \o sp
<1>0. r = c \o value
  BY Zenon
<1> HIDE DEF b, c
<1>1. n \in Nat /\ l \in Nat
  BY DEF Text
<1>2. Joins(b, put, 2, key, n)
  BY ConcatJoins, Zenon DEF b
<1>3. Joins(c, b, 2 + n, sp, 1)
  <2>1. b \in Text /\ 2 + n = Len(b)
    BY <1>2 DEF Joins
  <2> QED
    BY <2>1, ConcatJoins, Zenon DEF c
<1>4. Joins(r, c, (2 + n) + 1, value, l)
  <2>1. c \in Text /\ (2 + n) + 1 = Len(c)
    BY <1>3 DEF Joins
  <2> QED
    BY <2>1, <1>0, ConcatJoins, Zenon
<1> QED
  BY <1>1, <1>2, <1>3, <1>4, PutJoined, Zenon

LEMMA PutRecordLayout ==
  ASSUME NEW key \in Text, NEW value \in Text
  PROVE  PutLayout(PutRecord(key, value), key, value, Len(key), Len(value))
<1> DEFINE put == <<"PUT", SP>>   sp == <<SP>>
<1>1. put \in Text /\ 2 = Len(put) /\ put[1] = "PUT" /\ put[2] = SP
  BY Symbols, Pair, Zenon
<1>2. sp \in Text /\ 1 = Len(sp) /\ sp[1] = SP
  BY Symbols, Singleton, Zenon
<1>3. PutRecord(key, value) = ((put \o key) \o sp) \o value
  BY Zenon DEF PutRecord
<1> HIDE DEF put, sp
<1> QED
  BY <1>1, <1>2, <1>3, PutPlaces, Zenon

(* Replay makes of a PUT record the put() that wrote it, if the key has no   *)
(* space (cognex.cpp:8-29, 211-215).                                         *)
THEOREM PutRoundTrip ==
  ASSUME NEW key \in Text, NEW value \in Text, Plain(key)
  PROVE  ParsedRecord(PutRecord(key, value)) =
           [type |-> "PUT", key |-> key, value |-> value]
<1> DEFINE r == PutRecord(key, value)  n == Len(key)  l == Len(value)  word == <<"PUT">>  p == n + 3
<1>0. n \in Nat /\ l \in Nat
  BY DEF Text
<1>1. PutLayout(r, key, value, n, l)
  BY PutRecordLayout, Zenon
<1>2. word \in Text /\ word[1] = "PUT" /\ 1 = Len(word)
  BY Symbols, Singleton, Zenon
<1>7. word = <<"PUT">> /\ word # <<"DEL">>
  OBVIOUS
<1>8. n = Len(key) /\ l = Len(value)
  BY Zenon
<1> HIDE DEF r, n, l, word
<1>3. PutSplit(r, key, value, n, word)
  BY <1>0, <1>1, <1>2, <1>8, PutParsed, Zenon
<1>4. /\ 2 # NPos /\ p # NPos /\ 2 - 1 = 1 /\ 2 + 1 = 3
      /\ p - 1 = n + 2 /\ p + 1 = n + 4
  BY <1>0 DEF NPos
<1>5. /\ Find(r, SP, 1) = 2 /\ Find(r, SP, 2 + 1) = p
      /\ SubSeq(r, 1, 2 - 1) = word
      /\ SubSeq(r, 2 + 1, p - 1) = key
      /\ SubSeq(r, p + 1, Len(r)) = value
  BY <1>3, <1>4, Zenon DEF PutSplit, p
<1> HIDE DEF p
<1>6. ParsedRecord(r) = [type |-> "PUT", key |-> key, value |-> value]
  BY <1>4, <1>5, <1>7 DEF ParsedRecord
<1> QED
  BY <1>6, Zenon DEF r

-----------------------------------------------------------------------------
(* DEL records *)

(* Where the pieces of a DEL record r are: n is the length of the key. *)
DelLayout(r, key, n) ==
  /\ r \in Text
  /\ Len(r) = n + 2
  /\ r[1] = "DEL" /\ r[2] = SP
  /\ \A i \in 1 .. n : r[i + 2] = key[i]

(* What ParsedRecord looks up in such a record. *)
DelSplit(r, key, word) ==
  /\ Find(r, SP, 1) = 2
  /\ SubSeq(r, 1, 1) = word
  /\ SubSeq(r, 3, Len(r)) = key

LEMMA DelSpaces ==
  ASSUME NEW key, NEW n \in Nat, NEW r, DelLayout(r, key, n)
  PROVE  IsFirst(r, SP, 1, 2)
<1>1. 2 \in 1 .. Len(r) /\ r[2] = SP /\ r[1] = "DEL"
  BY DEF DelLayout
<1>2. ASSUME NEW i \in 1 .. (2 - 1)
      PROVE  r[i] # SP
  <2>1. i = 1
    OBVIOUS
  <2> QED
    BY <1>1, <2>1 DEF SP
<1> QED
  BY <1>1, <1>2 DEF IsFirst

LEMMA DelParts ==
  ASSUME NEW key, NEW n \in Nat, n = Len(key), NEW r, DelLayout(r, key, n),
         NEW word, word[1] = "DEL", 1 = Len(word)
  PROVE  /\ IsPart(r, 1, 1, word, 1)
         /\ IsPart(r, 3, Len(r), key, n)
<1>1. IsPart(r, 1, 1, word, 1)
  BY DEF IsPart, DelLayout
<1>2. IsPart(r, 3, Len(r), key, n)
  <2>1. ASSUME NEW i \in 1 .. n
        PROVE  r[3 + i - 1] = key[i]
    <3>1. 3 + i - 1 = i + 2
      OBVIOUS
    <3> QED
      BY <3>1 DEF DelLayout
  <2> QED
    BY <2>1 DEF IsPart, DelLayout
<1> QED
  BY <1>1, <1>2

LEMMA DelParsed ==
  ASSUME NEW key \in Text, NEW n \in Nat, n = Len(key),
         NEW word \in Text, word[1] = "DEL", 1 = Len(word),
         NEW r, DelLayout(r, key, n)
  PROVE  DelSplit(r, key, word)
<1>0. r \in Text /\ 1 \in Nat \ {0} /\ 3 \in Nat \ {0}
  BY DEF DelLayout
<1>1. Find(r, SP, 1) = 2
  <2>1. IsFirst(r, SP, 1, 2)
    BY DelSpaces, Zenon
  <2> QED
    BY <1>0, <2>1, FirstPlace, Zenon
<1>2. SubSeq(r, 1, 1) = word
  <2>1. IsPart(r, 1, 1, word, 1)
    BY DelParts, Zenon
  <2> QED
    BY <1>0, <2>1, SubSeqIs, Zenon
<1>3. SubSeq(r, 3, Len(r)) = key
  <2> DEFINE len == Len(r)
  <2>1. IsPart(r, 3, len, key, n)
    BY DelParts, Zenon
  <2> HIDE DEF len
  <2>2. SubSeq(r, 3, len) = key
    BY <1>0, <2>1, SubSeqIs, Zenon
  <2> QED
    BY <2>2 DEF len
<1> QED
  BY <1>1, <1>2, <1>3, Zenon DEF DelSplit

LEMMA DelJoined ==
  ASSUME NEW key, NEW n \in Nat, NEW del, del[1] = "DEL", del[2] = SP,
         NEW r, Joins(r, del, 2, key, n)
  PROVE  DelLayout(r, key, n)
BY DEF Joins, DelLayout

LEMMA DelRecordLayout ==
  ASSUME NEW key \in Text
  PROVE  DelLayout(DelRecord(key), key, Len(key))
<1> DEFINE del == <<"DEL", SP>>
<1>1. del \in Text /\ 2 = Len(del) /\ del[1] = "DEL" /\ del[2] = SP
  BY Symbols, Pair, Zenon
<1>2. DelRecord(key) = del \o key
  BY Zenon DEF DelRecord
<1>3. Len(key) \in Nat
  BY DEF Text
<1> HIDE DEF del
<1>4. Joins(DelRecord(key), del, 2, key, Len(key))
  BY <1>1, <1>2, ConcatJoins, Zenon
<1> QED
  BY <1>1, <1>3, <1>4, DelJoined, Zenon

(* Replay makes of a DEL record the del() that wrote it, whatever the key   *)
(* (cognex.cpp:31-44, 258-261).                                             *)
THEOREM DelRoundTrip ==
  ASSUME NEW key \in Text
  PROVE  ParsedRecord(DelRecord(key)) = [type |-> "DEL", key |-> key, value |-> <<>>]
<1> DEFINE r == DelRecord(key)  n == Len(key)  word == <<"DEL">>
<1>0. n \in Nat
  BY DEF Text
<1>1. DelLayout(r, key, n)
  BY DelRecordLayout, Zenon
<1>2. word \in Text /\ word[1] = "DEL" /\ 1 = Len(word)
  BY Symbols, Singleton, Zenon
<1>3. word = <<"DEL">> /\ word # <<"PUT">>
  OBVIOUS
<1>4. n = Len(key)
  BY Zenon
<1> HIDE DEF r, n, word
<1>5. DelSplit(r, key, word)
  BY <1>0, <1>1, <1>2, <1>4, DelParsed, Zenon
<1>6. 2 # NPos /\ 2 - 1 = 1 /\ 2 + 1 = 3
  BY DEF NPos
<1>7. /\ Find(r, SP, 1) = 2
      /\ SubSeq(r, 1, 2 - 1) = word
      /\ SubSeq(r, 2 + 1, Len(r)) = key
  BY <1>5, <1>6, Zenon DEF DelSplit
<1>8. ParsedRecord(r) = [type |-> "DEL", key |-> key, value |-> <<>>]
  BY <1>3, <1>6, <1>7 DEF ParsedRecord
<1> QED
  BY <1>8, Zenon DEF r
=============================================================================
