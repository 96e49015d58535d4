--------------------------- MODULE CollectionProofs ---------------------------
(***************************************************************************)
(* The invariants of Collection, for every number of runs, workers, lanes,   *)
(* queries, hits, URLs and texts.                                            *)
(*                                                                           *)
(* What the passes over lists compute is proved first, for every list: the   *)
(* induction is over a set of numbers, with its least element outside it.    *)
(***************************************************************************)
EXTENDS Collection, SequenceTheorems, FiniteSetTheorems, WellFoundedInduction,
        TLAPS

-----------------------------------------------------------------------------
(* Numbers.                                                                  *)

\* A set of numbers has a least one.
LEMMA MinOfSet ==
    ASSUME NEW S \in SUBSET Nat, S # {}
    PROVE  \E m \in S : \A x \in S : m <= x
<1> DEFINE R == OpToRel(<, Nat)
<1>1. PICK m \in S : \A x \in S : ~(<<x, m>> \in R)
  <2>1. IsWellFoundedOn(R, Nat)
    BY NatLessThanWellFounded, Zenon
  <2> HIDE DEF R
  <2>2. QED
    BY <2>1, WFMin
<1>2. \A x \in S : ~(x < m)
  BY <1>1 DEF OpToRel
<1>3. QED
  BY <1>2

\* A bounded set of numbers has a greatest one: Max, which
\* prior_source_hash takes the latest complete run by, is that one.
LEMMA MaxOfSet ==
    ASSUME NEW n \in Nat, NEW S \in SUBSET (0 .. n), S # {}
    PROVE  Max(S) \in S /\ \A y \in S : y <= Max(S)
<1> DEFINE R == OpToRel(<, Nat)
           T == {n - x : x \in S}
<1>1. T \subseteq Nat /\ T # {}
  <2>1. \A x \in S : x \in 0 .. n
    OBVIOUS
  <2>2. \A x \in S : n - x \in Nat
    BY <2>1
  <2>3. QED
    BY <2>2
<1>2. PICK t \in T : \A u \in T : ~(<<u, t>> \in R)
  <2>1. IsWellFoundedOn(R, Nat)
    BY NatLessThanWellFounded, Zenon
  <2> HIDE DEF R, T
  <2>2. QED
    BY <1>1, <2>1, WFMin
<1>3. \A u \in T : ~(u < t)
  BY <1>1, <1>2 DEF OpToRel
<1>4. PICK m \in S : t = n - m
  OBVIOUS
<1>5. \A y \in S : m >= y
  <2>1. \A y \in S : ~(n - y < n - m)
    BY <1>3, <1>4
  <2>2. \A y \in S : y \in Nat /\ m \in Nat
    OBVIOUS
  <2>3. QED
    BY <2>1, <2>2
<1>6. \E x \in S : \A y \in S : x >= y
  BY <1>5
<1>8. Max(S) \in S /\ \A y \in S : Max(S) >= y
  BY <1>6 DEF Max
<1>7. QED
  BY <1>8

\* Induction over the numbers, of a set instead of an operator.
LEMMA Induction ==
    ASSUME NEW T, 0 \in T, \A n \in Nat \cap T : n + 1 \in T
    PROVE  Nat \subseteq T
<1> SUFFICES ASSUME Nat \ T # {} PROVE FALSE
  OBVIOUS
<1>1. PICK m \in Nat \ T : \A x \in Nat \ T : m <= x
  BY MinOfSet
<1>2. m - 1 \in Nat /\ ~(m <= m - 1)
  OBVIOUS
<1>3. m - 1 \in T
  BY <1>1, <1>2
<1>4. QED
  BY <1>2, <1>3

-----------------------------------------------------------------------------
(* KeepFirst.                                                                *)

\* What KeepFirst has after x, given what it had before.
Step(before, x, key) ==
    IF x \notin DOMAIN key \/ \E i \in DOMAIN before : key[before[i]] = key[x]
    THEN before ELSE Append(before, x)

\* f is the recursive function of KeepFirst up to N.
IsKept(f, seq, key, N) ==
    f = [n \in 0 .. N |-> IF n = 0 THEN <<>> ELSE Step(f[n - 1], seq[n], key)]

\* The recursion of KeepFirst has a solution, up to any place of the list.
LEMMA KeptExists ==
    ASSUME NEW S, NEW seq \in Seq(S), NEW key, NEW N \in 0 .. Len(seq)
    PROVE  \E f \in [0 .. N -> Seq(S)] : IsKept(f, seq, key, N)
<1> DEFINE T == {n \in Nat : n <= Len(seq) =>
                     \E f \in [0 .. n -> Seq(S)] : IsKept(f, seq, key, n)}
<1>0. Len(seq) \in Nat
  BY LenProperties
<1>1. 0 \in T
  <2> DEFINE f == [n \in 0 .. 0 |-> <<>>]
  <2>1. f \in [0 .. 0 -> Seq(S)] /\ IsKept(f, seq, key, 0)
    BY EmptySeq DEF IsKept
  <2>2. QED
    BY <2>1
<1>2. ASSUME NEW n \in Nat \cap T PROVE n + 1 \in T
  <2> SUFFICES ASSUME n + 1 <= Len(seq)
               PROVE  \E f \in [0 .. n + 1 -> Seq(S)] :
                          IsKept(f, seq, key, n + 1)
    OBVIOUS
  <2>1. PICK g \in [0 .. n -> Seq(S)] : IsKept(g, seq, key, n)
    BY <1>0
  <2> DEFINE f == [k \in 0 .. n + 1 |->
                       IF k = n + 1 THEN Step(g[n], seq[n + 1], key)
                       ELSE g[k]]
  <2>2. seq[n + 1] \in S /\ g[n] \in Seq(S)
    BY <1>0, ElementOfSeq
  <2>3. Step(g[n], seq[n + 1], key) \in Seq(S)
    BY <2>2, AppendProperties DEF Step
  <2>4. f \in [0 .. n + 1 -> Seq(S)]
    BY <2>3
  <2>5. \A k \in 0 .. n : f[k] = g[k]
    OBVIOUS
  <2>6. f[n + 1] = Step(f[n], seq[n + 1], key)
    OBVIOUS
  <2>7. ASSUME NEW k \in 0 .. n + 1
        PROVE  f[k] = IF k = 0 THEN <<>> ELSE Step(f[k - 1], seq[k], key)
    <3>1. CASE k = n + 1
      BY <2>6, <3>1
    <3>2. CASE k \in 0 .. n
      <4>1. g[k] = IF k = 0 THEN <<>> ELSE Step(g[k - 1], seq[k], key)
        BY <2>1, <3>2 DEF IsKept
      <4>2. k # 0 => f[k - 1] = g[k - 1]
        BY <3>2
      <4>3. f[k] = g[k]
        BY <3>2
      <4> HIDE DEF f
      <4>4. QED
        BY <4>1, <4>2, <4>3
    <3>3. QED
      BY <3>1, <3>2
  <2>8. IsKept(f, seq, key, n + 1)
    <3>1. f = [k \in 0 .. n + 1 |-> f[k]]
      OBVIOUS
    <3> HIDE DEF f
    <3>2. QED
      BY <2>7, <3>1 DEF IsKept
  <2>9. QED
    BY <2>4, <2>8
<1>3. Nat \subseteq T
  <2> HIDE DEF T
  <2>1. QED
    BY <1>1, <1>2, Induction
<1>4. N \in T
  BY <1>0, <1>3
<1>5. QED
  BY <1>0, <1>4

\* What one pass over the first n elements of seq keeps: in their order, one
\* of each key, and the first of it.
Firsts(K, seq, n, key) ==
    /\ \A i, j \in DOMAIN K : key[K[i]] = key[K[j]] => i = j
    /\ \E at \in [DOMAIN K -> 1 .. n] :
           /\ \A i, j \in DOMAIN K : i < j => at[i] < at[j]
           /\ \A i \in DOMAIN K : K[i] = seq[at[i]]
           /\ \A m \in 1 .. n : seq[m] \in DOMAIN key =>
                  \E i \in DOMAIN K : at[i] <= m /\ key[K[i]] = key[seq[m]]

\* One more element keeps that.
LEMMA StepKeepsFirsts ==
    ASSUME NEW S, NEW seq \in Seq(S), NEW key, NEW n \in Nat,
           n + 1 <= Len(seq), NEW K \in Seq(S \cap DOMAIN key),
           Firsts(K, seq, n, key)
    PROVE  LET L == Step(K, seq[n + 1], key)
           IN  L \in Seq(S \cap DOMAIN key) /\ Firsts(L, seq, n + 1, key)
<1> DEFINE x == seq[n + 1]
           D == S \cap DOMAIN key
           L == Step(K, x, key)
<1>0. Len(seq) \in Nat /\ Len(K) \in Nat /\ DOMAIN K = 1 .. Len(K) /\ x \in S
  BY LenProperties, ElementOfSeq
<1>1. PICK at \in [DOMAIN K -> 1 .. n] :
           /\ \A i, j \in DOMAIN K : i < j => at[i] < at[j]
           /\ \A i \in DOMAIN K : K[i] = seq[at[i]]
           /\ \A m \in 1 .. n : seq[m] \in DOMAIN key =>
                  \E i \in DOMAIN K : at[i] <= m /\ key[K[i]] = key[seq[m]]
  BY DEF Firsts
<1>2. CASE x \notin DOMAIN key \/ \E i \in DOMAIN K : key[K[i]] = key[x]
  <2>1. L = K
    BY <1>2 DEF Step
  <2>2. at \in [DOMAIN K -> 1 .. n + 1]
    BY <1>1
  <2>3. ASSUME NEW m \in 1 .. n + 1, seq[m] \in DOMAIN key
        PROVE  \E i \in DOMAIN K : at[i] <= m /\ key[K[i]] = key[seq[m]]
    <3>1. CASE m \in 1 .. n
      BY <1>1, <2>3, <3>1
    <3>2. CASE m = n + 1
      <4>1. PICK i \in DOMAIN K : key[K[i]] = key[x]
        BY <1>2, <2>3, <3>2
      <4>2. at[i] \in 1 .. n
        BY <1>1
      <4>3. at[i] <= m
        BY <3>2, <4>2
      <4>4. QED
        BY <3>2, <4>1, <4>3
    <3>3. QED
      BY <3>1, <3>2
  <2>4. \A i, j \in DOMAIN K : key[K[i]] = key[K[j]] => i = j
    BY DEF Firsts
  <2>5. \E to \in [DOMAIN K -> 1 .. n + 1] :
            /\ \A i, j \in DOMAIN K : i < j => to[i] < to[j]
            /\ \A i \in DOMAIN K : K[i] = seq[to[i]]
            /\ \A m \in 1 .. n + 1 : seq[m] \in DOMAIN key =>
                   \E i \in DOMAIN K : to[i] <= m /\ key[K[i]] = key[seq[m]]
    <3> HIDE DEF x, L
    <3>1. WITNESS at \in [DOMAIN K -> 1 .. n + 1]
    <3>2. QED
      BY <1>1, <2>3
  <2>6. Firsts(K, seq, n + 1, key)
    BY <2>4, <2>5 DEF Firsts
  <2>7. QED
    BY <2>1, <2>6
<1>3. CASE x \in DOMAIN key /\ \A i \in DOMAIN K : key[K[i]] # key[x]
  <2>1. L = Append(K, x) /\ x \in D
    BY <1>0, <1>3 DEF Step
  <2>2. /\ L \in Seq(D) /\ Len(L) = Len(K) + 1
        /\ DOMAIN L = 1 .. Len(K) + 1
        /\ \A i \in 1 .. Len(K) : L[i] = K[i]
        /\ L[Len(K) + 1] = x
    BY <2>1, AppendProperties, LenProperties
  <2> DEFINE to == [i \in 1 .. Len(K) + 1 |->
                        IF i = Len(K) + 1 THEN n + 1 ELSE at[i]]
  <2>3. /\ to \in [DOMAIN L -> 1 .. n + 1]
        /\ \A i \in DOMAIN K : to[i] = at[i] /\ at[i] \in 1 .. n
        /\ to[Len(K) + 1] = n + 1
    BY <1>0, <1>1, <2>2
  <2>4. \A i \in DOMAIN L : i \in DOMAIN K \/ i = Len(K) + 1
    BY <1>0, <2>2
  <2> HIDE DEF L, to, x
  <2>5. \A i, j \in DOMAIN L : key[L[i]] = key[L[j]] => i = j
    <3>1. \A i, j \in DOMAIN K : key[K[i]] = key[K[j]] => i = j
      BY DEF Firsts
    <3>2. \A i \in DOMAIN K : L[i] = K[i]
      BY <1>0, <2>2
    <3>3. QED
      BY <1>3, <2>2, <2>4, <3>1, <3>2
  <2>6. \A i, j \in DOMAIN L : i < j => to[i] < to[j]
    <3>1. \A i, j \in DOMAIN K : i < j => to[i] < to[j]
      BY <1>1, <2>3
    <3>2. \A i \in DOMAIN K : to[i] < n + 1 /\ i < Len(K) + 1
      BY <1>0, <2>3
    <3>3. \A j \in DOMAIN K : ~(Len(K) + 1 < j)
      BY <1>0
    <3>4. QED
      BY <1>0, <2>3, <2>4, <3>1, <3>2, <3>3
  <2>7. \A i \in DOMAIN L : L[i] = seq[to[i]]
    BY <1>0, <1>1, <2>2, <2>3, <2>4 DEF x
  <2>8. ASSUME NEW m \in 1 .. n + 1, seq[m] \in DOMAIN key
        PROVE  \E i \in DOMAIN L : to[i] <= m /\ key[L[i]] = key[seq[m]]
    <3>1. CASE m \in 1 .. n
      <4>1. PICK i \in DOMAIN K : at[i] <= m /\ key[K[i]] = key[seq[m]]
        BY <1>1, <2>8, <3>1
      <4>2. i \in DOMAIN L /\ L[i] = K[i] /\ to[i] = at[i]
        BY <1>0, <2>2, <2>3, <4>1
      <4>3. QED
        BY <4>1, <4>2
    <3>2. CASE m = n + 1
      <4>1. Len(K) + 1 \in DOMAIN L
        BY <1>0, <2>2
      <4>2. QED
        BY <2>2, <2>3, <3>2, <4>1 DEF x
    <3>3. QED
      BY <3>1, <3>2
  <2>9. Firsts(L, seq, n + 1, key)
    BY <2>3, <2>5, <2>6, <2>7, <2>8 DEF Firsts
  <2>10. QED
    BY <2>2, <2>9 DEF L, x
<1>4. QED
  BY <1>2, <1>3

\* What KeepFirst returns, for every list and every key.
LEMMA KeepFirstKeepsFirsts ==
    ASSUME NEW S, NEW seq \in Seq(S), NEW key
    PROVE  /\ KeepFirst(seq, key) \in Seq(S \cap DOMAIN key)
           /\ Firsts(KeepFirst(seq, key), seq, Len(seq), key)
<1> DEFINE f == CHOOSE g : IsKept(g, seq, key, Len(seq))
           Kept(n) == /\ f[n] \in Seq(S \cap DOMAIN key)
                      /\ Firsts(f[n], seq, n, key)
           T == {n \in Nat : n <= Len(seq) => Kept(n)}
<1>0. Len(seq) \in Nat
  BY LenProperties
<1>1. \E g : IsKept(g, seq, key, Len(seq))
  <2>1. Len(seq) \in 0 .. Len(seq)
    BY <1>0
  <2>2. \E g \in [0 .. Len(seq) -> Seq(S)] : IsKept(g, seq, key, Len(seq))
    BY <2>1, KeptExists, Zenon
  <2>3. QED
    BY <2>2
<1>2. IsKept(f, seq, key, Len(seq))
  BY <1>1
<1>3. KeepFirst(seq, key) = f[Len(seq)]
  BY DEF KeepFirst, IsKept, Step
<1> HIDE DEF f
<1>4. 0 \in T
  <2>1. f[0] = <<>>
    BY <1>0, <1>2 DEF IsKept
  <2>2. <<>> \in Seq(S \cap DOMAIN key) /\ DOMAIN <<>> = {}
    BY EmptySeq
  <2>3. Firsts(<<>>, seq, 0, key)
    <3> DEFINE at == [i \in {} |-> 0]
    <3>1. at \in [DOMAIN <<>> -> 1 .. 0] /\ 1 .. 0 = {}
      BY <2>2
    <3> HIDE DEF at
    <3>2. \E to \in [DOMAIN <<>> -> 1 .. 0] :
              /\ \A i, j \in DOMAIN <<>> : i < j => to[i] < to[j]
              /\ \A i \in DOMAIN <<>> : <<>>[i] = seq[to[i]]
              /\ \A m \in 1 .. 0 : seq[m] \in DOMAIN key =>
                     \E i \in DOMAIN <<>> :
                         to[i] <= m /\ key[<<>>[i]] = key[seq[m]]
      BY <2>2, <3>1
    <3>3. QED
      BY <2>2, <3>2 DEF Firsts
  <2>4. QED
    BY <2>1, <2>2, <2>3
<1>5. ASSUME NEW n \in Nat \cap T PROVE n + 1 \in T
  <2> SUFFICES ASSUME n + 1 <= Len(seq) PROVE Kept(n + 1)
    OBVIOUS
  <2>1. Kept(n)
    BY <1>0
  <2>2. f[n + 1] = Step(f[n], seq[n + 1], key)
    BY <1>0, <1>2 DEF IsKept
  <2>3. QED
    BY <2>1, <2>2, StepKeepsFirsts
<1>6. Nat \subseteq T
  <2> HIDE DEF T
  <2>1. QED
    BY <1>4, <1>5, Induction
<1>7. Kept(Len(seq))
  BY <1>0, <1>6
<1>8. QED
  BY <1>3, <1>7

-----------------------------------------------------------------------------
(* Sorted lists.                                                             *)

\* R orders the elements of S.
StrictOrder(R, S) ==
    /\ \A x \in S : <<x, x>> \notin R
    /\ \A x, y, z \in S : <<x, y>> \in R /\ <<y, z>> \in R => <<x, z>> \in R
    /\ \A x, y \in S : x = y \/ <<x, y>> \in R \/ <<y, x>> \in R

\* Every strict total order of 1 .. n has a sorted list: each element goes to
\* the place that is the number of those not behind it.
LEMMA SortedListExists ==
    ASSUME NEW n \in Nat, NEW R, StrictOrder(R, 1 .. n)
    PROVE  \E p \in [1 .. n -> 1 .. n] :
               \A i, j \in 1 .. n : i < j => <<p[i], p[j]>> \in R
<1> DEFINE S == 1 .. n
           Upto(x) == {y \in S : y = x \/ <<y, x>> \in R}
           rank == [x \in S |-> Cardinality(Upto(x))]
<1>1. IsFiniteSet(S) /\ Cardinality(S) = n
  BY FS_Interval
<1>2. \A x \in S : /\ Upto(x) \in SUBSET S /\ x \in Upto(x)
                   /\ IsFiniteSet(Upto(x)) /\ rank[x] \in S
  <2> SUFFICES ASSUME NEW x \in S
               PROVE  /\ Upto(x) \in SUBSET S /\ x \in Upto(x)
                      /\ IsFiniteSet(Upto(x)) /\ rank[x] \in S
    OBVIOUS
  <2>1. Upto(x) \in SUBSET S /\ x \in Upto(x)
    OBVIOUS
  <2>2. rank[x] = Cardinality(Upto(x))
    OBVIOUS
  <2> HIDE DEF Upto, rank
  <2>3. /\ IsFiniteSet(Upto(x)) /\ Cardinality(Upto(x)) <= n
        /\ Cardinality(Upto(x)) \in Nat
        /\ Cardinality(Upto(x)) # 0
    <3>1. IsFiniteSet(Upto(x)) /\ Cardinality(Upto(x)) <= n
      BY <1>1, <2>1, FS_Subset
    <3>2. QED
      BY <2>1, <3>1, FS_CardinalityType, FS_EmptySet
  <2>4. QED
    BY <2>1, <2>2, <2>3
<1>a. \A x \in S : rank[x] \in Nat
  <2>1. \A x \in S : rank[x] \in S
    BY <1>2
  <2> HIDE DEF rank
  <2>2. QED
    BY <2>1
<1>3. ASSUME NEW x \in S, NEW y \in S, <<x, y>> \in R PROVE rank[x] < rank[y]
  <2>1. Upto(x) \subseteq Upto(y)
    BY <1>3 DEF StrictOrder
  <2>2. y \notin Upto(x)
    BY <1>3 DEF StrictOrder
  <2>3. rank[x] = Cardinality(Upto(x)) /\ rank[y] = Cardinality(Upto(y))
    OBVIOUS
  <2>4. rank[x] \in S /\ rank[y] \in S /\ IsFiniteSet(Upto(y)) /\ y \in Upto(y)
    BY <1>2
  <2> HIDE DEF Upto, rank
  <2>5. /\ Cardinality(Upto(x)) <= Cardinality(Upto(y))
        /\ Cardinality(Upto(x)) # Cardinality(Upto(y))
    <3>1. Upto(x) \in SUBSET Upto(y)
      BY <2>1
    <3>2. /\ Cardinality(Upto(x)) <= Cardinality(Upto(y))
          /\ Cardinality(Upto(y)) = Cardinality(Upto(x)) => Upto(y) = Upto(x)
      BY <2>4, <3>1, FS_Subset
    <3>3. QED
      BY <2>2, <2>4, <3>2
  <2>6. QED
    BY <2>3, <2>4, <2>5
<1>4. \A x, y \in S : rank[x] < rank[y] => <<x, y>> \in R
  <2> SUFFICES ASSUME NEW x \in S, NEW y \in S, rank[x] < rank[y]
               PROVE  <<x, y>> \in R
    OBVIOUS
  <2>1. rank[x] \in Nat /\ rank[y] \in Nat
    BY <1>a
  <2> HIDE DEF rank
  <2>2. x # y /\ ~(rank[y] < rank[x])
    BY <2>1
  <2>3. QED
    BY <1>3, <2>2 DEF StrictOrder
<1>5. rank \in Surjection(S, S)
  <2>1. rank \in [S -> S]
    BY <1>2
  <2>2. \A x, y \in S : rank[x] = rank[y] => x = y
    <3> SUFFICES ASSUME NEW x \in S, NEW y \in S, rank[x] = rank[y]
                 PROVE  x = y
      OBVIOUS
    <3>1. rank[x] \in Nat /\ rank[y] \in Nat
      BY <1>a
    <3> HIDE DEF rank
    <3>2. ~(rank[x] < rank[y]) /\ ~(rank[y] < rank[x])
      BY <3>1
    <3>3. QED
      BY <1>3, <3>2 DEF StrictOrder
  <2> HIDE DEF rank
  <2>3. rank \in Injection(S, S)
    BY <2>1, <2>2 DEF Injection, IsInjective
  <2>4. QED
    BY <1>1, <2>3, FS_Injection
<1>6. \A k \in S : \E x \in S : rank[x] = k
  BY <1>5 DEF Surjection
<1> DEFINE p == [k \in S |-> CHOOSE x \in S : rank[x] = k]
<1>7. \A k \in S : p[k] \in S /\ rank[p[k]] = k
  <2> HIDE DEF rank
  <2>1. QED
    BY <1>6
<1>8. p \in [S -> S]
  BY <1>7
<1>9. \A i, j \in S : i < j => <<p[i], p[j]>> \in R
  <2> HIDE DEF p, rank
  <2>1. QED
    BY <1>4, <1>7
<1>10. QED
  BY <1>8, <1>9

\* A sorted list of 1 .. n has each element once.
LEMMA SortedListHasAll ==
    ASSUME NEW n \in Nat, NEW R, StrictOrder(R, 1 .. n),
           NEW p \in [1 .. n -> 1 .. n],
           \A i, j \in 1 .. n : i < j => <<p[i], p[j]>> \in R
    PROVE  \A x \in 1 .. n : \E i \in 1 .. n : p[i] = x
<1>1. IsFiniteSet(1 .. n)
  BY FS_Interval
<1>2. \A i, j \in 1 .. n : p[i] = p[j] => i = j
  <2>1. \A i, j \in 1 .. n : i < j => p[i] # p[j]
    BY DEF StrictOrder
  <2>2. \A i, j \in 1 .. n : i = j \/ i < j \/ j < i
    OBVIOUS
  <2>3. QED
    BY <2>1, <2>2
<1>3. p \in Injection(1 .. n, 1 .. n)
  BY <1>2 DEF Injection, IsInjective
<1>4. p \in Surjection(1 .. n, 1 .. n)
  BY <1>1, <1>3, FS_Injection
<1>5. QED
  BY <1>4 DEF Surjection

-----------------------------------------------------------------------------
(* The inductive invariant.                                                  *)

\* Nothing is known of the runs to come, nor of the one at work; and sources
\* are those of the run at work, each of one of its hits.
Present ==
    /\ stage # "idle" => run \in Runs /\ status[run] = "running"
    /\ \A r \in Runs : r > run => status[r] = "none"
    /\ stage \in {"idle", "search"} => sources = <<>>
    /\ \A s \in ToSet(sources) : s.hit \in DOMAIN hits

\* A failed query is held against its lane.
Asked ==
    /\ Len(queryLog) <= Len(Queries)
    /\ \A q \in DOMAIN queryLog :
           queryLog[q] # "ok" => ~querySuccess[Queries[q]]

\* A hit whose result was taken is a source with a row, or held against its
\* lane.
Settled(i) ==
    IF page[i] = NoPage
    THEN hits[i].lane \in sourceFailures
    ELSE /\ \E s \in ToSet(sources) : s.hit = i /\ s.page = page[i]
         /\ table[run][page[i].url] # NoHash

\* Every candidate is refused and held against its lane, or among the hits;
\* and a hit is taken once its result is settled.
Gathered ==
    stage \in {"fetch", "packet"} =>
        /\ \A c \in ToSet(candidates) :
               IF c.url \in Urls THEN \E i \in DOMAIN hits : hits[i].url = c.url
               ELSE c.lane \in sourceFailures
        /\ \A i \in DOMAIN hits : phase[i] = "taken" => Settled(i)
        /\ stage = "packet" => \A i \in DOMAIN hits : phase[i] = "taken"

Inv ==
    /\ TypeOK
    /\ Present
    /\ Asked
    /\ Gathered
    /\ HistoryIsOfCompleteRuns

-----------------------------------------------------------------------------
\* What is known of the constants.
LEMMA ConstantTypes ==
    /\ MaxRuns \in Nat /\ Runs = 1 .. MaxRuns
    /\ Workers \in Nat \ {0} /\ MaxHits \in Nat
    /\ NumLanes \in Nat /\ Lanes = 1 .. NumLanes
    /\ Queries \in Seq(Lanes) /\ Len(Queries) \in Nat
    /\ \A q \in 1 .. Len(Queries) : Queries[q] \in Lanes
    /\ NoHash \notin Hashes
    /\ NoPage \notin Page
BY CollectionAssumption, LenProperties, ElementOfSeq
   DEF Runs, Lanes, NoPage, Page

\* The hits and the pool.
LEMMA PoolTypes ==
    ASSUME TypeOK
    PROVE  /\ Len(hits) \in Nat
           /\ DOMAIN hits = 1 .. Len(hits)
           /\ DOMAIN phase = DOMAIN hits
           /\ \A i \in DOMAIN hits : i \in Nat /\ hits[i] \in SafeHit
           /\ \A place : IsFiniteSet(In(place))
<1>1. /\ Len(hits) \in Nat /\ DOMAIN hits = 1 .. Len(hits)
      /\ DOMAIN phase = DOMAIN hits
  BY LenProperties DEF TypeOK
<1>2. \A i \in DOMAIN hits : i \in Nat /\ hits[i] \in SafeHit
  BY <1>1, ElementOfSeq DEF TypeOK
<1>3. IsFiniteSet(DOMAIN phase)
  BY <1>1, FS_Interval
<1>4. \A place : In(place) \in SUBSET DOMAIN phase
  BY DEF In
<1>5. QED
  BY <1>1, <1>2, <1>3, <1>4, FS_Subset

\* Appending a source to the list.
LEMMA OneMoreSource ==
    ASSUME TypeOK, NEW new \in Source
    PROVE  /\ Append(sources, new) \in Seq(Source)
           /\ ToSet(Append(sources, new)) = ToSet(sources) \cup {new}
<1>1. Len(sources) \in Nat /\ DOMAIN sources = 1 .. Len(sources)
  BY LenProperties DEF TypeOK
<1>2. /\ Append(sources, new) \in Seq(Source)
      /\ Len(Append(sources, new)) = Len(sources) + 1
      /\ \A i \in 1 .. Len(sources) : Append(sources, new)[i] = sources[i]
      /\ Append(sources, new)[Len(sources) + 1] = new
  BY AppendProperties DEF TypeOK
<1>3. DOMAIN Append(sources, new) = 1 .. Len(sources) + 1
  BY <1>2, LenProperties
<1>4. 1 .. Len(sources) + 1 = (1 .. Len(sources)) \cup {Len(sources) + 1}
  BY <1>1
<1>5. QED
  BY <1>1, <1>2, <1>3, <1>4 DEF ToSet

\* The source made of a page.
LEMMA NewSource ==
    ASSUME TypeOK, NEW i \in DOMAIN phase, page[i] # NoPage,
           NEW tag \in Relevances \cup {NoTag}
    PROVE  /\ page[i] \in Page /\ page[i].url \in Urls
           /\ page[i].hash \in Hashes
           /\ [hit |-> i, page |-> page[i],
               history |-> HistoryStatus(page[i]), relevance |-> tag] \in Source
<1>1. i \in Nat /\ page[i] \in Page
  BY PoolTypes DEF TypeOK
<1>2. HistoryStatus(page[i]) \in Histories
  BY DEF HistoryStatus, Histories
<1>3. QED
  BY <1>1, <1>2 DEF Source, Page

\* Before the first run nothing is recorded and every list is empty.
LEMMA InvInit == Init => Inv
<1> SUFFICES ASSUME Init PROVE Inv
  OBVIOUS
<1> USE ConstantTypes DEF Init
<1>1. \A S : <<>> \in Seq(S)
  BY EmptySeq
<1>2. DOMAIN <<>> = {} /\ Len(<<>>) = 0
  OBVIOUS
<1>3. ToSet(sources) = {}
  BY <1>2 DEF ToSet
<1>4. In("fetching") = {} /\ Cardinality({}) = 0
  BY <1>2, FS_EmptySet DEF In
<1>5. TypeOK
  <2>1. phase \in [DOMAIN hits -> {"waiting", "fetching", "fetched", "taken"}]
    BY <1>2
  <2>2. page \in [DOMAIN hits -> Page \cup {NoPage}]
    BY <1>2
  <2>3. Cardinality(In("fetching")) <= Workers
    <3>1. Cardinality(In("fetching")) = Cardinality({})
      BY <1>4, Zenon
    <3>2. QED
      BY <1>4, <3>1
  <2>4. QED
    BY <1>1, <2>1, <2>2, <2>3 DEF TypeOK
<1>6. Present /\ Asked /\ Gathered /\ HistoryIsOfCompleteRuns
  BY <1>2, <1>3 DEF Present, Asked, Gathered, HistoryIsOfCompleteRuns
<1>7. QED
  BY <1>5, <1>6 DEF Inv

\* Every step keeps the types, and the pool within its number of workers.
LEMMA TypeStep == Inv /\ [Next]_vars => TypeOK'
<1> SUFFICES ASSUME TypeOK, Present, [Next]_vars PROVE TypeOK'
  BY DEF Inv
<1> USE ConstantTypes, PoolTypes
<1>1. CASE StartRun
  <2>1. /\ run' \in 0 .. MaxRuns /\ stage' = "search"
        /\ tagger' \in {"working", "unavailable"}
        /\ status' \in [Runs -> {"none", "running", "complete",
                                 "incomplete", "failed"}]
    BY <1>1 DEF StartRun, TypeOK
  <2>2. UNCHANGED <<querySuccess, sourceFailures, candidates, hits, phase,
                    page, sources, queryLog, table>>
    BY <1>1 DEF StartRun
  <2>3. Cardinality(In("fetching"))' <= Workers
    BY <2>2 DEF TypeOK, In
  <2>4. QED
    BY <2>1, <2>2, <2>3 DEF TypeOK
<1>2. ASSUME NEW result \in {"ok", "error"},
             NEW n \in Nat, NEW found \in [1 .. n -> Urls \cup UnsafeUrls],
             Query(result, found)
      PROVE  TypeOK'
  <2>1. Len(queryLog) \in Nat /\ Asking \in Lanes
    BY <1>2, LenProperties DEF Query, Asking, TypeOK
  <2> DEFINE new == [k \in DOMAIN found |-> [lane |-> Asking,
                                             url |-> found[k]]]
  <2>2. new \in Seq(Hit)
    <3>1. new \in [1 .. n -> Hit]
      BY <2>1 DEF Hit
    <3> HIDE DEF new
    <3>2. QED
      BY <3>1, SeqDef
  <2>3. candidates' \in Seq(Hit)
    <3> HIDE DEF new
    <3>1. candidates \o new \in Seq(Hit)
      BY <2>2, ConcatProperties DEF TypeOK
    <3>2. QED
      BY <1>2, <3>1 DEF Query, new
  <2>4. queryLog' \in Seq({"ok", "error"})
    BY <1>2, AppendProperties DEF Query, TypeOK
  <2>5. querySuccess' \in [Lanes -> BOOLEAN]
    BY <1>2 DEF Query, QuerySuccess, TypeOK
  <2>6. QED
    BY <1>2, <2>3, <2>4, <2>5 DEF Query, TypeOK, In
<1>3. CASE SubmitFetches
  <2>1. hits' \in Seq(SafeHit)
    <3> DEFINE key == [c \in SafeHit |-> c.url]
    <3>1. KeepFirst(candidates, key) \in Seq(Hit \cap DOMAIN key)
      <4> HIDE DEF key
      <4>1. QED
        BY KeepFirstKeepsFirsts DEF TypeOK
    <3>2. Hit \cap DOMAIN key \subseteq SafeHit
      OBVIOUS
    <3> HIDE DEF key
    <3>3. KeepFirst(candidates, key) \in Seq(SafeHit)
      BY <3>1, <3>2, SeqMonotonic
    <3>4. QED
      BY <1>3, <3>3 DEF SubmitFetches, Deduplicated, key
  <2>2. /\ phase' = [i \in DOMAIN hits' |-> "waiting"]
        /\ page' = [i \in DOMAIN hits' |-> NoPage]
        /\ sourceFailures' = UnsafeLanes /\ stage' = "fetch"
        /\ UNCHANGED <<run, tagger, querySuccess, candidates, sources, status,
                       queryLog, table>>
    BY <1>3 DEF SubmitFetches
  <2>3. In("fetching")' = {} /\ Cardinality({}) = 0
    BY <2>2, FS_EmptySet DEF In
  <2>4. UnsafeLanes \subseteq Lanes
    <3>1. \A k \in DOMAIN candidates : candidates[k] \in Hit
      BY LenProperties, ElementOfSeq DEF TypeOK
    <3>2. QED
      BY <3>1 DEF UnsafeLanes, Hit
  <2>5. Cardinality(In("fetching"))' <= Workers
    <3>1. Cardinality(In("fetching"))' = Cardinality({})
      BY <2>3, Zenon
    <3>2. QED
      BY <2>3, <3>1
  <2>6. QED
    BY <2>1, <2>2, <2>4, <2>5 DEF TypeOK
<1>4. ASSUME NEW i \in DOMAIN phase, BeginFetch(i) PROVE TypeOK'
  <2>1. In("fetching")' = In("fetching") \cup {i}
    BY <1>4 DEF BeginFetch, In, TypeOK
  <2>2. /\ Cardinality(In("fetching")) < Workers
        /\ Cardinality(In("fetching")) \in Nat
    BY <1>4, FS_CardinalityType DEF BeginFetch
  <2>3. \/ Cardinality(In("fetching")') = Cardinality(In("fetching"))
        \/ Cardinality(In("fetching")') = Cardinality(In("fetching")) + 1
    BY <2>1, FS_AddElement
  <2>4. Cardinality(In("fetching"))' <= Workers
    BY <2>2, <2>3
  <2>5. /\ phase' \in [DOMAIN hits ->
                           {"waiting", "fetching", "fetched", "taken"}]
        /\ UNCHANGED <<run, stage, tagger, querySuccess, sourceFailures,
                       candidates, hits, page, sources, status, queryLog, table>>
    BY <1>4 DEF BeginFetch, TypeOK
  <2>6. /\ run' \in 0 .. MaxRuns
        /\ stage' \in {"idle", "search", "fetch", "packet"}
        /\ tagger' \in {"working", "unavailable"}
        /\ querySuccess' \in [Lanes -> BOOLEAN]
        /\ sourceFailures' \subseteq Lanes
        /\ candidates' \in Seq(Hit)
        /\ sources' \in Seq(Source)
    BY <2>5 DEF TypeOK
  <2>7. /\ hits' \in Seq(SafeHit)
        /\ phase' \in [DOMAIN hits' ->
                            {"waiting", "fetching", "fetched", "taken"}]
        /\ page' \in [DOMAIN hits' -> Page \cup {NoPage}]
    BY <2>5 DEF TypeOK
  <2>8. /\ status' \in [Runs -> {"none", "running", "complete", "incomplete",
                                 "failed"}]
        /\ queryLog' \in Seq({"ok", "error"})
        /\ table' \in [Runs -> [Urls -> Hashes \cup {NoHash}]]
    BY <2>5 DEF TypeOK
  <2>9. QED
    BY <2>4, <2>6, <2>7, <2>8 DEF TypeOK
<1>5. ASSUME NEW i \in DOMAIN phase, NEW to \in {"fetched", "taken"},
             phase' = [phase EXCEPT ![i] = to]
      PROVE  Cardinality(In("fetching"))' <= Workers
  <2>1. In("fetching")' \in SUBSET In("fetching")
    BY <1>5 DEF In, TypeOK
  <2>2. /\ Cardinality(In("fetching")') <= Cardinality(In("fetching"))
        /\ Cardinality(In("fetching")') \in Nat
        /\ Cardinality(In("fetching")) \in Nat
    BY <2>1, FS_Subset, FS_CardinalityType
  <2>3. QED
    BY <2>2 DEF TypeOK
<1>6. ASSUME NEW i \in DOMAIN phase, NEW found \in Page \cup {NoPage},
             EndFetch(i, found)
      PROVE  TypeOK'
  <2>1. Cardinality(In("fetching"))' <= Workers
    BY <1>5, <1>6 DEF EndFetch
  <2>2. QED
    BY <1>6, <2>1 DEF EndFetch, TypeOK
<1>7. ASSUME NEW i \in DOMAIN phase, NEW tag \in Relevances \cup {NoTag},
             Take(i, tag), tagger' \in {"working", "unavailable"}
      PROVE  TypeOK'
  <2>1. Cardinality(In("fetching"))' <= Workers
    BY <1>5, <1>7 DEF Take
  <2>2. CASE page[i] = NoPage
    <3>1. sourceFailures' \subseteq Lanes
      <4>1. hits[i].lane \in Lanes
        BY DEF SafeHit
      <4>2. QED
        BY <1>7, <2>2, <4>1 DEF Take, FailuresWith, TypeOK
    <3>2. QED
      BY <1>7, <2>1, <2>2, <3>1 DEF Take, TypeOK
  <2>3. CASE page[i] # NoPage
    <3>1. sources' \in Seq(Source)
      BY <1>7, <2>3, NewSource, OneMoreSource DEF Take, WithSource
    <3>2. table' \in [Runs -> [Urls -> Hashes \cup {NoHash}]]
      <4>1. page[i].url \in Urls /\ page[i].hash \in Hashes
        BY <1>7, <2>3, NewSource
      <4>2. table' = SaveSource(page[i])
        BY <1>7, <2>3 DEF Take
      <4>3. QED
        BY <4>1, <4>2 DEF SaveSource, TypeOK
    <3>3. QED
      BY <1>7, <2>1, <2>3, <3>1, <3>2 DEF Take, TypeOK
  <2>4. QED
    BY <2>2, <2>3
<1>8. CASE Gather \/ UNCHANGED vars
  BY <1>8 DEF Gather, vars, localVars, TypeOK, In
<1>9. ASSUME End, status' = status \/ \E outcome \in {"complete", "incomplete",
                                                      "failed"} :
                                   status' = [status EXCEPT ![run] = outcome]
      PROVE  TypeOK'
  <2>1. \A S : <<>> \in Seq(S)
    BY EmptySeq
  <2>2. DOMAIN <<>> = {}
    OBVIOUS
  <2>3. In("fetching")' = {} /\ Cardinality({}) = 0
    BY <1>9, <2>2, FS_EmptySet DEF End, In
  <2>4. /\ phase' \in [DOMAIN hits' ->
                           {"waiting", "fetching", "fetched", "taken"}]
        /\ page' \in [DOMAIN hits' -> Page \cup {NoPage}]
    BY <1>9, <2>2 DEF End
  <2>5. status' \in [Runs -> {"none", "running", "complete", "incomplete",
                              "failed"}]
    BY <1>9 DEF TypeOK
  <2>6. Cardinality(In("fetching"))' <= Workers
    <3>1. Cardinality(In("fetching"))' = Cardinality({})
      BY <2>3, Zenon
    <3>2. QED
      BY <2>3, <3>1
  <2>7. QED
    BY <1>9, <2>1, <2>4, <2>5, <2>6 DEF End, TypeOK
<1>10. CASE SearchSucceeds \/ SearchFails
  <2>1. ASSUME NEW n \in 0 .. MaxHits,
               NEW found \in [1 .. n -> Urls \cup UnsafeUrls],
               Query("ok", found)
        PROVE  TypeOK'
    BY <1>2, <2>1
  <2>2. CASE SearchFails
    <3>1. <<>> \in [1 .. 0 -> Urls \cup UnsafeUrls]
      OBVIOUS
    <3>2. QED
      BY <1>2, <2>2, <3>1 DEF SearchFails
  <2>3. QED
    BY <1>10, <2>1, <2>2 DEF SearchSucceeds
<1>11. ASSUME NEW i \in DOMAIN phase, FetchSucceeds(i) \/ FetchFails(i)
       PROVE  TypeOK'
  BY <1>6, <1>11 DEF FetchSucceeds, FetchFails
<1>12. ASSUME NEW i \in DOMAIN phase,
              TakeTagged(i) \/ TakeAsTaggerFails(i) \/ TakeUntagged(i)
       PROVE  TypeOK'
  BY <1>7, <1>12 DEF TakeTagged, TakeAsTaggerFails, TakeUntagged
<1>13. CASE Finish \/ Die
  BY <1>9, <1>13 DEF Finish, Die
<1>14. QED
  BY <1>1, <1>3, <1>4, <1>8, <1>10, <1>11, <1>12, <1>13 DEF Next

-----------------------------------------------------------------------------
(* The steps.                                                                *)

\* What taking a result does.
LEMMA TakeEffect ==
    ASSUME Inv, NEW i \in DOMAIN phase, NEW tag \in Relevances \cup {NoTag},
           Take(i, tag)
    PROVE  /\ stage = "fetch" /\ run \in Runs /\ status[run] = "running"
           /\ phase' = [phase EXCEPT ![i] = "taken"]
           /\ UNCHANGED <<run, stage, querySuccess, candidates, hits, page,
                          status, queryLog>>
           /\ sourceFailures \subseteq sourceFailures'
           /\ \A r \in Runs \ {run} : table'[r] = table[r]
           /\ \A u \in Urls : table[run][u] # NoHash => table'[run][u] # NoHash
           /\ Settled(i)'
           /\ \/ ToSet(sources)' = ToSet(sources)
              \/ /\ page[i] # NoPage
                 /\ ToSet(sources)' = ToSet(sources) \cup
                        {[hit |-> i, page |-> page[i],
                          history |-> HistoryStatus(page[i]),
                          relevance |-> tag]}
<1>1. /\ stage = "fetch" /\ run \in Runs /\ status[run] = "running"
      /\ phase' = [phase EXCEPT ![i] = "taken"]
      /\ UNCHANGED <<run, stage, querySuccess, candidates, hits, page, status,
                     queryLog>>
  BY DEF Inv, Present, Take
<1>2. CASE page[i] = NoPage
  <2>1. /\ sourceFailures' = sourceFailures \cup {hits[i].lane}
        /\ UNCHANGED <<sources, table>>
    BY <1>2 DEF Take, FailuresWith
  <2>2. Settled(i)'
    BY <1>1, <1>2, <2>1 DEF Settled
  <2>3. QED
    BY <1>1, <2>1, <2>2
<1>3. CASE page[i] # NoPage
  <2> DEFINE new == [hit |-> i, page |-> page[i],
                     history |-> HistoryStatus(page[i]), relevance |-> tag]
  <2>1. /\ page[i].url \in Urls /\ page[i].hash \in Hashes /\ new \in Source
    BY <1>3, NewSource DEF Inv
  <2>2. /\ sources' = Append(sources, new)
        /\ table' = SaveSource(page[i])
        /\ sourceFailures' = sourceFailures
    BY <1>3 DEF Take, WithSource
  <2>3. new.hit = i /\ new.page = page[i]
    OBVIOUS
  <2> HIDE DEF new
  <2>4. ToSet(sources)' = ToSet(sources) \cup {new}
    <3>1. ToSet(Append(sources, new)) = ToSet(sources) \cup {new}
      BY <2>1, OneMoreSource DEF Inv
    <3>2. QED
      BY <2>2, <3>1
  <2>5. /\ \A r \in Runs \ {run} : table'[r] = table[r]
        /\ \A u \in Urls : table[run][u] # NoHash => table'[run][u] # NoHash
        /\ table'[run][page[i].url] # NoHash
    BY <1>1, <2>1, <2>2, ConstantTypes DEF SaveSource, Inv, TypeOK
  <2>6. Settled(i)'
    BY <1>1, <1>3, <2>3, <2>4, <2>5 DEF Settled
  <2>7. QED
    BY <1>1, <1>3, <2>2, <2>4, <2>5, <2>6 DEF new
<1>4. QED
  BY <1>2, <1>3

\* The steps of a run beside the queries, the taking and the end.
LEMMA QuietStep ==
    ASSUME TypeOK,
           \/ Gather \/ UNCHANGED vars
           \/ \E i \in DOMAIN phase :
                  BeginFetch(i) \/ FetchSucceeds(i) \/ FetchFails(i)
    PROVE  /\ UNCHANGED <<run, querySuccess, sourceFailures, candidates, hits,
                          sources, status, queryLog, table>>
           /\ stage' = stage \/ (stage = "fetch" /\ stage' = "packet")
           /\ stage' = "packet" =>
                  stage = "packet" \/ \A i \in DOMAIN hits : phase'[i] = "taken"
           /\ stage = "packet" => UNCHANGED phase
           /\ \A i \in DOMAIN hits :
                  phase'[i] = "taken" => phase[i] = "taken" /\ page'[i] = page[i]
<1> DEFINE Quiet ==
        /\ UNCHANGED <<run, querySuccess, sourceFailures, candidates, hits,
                       sources, status, queryLog, table>>
        /\ stage' = stage \/ (stage = "fetch" /\ stage' = "packet")
        /\ stage' = "packet" =>
               stage = "packet" \/ \A i \in DOMAIN hits : phase'[i] = "taken"
        /\ stage = "packet" => UNCHANGED phase
        /\ \A i \in DOMAIN hits :
               phase'[i] = "taken" => phase[i] = "taken" /\ page'[i] = page[i]
<1>1. CASE Gather
  <2>1. \A i \in DOMAIN hits : phase[i] = "taken"
    BY <1>1, PoolTypes DEF Gather, In
  <2>2. QED
    BY <1>1, <2>1 DEF Gather, localVars
<1>2. CASE UNCHANGED vars
  BY <1>2 DEF vars, localVars
<1>3. ASSUME NEW i \in DOMAIN phase,
             BeginFetch(i) \/ FetchSucceeds(i) \/ FetchFails(i)
      PROVE  Quiet
  <2>1. /\ UNCHANGED <<run, stage, querySuccess, sourceFailures,
                       candidates, hits, sources, status, queryLog, table>>
        /\ stage = "fetch"
    BY <1>3 DEF BeginFetch, FetchSucceeds, FetchFails, EndFetch
  <2>2. ASSUME NEW j \in DOMAIN hits, phase'[j] = "taken"
        PROVE  phase[j] = "taken" /\ page'[j] = page[j]
    BY <1>3, <2>2, PoolTypes
       DEF BeginFetch, FetchSucceeds, FetchFails, EndFetch, In, TypeOK
  <2>3. QED
    BY <2>1, <2>2
<1>4. QED
  BY <1>1, <1>2, <1>3

\* The end of a process, whatever it has recorded.
LEMMA EndEffect ==
    ASSUME Inv, Finish \/ Die
    PROVE  /\ stage' = "idle" /\ sources' = <<>> /\ queryLog' = <<>>
           /\ run' = run
           /\ \A r \in Runs : r > run => status'[r] = status[r]
<1>1. run \in Nat /\ \A r \in Runs : r > run => r # run
  BY ConstantTypes DEF Inv, TypeOK
<1>2. status' = status \/ \E outcome : status' = [status EXCEPT ![run] = outcome]
  BY DEF Finish, Die
<1>3. \A r \in Runs : r > run => status'[r] = status[r]
  BY <1>1, <1>2 DEF Inv, TypeOK
<1>4. QED
  BY <1>3 DEF Finish, Die, End

\* What the empty lists of a process that ended hold: nothing.
LEMMA EmptyLists ==
    /\ ToSet(<<>>) = {}
    /\ DOMAIN <<>> = {} /\ Len(<<>>) = 0
BY DEF ToSet

\* Every step keeps what is known of the runs and of the sources' hits.
LEMMA PresentStep == Inv /\ [Next]_vars => Present'
<1> SUFFICES ASSUME Inv, [Next]_vars PROVE Present'
  OBVIOUS
<1> USE ConstantTypes
<1>a. TypeOK /\ Present
  BY DEF Inv
<1>1. CASE StartRun
  <2>1. /\ stage = "idle" /\ stage' = "search"
        /\ run < MaxRuns /\ run' = run + 1
        /\ status' = [status EXCEPT ![run + 1] = "running"]
        /\ UNCHANGED <<sources, hits>>
    BY <1>1 DEF StartRun
  <2>2. run \in Nat /\ run' \in Runs
    BY <1>a, <2>1 DEF TypeOK
  <2>3. \A r \in Runs : r > run' => r > run /\ status'[r] = status[r]
    BY <1>a, <2>1, <2>2 DEF TypeOK
  <2>4. status'[run'] = "running"
    BY <1>a, <2>1, <2>2 DEF TypeOK
  <2>5. QED
    BY <1>a, <2>1, <2>2, <2>3, <2>4, EmptyLists DEF Present
<1>2. CASE SearchSucceeds \/ SearchFails
  BY <1>a, <1>2 DEF SearchSucceeds, SearchFails, Query, Present
<1>3. CASE SubmitFetches
  <2>1. /\ stage = "search" /\ stage' = "fetch"
        /\ UNCHANGED <<run, sources, status>>
    BY <1>3 DEF SubmitFetches
  <2>2. ToSet(sources)' = {}
    BY <1>a, <2>1, EmptyLists DEF Present
  <2>3. QED
    BY <1>a, <2>1, <2>2 DEF Present
<1>4. ASSUME NEW i \in DOMAIN phase, NEW tag \in Relevances \cup {NoTag},
             Take(i, tag)
      PROVE  Present'
  <2> DEFINE new == [hit |-> i, page |-> page[i],
                     history |-> HistoryStatus(page[i]), relevance |-> tag]
  <2>1. /\ stage = "fetch" /\ UNCHANGED <<run, stage, hits, status>>
        /\ \/ ToSet(sources)' = ToSet(sources)
           \/ ToSet(sources)' = ToSet(sources) \cup {new}
    BY <1>4, TakeEffect
  <2>2. new.hit \in DOMAIN hits
    BY <1>a, PoolTypes
  <2> HIDE DEF new
  <2>3. \A s \in ToSet(sources)' : s.hit \in DOMAIN hits
    BY <1>a, <2>1, <2>2 DEF Present
  <2>4. QED
    BY <1>a, <2>1, <2>3 DEF Present
<1>5. CASE \/ Gather \/ UNCHANGED vars
           \/ \E i \in DOMAIN phase :
                  BeginFetch(i) \/ FetchSucceeds(i) \/ FetchFails(i)
  BY <1>a, <1>5, QuietStep DEF Present
<1>6. CASE Finish \/ Die
  BY <1>a, <1>6, EndEffect, EmptyLists DEF Present
<1>7. QED
  BY <1>1, <1>2, <1>3, <1>4, <1>5, <1>6
     DEF Next, TakeTagged, TakeAsTaggerFails, TakeUntagged

\* Every step keeps a failed query held against its lane: no later answer
\* for the lane forgives it.
LEMMA AskedStep == Inv /\ [Next]_vars => Asked'
<1> SUFFICES ASSUME Inv, [Next]_vars PROVE Asked'
  OBVIOUS
<1> USE ConstantTypes
<1>a. TypeOK /\ Asked
  BY DEF Inv
<1>1. ASSUME NEW result \in {"ok", "error"}, NEW found, Query(result, found)
      PROVE  Asked'
  <2>1. /\ Len(queryLog) \in Nat /\ DOMAIN queryLog = 1 .. Len(queryLog)
        /\ Len(queryLog) < Len(Queries)
        /\ queryLog' = Append(queryLog, result)
        /\ querySuccess' = QuerySuccess(result)
    BY <1>a, <1>1, LenProperties DEF Query, TypeOK
  <2>2. /\ Len(queryLog') = Len(queryLog) + 1
        /\ DOMAIN queryLog' = 1 .. Len(queryLog) + 1
        /\ \A q \in 1 .. Len(queryLog) : queryLog'[q] = queryLog[q]
        /\ queryLog'[Len(queryLog) + 1] = result
    BY <1>a, <2>1, AppendProperties, LenProperties DEF TypeOK
  <2>3. Asking = Queries[Len(queryLog) + 1] /\ Asking \in Lanes
    BY <2>1 DEF Asking
  <2>4. \A l \in Lanes : ~querySuccess[l] => ~querySuccess'[l]
    BY <1>a, <2>1 DEF QuerySuccess, TypeOK
  <2>5. result # "ok" => ~querySuccess'[Asking]
    BY <1>a, <2>1, <2>3 DEF QuerySuccess, TypeOK
  <2>6. ASSUME NEW q \in DOMAIN queryLog', queryLog'[q] # "ok"
        PROVE  ~querySuccess'[Queries[q]]
    <3>1. CASE q \in 1 .. Len(queryLog)
      <4>1. ~querySuccess[Queries[q]] /\ Queries[q] \in Lanes
        BY <1>a, <2>1, <2>2, <2>6, <3>1 DEF Asked
      <4>2. QED
        BY <2>4, <4>1
    <3>2. CASE q = Len(queryLog) + 1
      BY <2>2, <2>3, <2>5, <2>6, <3>2
    <3>3. QED
      BY <2>1, <2>2, <3>1, <3>2
  <2>7. QED
    BY <2>1, <2>2, <2>6 DEF Asked
<1>2. CASE SearchSucceeds \/ SearchFails
  BY <1>1, <1>2 DEF SearchSucceeds, SearchFails
<1>3. CASE StartRun \/ SubmitFetches
  BY <1>a, <1>3 DEF StartRun, SubmitFetches, Asked
<1>4. ASSUME NEW i \in DOMAIN phase, NEW tag \in Relevances \cup {NoTag},
             Take(i, tag)
      PROVE  Asked'
  BY <1>a, <1>4, TakeEffect DEF Asked
<1>5. CASE \/ Gather \/ UNCHANGED vars
           \/ \E i \in DOMAIN phase :
                  BeginFetch(i) \/ FetchSucceeds(i) \/ FetchFails(i)
  BY <1>a, <1>5, QuietStep DEF Asked
<1>6. CASE Finish \/ Die
  BY <1>6, EndEffect, EmptyLists DEF Asked
<1>7. QED
  BY <1>2, <1>3, <1>4, <1>5, <1>6
     DEF Next, TakeTagged, TakeAsTaggerFails, TakeUntagged

\* Every step keeps each candidate accounted for, in the pool as in the
\* results taken from it.
LEMMA GatheredStep == Inv /\ [Next]_vars => Gathered'
<1> SUFFICES ASSUME Inv, [Next]_vars PROVE Gathered'
  OBVIOUS
<1> USE ConstantTypes
<1>a. TypeOK /\ Present /\ Gathered
  BY DEF Inv
<1>1. CASE StartRun \/ SearchSucceeds \/ SearchFails
  BY <1>1 DEF StartRun, SearchSucceeds, SearchFails, Query, Gathered
<1>2. CASE SubmitFetches
  <2>1. /\ stage' = "fetch" /\ candidates' = candidates
        /\ hits' = Deduplicated /\ sourceFailures' = UnsafeLanes
        /\ phase' = [i \in DOMAIN hits' |-> "waiting"]
    BY <1>2 DEF SubmitFetches
  <2>2. ASSUME NEW c \in ToSet(candidates), c.url \notin Urls
        PROVE  c.lane \in UnsafeLanes
    <3>1. PICK k \in DOMAIN candidates : c = candidates[k]
      BY DEF ToSet
    <3>2. candidates[k] \in Hit
      BY <1>a, LenProperties, ElementOfSeq DEF TypeOK
    <3>3. c.url \in UnsafeUrls
      BY <2>2, <3>1, <3>2 DEF Hit
    <3>4. QED
      BY <3>1, <3>3 DEF UnsafeLanes
  <2>3. ASSUME NEW c \in ToSet(candidates), c.url \in Urls
        PROVE  \E i \in DOMAIN Deduplicated : Deduplicated[i].url = c.url
    <3> DEFINE key == [h \in SafeHit |-> h.url]
               K == KeepFirst(candidates, key)
    <3>1. PICK k \in DOMAIN candidates : c = candidates[k]
      BY DEF ToSet
    <3>2. /\ candidates[k] \in Hit
          /\ k \in 1 .. Len(candidates)
      BY <1>a, LenProperties, ElementOfSeq DEF TypeOK
    <3>3. c \in SafeHit
      BY <2>3, <3>1, <3>2 DEF Hit, SafeHit
    <3>4. DOMAIN key = SafeHit /\ \A h \in SafeHit : key[h] = h.url
      OBVIOUS
    <3> HIDE DEF key
    <3>5. /\ K \in Seq(Hit \cap SafeHit)
          /\ Firsts(K, candidates, Len(candidates), key)
      BY <1>a, <3>4, KeepFirstKeepsFirsts DEF TypeOK
    <3>6. PICK i \in DOMAIN K : key[K[i]] = key[c]
      BY <3>1, <3>2, <3>3, <3>4, <3>5 DEF Firsts
    <3>7. K[i] \in SafeHit
      BY <3>5, <3>6, LenProperties, ElementOfSeq
    <3>8. K = Deduplicated
      BY DEF Deduplicated, key
    <3>9. QED
      BY <3>3, <3>4, <3>6, <3>7, <3>8
  <2>4. QED
    BY <2>1, <2>2, <2>3 DEF Gathered
<1>3. ASSUME NEW i \in DOMAIN phase, NEW tag \in Relevances \cup {NoTag},
             Take(i, tag)
      PROVE  Gathered'
  <2>1. /\ stage = "fetch" /\ run \in Runs
        /\ phase' = [phase EXCEPT ![i] = "taken"]
        /\ UNCHANGED <<run, stage, candidates, hits, page>>
        /\ sourceFailures \subseteq sourceFailures'
        /\ \A u \in Urls : table[run][u] # NoHash => table'[run][u] # NoHash
        /\ Settled(i)'
        /\ ToSet(sources) \subseteq ToSet(sources)'
    BY <1>3, TakeEffect
  <2>2. ASSUME NEW j \in DOMAIN hits, phase'[j] = "taken" PROVE Settled(j)'
    <3>1. CASE j = i
      BY <2>1, <3>1
    <3>2. CASE j # i
      <4>1. phase[j] = "taken"
        BY <1>a, <2>1, <2>2, <3>2 DEF TypeOK
      <4>2. Settled(j)
        BY <1>a, <2>1, <4>1 DEF Gathered
      <4>3. page[j] # NoPage => page[j].url \in Urls
        BY <1>a DEF TypeOK, Page
      <4>4. QED
        BY <2>1, <4>2, <4>3 DEF Settled
    <3>3. QED
      BY <3>1, <3>2
  <2>3. QED
    BY <1>a, <2>1, <2>2 DEF Gathered
<1>4. CASE \/ Gather \/ UNCHANGED vars
           \/ \E i \in DOMAIN phase :
                  BeginFetch(i) \/ FetchSucceeds(i) \/ FetchFails(i)
  <2>1. /\ UNCHANGED <<run, sourceFailures, candidates, hits, sources, table>>
        /\ stage' = stage \/ (stage = "fetch" /\ stage' = "packet")
        /\ stage' = "packet" =>
               stage = "packet" \/ \A i \in DOMAIN hits : phase'[i] = "taken"
        /\ stage = "packet" => UNCHANGED phase
        /\ \A i \in DOMAIN hits :
               phase'[i] = "taken" => phase[i] = "taken" /\ page'[i] = page[i]
    BY <1>a, <1>4, QuietStep
  <2>2. QED
    BY <1>a, <2>1 DEF Gathered, Settled
<1>5. CASE Finish \/ Die
  BY <1>5, EndEffect DEF Gathered
<1>6. QED
  BY <1>1, <1>2, <1>3, <1>4, <1>5
     DEF Next, TakeTagged, TakeAsTaggerFails, TakeUntagged

\* What prior_source_hash answers comes from a complete run before this one.
LEMMA PriorHash ==
    ASSUME TypeOK, Present, run \in Runs, status[run] = "running",
           NEW u \in Urls
    PROVE  LET known == {r \in 1 .. run - 1 :
                             status[r] = "complete" /\ table[r][u] # NoHash}
           IN  \/ known = {} /\ PriorSourceHash(u) = NoHash
               \/ /\ PriorSourceHash(u) # NoHash
                  /\ \E r \in known : /\ \A q \in known : q <= r
                                      /\ table[r][u] = PriorSourceHash(u)
<1> DEFINE known == {r \in 1 .. run - 1 :
                         status[r] = "complete" /\ table[r][u] # NoHash}
<1>1. MaxRuns \in Nat /\ run \in Nat /\ Runs = 1 .. MaxRuns
  BY ConstantTypes
<1>2. EarlierRunsWith(u) = known
  <2>1. ASSUME NEW r \in EarlierRunsWith(u) PROVE r \in known
    <3>1. r \in Runs \ {run} /\ status[r] = "complete" /\ table[r][u] # NoHash
      BY <2>1 DEF EarlierRunsWith
    <3>2. ~(r > run)
      BY <3>1 DEF Present
    <3>3. QED
      BY <1>1, <3>1, <3>2
  <2>2. ASSUME NEW r \in known PROVE r \in EarlierRunsWith(u)
    BY <1>1, <2>2 DEF EarlierRunsWith
  <2>3. QED
    BY <2>1, <2>2
<1>3. CASE known = {}
  BY <1>2, <1>3 DEF PriorSourceHash
<1>4. CASE known # {}
  <2>1. Max(known) \in known /\ \A q \in known : q <= Max(known)
    <3>1. known \in SUBSET (0 .. MaxRuns)
      BY <1>1
    <3> HIDE DEF known
    <3>2. QED
      BY <1>1, <1>4, <3>1, MaxOfSet
  <2>2. PriorSourceHash(u) = table[Max(known)][u]
    BY <1>2, <1>4 DEF PriorSourceHash
  <2>3. table[Max(known)][u] # NoHash
    BY <2>1
  <2>4. QED
    BY <1>4, <2>1, <2>2, <2>3
<1>5. QED
  BY <1>3, <1>4

\* What is said of the history of one source, as HistoryIsOfCompleteRuns has it.
Told(s) ==
    LET known == {r \in 1 .. run - 1 :
                      /\ status[r] = "complete"
                      /\ table[r][s.page.url] # NoHash}
    IN  \/ known = {} /\ s.history = "new"
        \/ \E r \in known :
               /\ \A q \in known : q <= r
               /\ s.history = IF table[r][s.page.url] = s.page.hash
                              THEN "unchanged" ELSE "changed"

\* Every step keeps what the sources say of history: a source is compared
\* when it is taken, and no row of a complete run changes after.
LEMMA HistoryStep == Inv /\ [Next]_vars => HistoryIsOfCompleteRuns'
<1> SUFFICES ASSUME Inv, [Next]_vars PROVE HistoryIsOfCompleteRuns'
  OBVIOUS
<1>a. TypeOK /\ Present /\ HistoryIsOfCompleteRuns
  BY DEF Inv
<1>b. HistoryIsOfCompleteRuns <=> \A s \in ToSet(sources) : Told(s)
  BY DEF HistoryIsOfCompleteRuns, Told
<1>c. HistoryIsOfCompleteRuns' <=> \A s \in ToSet(sources)' : Told(s)'
  BY DEF HistoryIsOfCompleteRuns, Told
<1>1. CASE StartRun \/ SearchSucceeds \/ SearchFails \/ SubmitFetches
  <2>1. sources' = <<>>
    BY <1>a, <1>1 DEF StartRun, SearchSucceeds, SearchFails, Query,
       SubmitFetches, Present
  <2>2. QED
    BY <1>c, <2>1, EmptyLists
<1>2. ASSUME NEW i \in DOMAIN phase, NEW tag \in Relevances \cup {NoTag},
             Take(i, tag)
      PROVE  HistoryIsOfCompleteRuns'
  <2> DEFINE new == [hit |-> i, page |-> page[i],
                     history |-> HistoryStatus(page[i]), relevance |-> tag]
  <2>1. /\ run \in Runs /\ status[run] = "running"
        /\ UNCHANGED <<run, status>>
        /\ \A r \in Runs \ {run} : table'[r] = table[r]
        /\ \/ ToSet(sources)' = ToSet(sources)
           \/ page[i] # NoPage /\ ToSet(sources)' = ToSet(sources) \cup {new}
    BY <1>2, TakeEffect
  <2>2. \A r \in 1 .. run - 1 : table'[r] = table[r]
    BY <2>1, ConstantTypes
  <2>3. ASSUME NEW s, Told(s) PROVE Told(s)'
    BY <2>1, <2>2, <2>3 DEF Told
  <2>4. ASSUME page[i] # NoPage PROVE Told(new)
    <3> DEFINE u == page[i].url
               known == {r \in 1 .. run - 1 :
                             status[r] = "complete" /\ table[r][u] # NoHash}
    <3>1. u \in Urls
      BY <1>a, <2>4, NewSource
    <3>2. \/ known = {} /\ PriorSourceHash(u) = NoHash
          \/ /\ PriorSourceHash(u) # NoHash
             /\ \E r \in known : /\ \A q \in known : q <= r
                                 /\ table[r][u] = PriorSourceHash(u)
      BY <1>a, <2>1, <3>1, PriorHash
    <3>3. /\ new.page = page[i]
          /\ new.history =
                 IF PriorSourceHash(u) = NoHash THEN "new"
                 ELSE IF PriorSourceHash(u) = page[i].hash THEN "unchanged"
                 ELSE "changed"
      BY DEF HistoryStatus
    <3>4. known = {r \in 1 .. run - 1 :
                       /\ status[r] = "complete"
                       /\ table[r][new.page.url] # NoHash}
      OBVIOUS
    <3> HIDE DEF new, known
    <3>5. \/ known = {} /\ new.history = "new"
          \/ \E r \in known :
                 /\ \A q \in known : q <= r
                 /\ new.history = IF table[r][new.page.url] = new.page.hash
                                  THEN "unchanged" ELSE "changed"
      BY <3>2, <3>3
    <3>6. QED
      BY <3>4, <3>5 DEF Told
  <2>5. ASSUME NEW s \in ToSet(sources)' PROVE Told(s)'
    <3>1. CASE s \in ToSet(sources)
      BY <1>a, <1>b, <2>3, <3>1
    <3>2. CASE page[i] # NoPage /\ s = new
      <4>1. Told(s)
        BY <2>4, <3>2
      <4>2. QED
        BY <2>3, <4>1
    <3> HIDE DEF new
    <3>3. QED
      BY <2>1, <3>1, <3>2
  <2>6. QED
    BY <1>c, <2>5
<1>3. CASE \/ Gather \/ UNCHANGED vars
           \/ \E i \in DOMAIN phase :
                  BeginFetch(i) \/ FetchSucceeds(i) \/ FetchFails(i)
  <2>1. UNCHANGED <<run, sources, status, table>>
    BY <1>a, <1>3, QuietStep
  <2>2. QED
    BY <1>a, <2>1 DEF HistoryIsOfCompleteRuns
<1>4. CASE Finish \/ Die
  BY <1>4, <1>c, EndEffect, EmptyLists
<1>5. QED
  BY <1>1, <1>2, <1>3, <1>4
     DEF Next, TakeTagged, TakeAsTaggerFails, TakeUntagged

\* Inv holds in every behaviour.
LEMMA Invariance == Spec => []Inv
<1>1. Inv /\ [Next]_vars => Inv'
  BY TypeStep, PresentStep, AskedStep, GatheredStep, HistoryStep DEF Inv
<1>2. QED
  BY InvInit, <1>1, PTL DEF Spec

-----------------------------------------------------------------------------
(* The list of the evidence.                                                 *)

\* Precedes is the order of one list of all sources.
LEMMA SourcesAreOrdered ==
    ASSUME Inv
    PROVE  LET n == Len(sources)
               R == {e \in (1 .. n) \X (1 .. n) : Precedes(e[1], e[2])}
           IN  n \in Nat /\ DOMAIN sources = 1 .. n /\ StrictOrder(R, 1 .. n)
<1> DEFINE n == Len(sources)
           R == {e \in (1 .. n) \X (1 .. n) : Precedes(e[1], e[2])}
<1>1. n \in Nat /\ DOMAIN sources = 1 .. n
  BY LenProperties DEF Inv, TypeOK
<1>2. ASSUME NEW i \in 1 .. n PROVE SourcePriority(sources[i]) \in Nat
  <2>1. sources[i] \in Source
    BY <1>1, ElementOfSeq DEF Inv, TypeOK
  <2>2. sources[i].hit \in DOMAIN hits
    BY <1>1 DEF Inv, Present, ToSet
  <2>3. LaneOf(sources[i]) \in Nat
    BY <2>2, PoolTypes, ConstantTypes DEF Inv, LaneOf, SafeHit
  <2>4. /\ HistoryPriority[sources[i].history] \in Nat
        /\ RelevancePriority[sources[i].relevance] \in Nat
    BY <2>1 DEF Source, Histories, Relevances, NoTag, HistoryPriority,
       RelevancePriority
  <2> DEFINE lane == LaneOf(sources[i])
             old == HistoryPriority[sources[i].history]
             tag == RelevancePriority[sources[i].relevance]
             primary == IF <<lane, sources[i].page.url>> \in Primary
                        THEN 0 ELSE 1
  <2>5. SourcePriority(sources[i]) =
            (((primary * 3) + old) * 3 + tag) * (NumLanes + 1) + lane
    BY DEF SourcePriority
  <2>6. lane \in Nat /\ old \in Nat /\ tag \in Nat /\ primary \in Nat
    BY <2>3, <2>4
  <2> HIDE DEF lane, old, tag, primary
  <2>7. ((primary * 3) + old) * 3 + tag \in Nat /\ NumLanes + 1 \in Nat
    BY <2>6, ConstantTypes
  <2> DEFINE high == ((primary * 3) + old) * 3 + tag
             base == NumLanes + 1
  <2>8. high \in Nat /\ base \in Nat
        /\ SourcePriority(sources[i]) = high * base + lane
    BY <2>5, <2>7
  <2> HIDE DEF high, base
  <2>9. QED
    BY <2>6, <2>8
<1> DEFINE prio == [i \in 1 .. n |-> SourcePriority(sources[i])]
<1>3. \A i \in 1 .. n : prio[i] \in Nat
  BY <1>2
<1>4. \A i, j \in 1 .. n :
          <<i, j>> \in R <=> (prio[i] < prio[j] \/ (prio[i] = prio[j] /\ i < j))
  BY DEF Precedes
<1> HIDE DEF prio, R
<1>5. StrictOrder(R, 1 .. n)
  <2>1. \A i \in 1 .. n : <<i, i>> \notin R
    BY <1>1, <1>3, <1>4
  <2>2. \A i, j, k \in 1 .. n :
            <<i, j>> \in R /\ <<j, k>> \in R => <<i, k>> \in R
    BY <1>1, <1>3, <1>4
  <2>3. ASSUME NEW i \in 1 .. n, NEW j \in 1 .. n, i # j
        PROVE  <<i, j>> \in R \/ <<j, i>> \in R
    <3>1. /\ prio[i] \in Nat /\ prio[j] \in Nat /\ i \in Nat /\ j \in Nat
      BY <1>1, <1>3
    <3>2. \/ prio[i] < prio[j] \/ prio[j] < prio[i]
          \/ prio[i] = prio[j] /\ (i < j \/ j < i)
      BY <2>3, <3>1
    <3>3. QED
      BY <1>4, <3>2
  <2>4. QED
    BY <2>1, <2>2, <2>3 DEF StrictOrder
<1>6. QED
  BY <1>1, <1>5 DEF R

\* The list sources.sort makes has every source, in order.
LEMMA SortedSources ==
    ASSUME Inv
    PROVE  LET n == Len(sources)
               list == InOrder(DOMAIN sources)
           IN  /\ n \in Nat /\ DOMAIN sources = 1 .. n
               /\ list \in [1 .. n -> 1 .. n]
               /\ \A i, j \in 1 .. n : i < j => Precedes(list[i], list[j])
               /\ \A k \in 1 .. n : \E i \in 1 .. n : list[i] = k
<1> DEFINE n == Len(sources)
           list == InOrder(DOMAIN sources)
           R == {e \in (1 .. n) \X (1 .. n) : Precedes(e[1], e[2])}
<1>1. n \in Nat /\ DOMAIN sources = 1 .. n /\ StrictOrder(R, 1 .. n)
  BY SourcesAreOrdered
<1>2. \A i, j \in 1 .. n : <<i, j>> \in R <=> Precedes(i, j)
  OBVIOUS
<1> HIDE DEF n, R
<1>3. Cardinality(1 .. n) = n
  <2>1. 1 \in Int /\ n \in Int
    BY <1>1
  <2>2. Cardinality(1 .. n) = IF 1 > n THEN 0 ELSE n - 1 + 1
    BY <2>1, FS_Interval, Zenon
  <2>3. QED
    BY <1>1, <2>2
<1>4. PICK p \in [1 .. n -> 1 .. n] :
          \A i, j \in 1 .. n : i < j => <<p[i], p[j]>> \in R
  BY <1>1, SortedListExists
<1>5. \A i, j \in DOMAIN p : i < j => Precedes(p[i], p[j])
  BY <1>2, <1>4
<1>6. InOrder(1 .. n) = CHOOSE q \in [1 .. n -> 1 .. n] :
          \A i, j \in DOMAIN q : i < j => Precedes(q[i], q[j])
  BY <1>3 DEF InOrder
<1>7. /\ list \in [1 .. n -> 1 .. n]
      /\ \A i, j \in DOMAIN list : i < j => Precedes(list[i], list[j])
  BY <1>1, <1>5, <1>6
<1>8. \A i, j \in 1 .. n : i < j => <<list[i], list[j]>> \in R
  BY <1>2, <1>7
<1> HIDE DEF list
<1>9. \A k \in 1 .. n : \E i \in 1 .. n : list[i] = k
  <2>1. n \in Nat /\ StrictOrder(R, 1 .. n)
    BY <1>1
  <2>2. list \in [1 .. n -> 1 .. n]
    BY <1>7
  <2>3. QED
    BY <1>8, <2>1, <2>2, SortedListHasAll, Zenon
<1>10. QED
  BY <1>1, <1>7, <1>9 DEF list, n

\* What _deduplicate_evidence leaves of the sorted list: it is in order, has
\* one source of each text, and no source of that text goes before it.
LEMMA EvidenceOfSources ==
    ASSUME Inv
    PROVE  /\ \A i \in DOMAIN Evidence : Evidence[i] \in DOMAIN sources
           /\ \A i, j \in DOMAIN Evidence :
                  i < j => Precedes(Evidence[i], Evidence[j])
           /\ \A i, j \in DOMAIN Evidence :
                  HashOf(Evidence[i]) = HashOf(Evidence[j]) => i = j
           /\ \A k \in DOMAIN sources : \E i \in DOMAIN Evidence :
                  /\ HashOf(Evidence[i]) = HashOf(k)
                  /\ k = Evidence[i] \/ Precedes(Evidence[i], k)
<1> DEFINE n == Len(sources)
           list == InOrder(DOMAIN sources)
           K == Evidence
<1>1. /\ n \in Nat /\ DOMAIN sources = 1 .. n
      /\ list \in [1 .. n -> 1 .. n]
      /\ \A i, j \in 1 .. n : i < j => Precedes(list[i], list[j])
      /\ \A k \in 1 .. n : \E i \in 1 .. n : list[i] = k
  BY SortedSources
<1>2. K = KeepFirst(list, Hash)
  BY DEF Evidence
<1>3. DOMAIN Hash = 1 .. n /\ \A k \in 1 .. n : Hash[k] = HashOf(k)
  BY <1>1 DEF Hash
<1> HIDE DEF n, list, K
<1>4. list \in Seq(1 .. n) /\ Len(list) = n
  <2>1. list \in Seq(1 .. n) /\ DOMAIN list = 1 .. n
    <3>1. n \in Nat /\ list \in [1 .. n -> 1 .. n]
      BY <1>1
    <3>2. list \in Seq(1 .. n)
      BY <3>1, SeqDef
    <3>3. QED
      BY <3>1, <3>2
  <2>2. DOMAIN list = 1 .. Len(list) /\ Len(list) \in Nat
    BY <2>1, LenProperties
  <2>3. QED
    BY <1>1, <2>1, <2>2
<1>5. K \in Seq(1 .. n) /\ Firsts(K, list, n, Hash)
  <2>1. /\ K \in Seq((1 .. n) \cap DOMAIN Hash)
        /\ Firsts(K, list, n, Hash)
    BY <1>2, <1>4, KeepFirstKeepsFirsts
  <2>2. (1 .. n) \cap DOMAIN Hash = 1 .. n
    BY <1>3
  <2>3. QED
    BY <2>1, <2>2
<1>6. \A i \in DOMAIN K : K[i] \in 1 .. n
  BY <1>5, LenProperties, ElementOfSeq
<1>7. PICK at \in [DOMAIN K -> 1 .. n] :
          /\ \A i, j \in DOMAIN K : i < j => at[i] < at[j]
          /\ \A i \in DOMAIN K : K[i] = list[at[i]]
          /\ \A m \in 1 .. n : list[m] \in DOMAIN Hash =>
                 \E i \in DOMAIN K : at[i] <= m /\ Hash[K[i]] = Hash[list[m]]
  BY <1>5 DEF Firsts
<1>8. \A i, j \in DOMAIN K : i < j => Precedes(K[i], K[j])
  BY <1>1, <1>7
<1>9. \A i, j \in DOMAIN K : HashOf(K[i]) = HashOf(K[j]) => i = j
  BY <1>3, <1>5, <1>6 DEF Firsts
<1>10. ASSUME NEW k \in 1 .. n
       PROVE  \E i \in DOMAIN K : /\ HashOf(K[i]) = HashOf(k)
                                  /\ k = K[i] \/ Precedes(K[i], k)
  <2>1. PICK m \in 1 .. n : list[m] = k
    BY <1>1
  <2>2. PICK i \in DOMAIN K : at[i] <= m /\ Hash[K[i]] = Hash[list[m]]
    BY <1>3, <1>7, <2>1
  <2>3. HashOf(K[i]) = HashOf(k)
    BY <1>3, <1>6, <2>1, <2>2
  <2>4. at[i] \in 1 .. n /\ K[i] = list[at[i]]
    BY <1>7
  <2>5. at[i] = m \/ at[i] < m
    BY <1>1, <2>2, <2>4
  <2>6. k = K[i] \/ Precedes(K[i], k)
    BY <1>1, <2>1, <2>4, <2>5
  <2>7. QED
    BY <2>3, <2>6
<1>11. QED
  BY <1>1, <1>6, <1>8, <1>9, <1>10 DEF K

-----------------------------------------------------------------------------
(* The theorems.                                                             *)

\* The packet, once every result is taken.
LEMMA PacketIsSettled ==
    ASSUME Inv, stage = "packet"
    PROVE  \A i \in DOMAIN hits : Settled(i)
BY DEF Inv, Gathered

\* In every behaviour every variable holds values of its type: no URL that
\* canonicalize_url refuses is fetched, and never more at once than the pool
\* has workers.
THEOREM TypeCorrect == Spec => []TypeOK
<1>1. Inv => TypeOK
  BY DEF Inv
<1>2. QED
  BY Invariance, <1>1, PTL

\* In every behaviour what is said of a source is said against the latest
\* complete run that has its URL.
THEOREM HistoryTrue == Spec => []HistoryIsOfCompleteRuns
<1>1. Inv => HistoryIsOfCompleteRuns
  BY DEF Inv
<1>2. QED
  BY Invariance, <1>1, PTL

\* In every behaviour, coverage is complete only when no query failed and every
\* URL found gave a source.
THEOREM CoverageTrue == Spec => []CoverageHonest
<1>1. Inv => CoverageHonest
  <2> SUFFICES ASSUME Inv, stage = "packet", CoverageComplete
               PROVE  /\ \A q \in DOMAIN queryLog : queryLog[q] = "ok"
                      /\ \A c \in ToSet(candidates) :
                             \E s \in ToSet(sources) : hits[s.hit].url = c.url
    BY DEF CoverageHonest
  <2>1. (\A l \in Lanes : querySuccess[l]) /\ sourceFailures = {}
    BY DEF CoverageComplete
  <2>2. ASSUME NEW q \in DOMAIN queryLog PROVE queryLog[q] = "ok"
    <3>1. q \in 1 .. Len(queryLog) /\ Len(queryLog) \in Nat
      BY LenProperties DEF Inv, TypeOK
    <3>2. q \in 1 .. Len(Queries)
      BY <3>1, ConstantTypes DEF Inv, Asked
    <3>3. Queries[q] \in Lanes
      BY <3>2, ConstantTypes
    <3>4. QED
      BY <2>1, <3>3 DEF Inv, Asked
  <2>3. ASSUME NEW c \in ToSet(candidates)
        PROVE  \E s \in ToSet(sources) : hits[s.hit].url = c.url
    <3>1. PICK i \in DOMAIN hits : hits[i].url = c.url
      BY <2>1 DEF Inv, Gathered
    <3>2. Settled(i)
      BY PacketIsSettled
    <3>3. PICK s \in ToSet(sources) : s.hit = i
      BY <2>1, <3>2 DEF Settled
    <3>4. QED
      BY <3>1, <3>3
  <2>4. QED
    BY <2>2, <2>3
<1>2. QED
  BY Invariance, <1>1, PTL

\* In every behaviour every page that was fetched is a source with a row, and
\* its text is in the packet, whatever the Hailo worker made of it.
THEOREM NothingDiscarded == Spec => []TagsDiscardNothing
<1>1. Inv => TagsDiscardNothing
  <2> SUFFICES ASSUME Inv, stage = "packet",
                      NEW i \in DOMAIN hits, page[i] # NoPage
               PROVE  /\ \E s \in ToSet(sources) : s.hit = i
                      /\ table[run][page[i].url] # NoHash
                      /\ \E e \in ToSet(Evidence) : HashOf(e) = page[i].hash
    BY DEF TagsDiscardNothing
  <2>1. /\ table[run][page[i].url] # NoHash
        /\ \E s \in ToSet(sources) : s.hit = i /\ s.page = page[i]
    BY PacketIsSettled DEF Settled
  <2>2. PICK k \in DOMAIN sources :
            sources[k].hit = i /\ sources[k].page = page[i]
    BY <2>1 DEF ToSet
  <2>3. HashOf(k) = page[i].hash
    BY <2>2 DEF HashOf
  <2>4. PICK j \in DOMAIN Evidence : HashOf(Evidence[j]) = HashOf(k)
    BY EvidenceOfSources
  <2>5. Evidence[j] \in ToSet(Evidence)
    BY DEF ToSet
  <2>6. QED
    BY <2>1, <2>3, <2>4, <2>5
<1>2. QED
  BY Invariance, <1>1, PTL

\* In every behaviour the packet is in order of priority, and of the sources
\* with one text it has the one of highest priority.
THEOREM EvidenceSorted == Spec => []EvidenceIsBest
<1>1. Inv => EvidenceIsBest
  <2> SUFFICES ASSUME Inv
               PROVE  /\ \A i, j \in DOMAIN Evidence :
                             i < j => Precedes(Evidence[i], Evidence[j])
                      /\ \A e \in ToSet(Evidence), i \in DOMAIN sources :
                             HashOf(i) = HashOf(e) => i = e \/ Precedes(e, i)
    BY DEF EvidenceIsBest
  <2>1. \A i, j \in DOMAIN Evidence :
            i < j => Precedes(Evidence[i], Evidence[j])
    BY EvidenceOfSources
  <2>2. ASSUME NEW e \in ToSet(Evidence), NEW i \in DOMAIN sources,
               HashOf(i) = HashOf(e)
        PROVE  i = e \/ Precedes(e, i)
    <3>1. PICK j \in DOMAIN Evidence : e = Evidence[j]
      BY DEF ToSet
    <3>2. PICK k \in DOMAIN Evidence :
              /\ HashOf(Evidence[k]) = HashOf(i)
              /\ i = Evidence[k] \/ Precedes(Evidence[k], i)
      BY EvidenceOfSources
    <3>3. HashOf(Evidence[k]) = HashOf(Evidence[j])
      BY <2>2, <3>1, <3>2
    <3>4. k = j
      BY <3>3, EvidenceOfSources
    <3>5. QED
      BY <3>1, <3>2, <3>4
  <2>3. QED
    BY <2>1, <2>2
<1>2. QED
  BY Invariance, <1>1, PTL

=============================================================================
