----------------------------- MODULE SourcesProofs -----------------------------
(***************************************************************************)
(* Proofs about the assignment of symbols to public routes and about the   *)
(* source group.                                                           *)
(***************************************************************************)
EXTENDS SourcesProperties, FiniteSetTheorems, WellFoundedInduction, TLAPS

(***************************************************************************)
(* Numbers and folds.                                                      *)
(***************************************************************************)

\* A non-empty set of naturals has a least element.
LEMMA LeastNumber ==
  ASSUME NEW T, T \subseteq Nat, T # {} PROVE \E x \in T : \A y \in T : x <= y
<1> DEFINE Less == OpToRel(<, Nat)
<1>1. IsWellFoundedOn(Less, Nat)
  BY NatLessThanWellFounded
<1>2. \A x, y \in Nat : x < y => <<x, y>> \in Less
  BY DEF OpToRel
<1> HIDE DEF Less
<1>3. PICK x \in T : \A y \in T : ~(<<y, x>> \in Less)
  BY <1>1, WFMin
<1>4. ASSUME NEW y \in T PROVE x <= y
  <2>1. x \in Nat /\ y \in Nat
    OBVIOUS
  <2>2. ~(y < x)
    BY <1>2, <1>3, <2>1
  <2> QED
    BY <2>1, <2>2
<1> QED
  BY <1>4

\* A finite one has a greatest.
LEMMA GreatestNumber ==
  ASSUME NEW S, S \subseteq Nat, IsFiniteSet(S), S # {}
  PROVE  \E m \in S : \A y \in S : y <= m
<1> DEFINE Above(m) == {y \in S : y > m}
           T == {Cardinality(Above(m)) : m \in S}
<1>1. ASSUME NEW m \in S PROVE IsFiniteSet(Above(m)) /\ Cardinality(Above(m)) \in Nat
  <2>1. Above(m) \in SUBSET S
    OBVIOUS
  <2> QED
    BY <2>1, FS_Subset, FS_CardinalityType
<1>2. T \subseteq Nat /\ T # {}
  BY <1>1
<1>3. PICK k \in T : \A l \in T : k <= l
  BY <1>2, LeastNumber
<1>4. PICK m \in S : k = Cardinality(Above(m))
  BY <1>3
<1>5. ASSUME NEW y \in S PROVE y <= m
  <2>1. SUFFICES ASSUME y > m PROVE FALSE
    OBVIOUS
  <2>2. y \in Nat /\ m \in Nat /\ \A z \in S : z \in Nat
    OBVIOUS
  <2>3. Above(y) \in SUBSET Above(m)
    <3>1. ASSUME NEW z \in Above(y) PROVE z \in Above(m)
      <4>1. z \in S /\ z > y /\ z \in Nat
        OBVIOUS
      <4> QED
        BY <2>1, <2>2, <4>1
    <3> HIDE DEF Above
    <3> QED
      BY <3>1
  <2>4. y \in Above(m) /\ y \notin Above(y)
    BY <2>1, <2>2
  <2> DEFINE p == Cardinality(Above(y))
             q == Cardinality(Above(m))
  <2>5. p \in Nat /\ q \in Nat /\ q <= p
    <3>1. p \in T
      OBVIOUS
    <3> QED
      BY <1>1, <1>3, <1>4, <3>1
  <2> HIDE DEF Above
  <2>6. p <= q /\ p # q
    BY <1>1, <2>3, <2>4, FS_Subset, Zenon
  <2> QED
    BY <2>5, <2>6
<1> QED
  BY <1>5

LEMMA MaxMinAre ==
  ASSUME NEW S, S \subseteq Nat, IsFiniteSet(S), S # {}
  PROVE  /\ Max(S) \in S /\ \A y \in S : y <= Max(S)
         /\ Min(S) \in S /\ \A y \in S : Min(S) <= y
<1>1. \E x \in S : \A y \in S : x >= y
  BY GreatestNumber
<1>2. \E x \in S : \A y \in S : x <= y
  BY LeastNumber
<1>3. Max(S) \in S /\ \A y \in S : Max(S) >= y
  BY <1>1 DEF Max
<1>4. Min(S) \in S /\ \A y \in S : Min(S) <= y
  BY <1>2 DEF Min
<1> QED
  BY <1>3, <1>4

\* The subsets of a set with at most k elements.
Smaller(C, k) == {s \in SUBSET C : Cardinality(s) <= k}

\* What a fold iterates: a value for each subset, from that of the subset
\* without the element that next names.
Folds(g, C, next, step, base) ==
  g = [s \in C |-> IF s = {} THEN base ELSE step[<<g[s \ {next[s]}], next[s]>>]]

\* Such a function exists, and its values are in the sets that the steps keep.
LEMMA FoldExists ==
  ASSUME NEW C, IsFiniteSet(C), NEW next, \A s \in SUBSET C : s # {} => next[s] \in s,
         NEW W, NEW step, NEW base, base \in W[{}],
         \A s \in SUBSET C : s # {} =>
           \A v \in W[s \ {next[s]}] : step[<<v, next[s]>>] \in W[s]
  PROVE  \E g : Folds(g, SUBSET C, next, step, base) /\ \A s \in SUBSET C : g[s] \in W[s]
<1> DEFINE Good(g, k) == /\ Folds(g, Smaller(C, k), next, step, base)
                         /\ \A s \in Smaller(C, k) : g[s] \in W[s]
           T == {k \in Nat : ~\E g : Good(g, k)}
           m == Cardinality(C)
<1>1. m \in Nat /\ Smaller(C, m) = SUBSET C
  BY FS_Subset, FS_CardinalityType DEF Smaller
<1>2. ASSUME NEW k \in Nat, NEW s \in Smaller(C, k), s # {}
      PROVE  k > 0 /\ next[s] \in s /\ s \in SUBSET C /\ s \ {next[s]} \in Smaller(C, k - 1)
  <2>1. s \in SUBSET C /\ next[s] \in s
    BY <1>2 DEF Smaller
  <2>2. IsFiniteSet(s) /\ Cardinality(s) \in Nat /\ Cardinality(s) <= k
    BY <2>1, FS_Subset, FS_CardinalityType DEF Smaller
  <2>3. Cardinality(s) # 0
    BY <1>2, <2>2, FS_EmptySet
  <2>4. Cardinality(s \ {next[s]}) = Cardinality(s) - 1
    BY <2>1, <2>2, FS_RemoveElement
  <2> QED
    BY <2>1, <2>2, <2>3, <2>4 DEF Smaller
<1>3. SUFFICES ASSUME m \in T PROVE FALSE
  <2>1. PICK g : Good(g, m)
    BY <1>1, <1>3
  <2> QED
    BY <1>1, <2>1
<1>4. PICK k \in T : \A j \in T : k <= j
  BY <1>3, LeastNumber
<1>5. k # 0
  <2>1. SUFFICES ASSUME k = 0 PROVE FALSE
    OBVIOUS
  <2> DEFINE g == [s \in Smaller(C, 0) |-> base]
  <2>2. ASSUME NEW s \in Smaller(C, 0) PROVE s = {}
    <3>1. 0 \in Nat /\ ~(0 > 0)
      OBVIOUS
    <3> QED
      BY <1>2, <3>1
  <2>3. g = [s \in Smaller(C, 0) |-> IF s = {} THEN base ELSE step[<<g[s \ {next[s]}], next[s]>>]]
    BY <2>2
  <2>4. Good(g, 0)
    BY <2>2, <2>3 DEF Folds
  <2> QED
    BY <2>1, <2>4
<1>6. k \in Nat /\ k - 1 \in Nat /\ ~(k <= k - 1)
  BY <1>5
<1>7. PICK h : Good(h, k - 1)
  BY <1>4, <1>6
<1> DEFINE g == [s \in Smaller(C, k) |->
                  IF s = {} THEN base ELSE step[<<h[s \ {next[s]}], next[s]>>]]
<1>8. ASSUME NEW t \in Smaller(C, k - 1) PROVE g[t] = h[t]
  <2>1. t \in Smaller(C, k)
    <3>1. IsFiniteSet(t) /\ Cardinality(t) \in Nat
      BY FS_Subset, FS_CardinalityType DEF Smaller
    <3> QED
      BY <3>1, <1>6 DEF Smaller
  <2>2. h[t] = IF t = {} THEN base ELSE step[<<h[t \ {next[t]}], next[t]>>]
    BY <1>7 DEF Folds
  <2> QED
    BY <2>1, <2>2
<1>9. ASSUME NEW s \in Smaller(C, k)
      PROVE  /\ g[s] = IF s = {} THEN base ELSE step[<<g[s \ {next[s]}], next[s]>>]
             /\ g[s] \in W[s]
  <2>1. CASE s = {}
    BY <2>1
  <2>2. CASE s # {}
    <3>1. s \ {next[s]} \in Smaller(C, k - 1) /\ s \in SUBSET C
      BY <1>2, <1>6, <2>2
    <3>2. g[s \ {next[s]}] = h[s \ {next[s]}]
      BY <1>8, <3>1
    <3>3. h[s \ {next[s]}] \in W[s \ {next[s]}]
      BY <1>7, <3>1
    <3>4. step[<<h[s \ {next[s]}], next[s]>>] \in W[s]
      BY <2>2, <3>1, <3>3
    <3>5. g[s] = step[<<h[s \ {next[s]}], next[s]>>]
      BY <2>2
    <3> HIDE DEF g
    <3> QED
      BY <2>2, <3>2, <3>4, <3>5
  <2> QED
    BY <2>1, <2>2
<1>10. Good(g, k)
  <2>1. g = [s \in Smaller(C, k) |-> g[s]]
    OBVIOUS
  <2> HIDE DEF g
  <2> QED
    BY <1>9, <2>1 DEF Folds
<1> QED
  BY <1>4, <1>10

\* What holds of the empty set, and of a set when it holds of the set without
\* any one of its elements, holds of all finite sets.
LEMMA SubsetInduction ==
  ASSUME NEW C, IsFiniteSet(C), NEW Q, {} \in Q,
         \A s \in SUBSET C : s # {} /\ (\A x \in s : s \ {x} \in Q) => s \in Q
  PROVE  SUBSET C \subseteq Q
<1> DEFINE T == {k \in Nat : \E s \in SUBSET C : Cardinality(s) = k /\ s \notin Q}
<1>1. ASSUME NEW s \in SUBSET C PROVE IsFiniteSet(s) /\ Cardinality(s) \in Nat
  BY FS_Subset, FS_CardinalityType
<1>2. SUFFICES ASSUME T # {} PROVE FALSE
  BY <1>1
<1>3. PICK k \in T : \A j \in T : k <= j
  BY <1>2, LeastNumber
<1>4. PICK s \in SUBSET C : Cardinality(s) = k /\ s \notin Q
  BY <1>3
<1>5. s # {}
  BY <1>4
<1>6. ASSUME NEW x \in s PROVE s \ {x} \in Q
  <2> DEFINE t == s \ {x}
  <2>1. Cardinality(s) # 0
    BY <1>1, <1>5, FS_EmptySet
  <2>2. Cardinality(t) = Cardinality(s) - 1
    BY <1>1, FS_RemoveElement
  <2>3. k - 1 \in Nat /\ ~(k <= k - 1)
    BY <1>4, <2>1
  <2> QED
    BY <1>3, <1>4, <2>2, <2>3
<1> QED
  BY <1>4, <1>5, <1>6

\* A function of a finite set has finitely many values.
LEMMA ImageIsFinite ==
  ASSUME NEW D, IsFiniteSet(D), NEW f
  PROVE  IsFiniteSet({f[x] : x \in D})
<1> DEFINE g == [x \in D |-> f[x]]
           V == {f[x] : x \in D}
<1>1. g \in Surjection(D, V)
  BY DEF Surjection
<1> QED
  BY <1>1, FS_Surjection

(***************************************************************************)
(* Rates and loads.                                                        *)
(***************************************************************************)

Rates(rates) == IsFiniteSet(DOMAIN rates) /\ \A s \in DOMAIN rates : rates[s] \in Nat

LEMMA RateIs ==
  ASSUME NEW rates, Rates(rates), NEW s PROVE MessageRate(rates, s) \in Nat
<1> DEFINE D == DOMAIN rates
           n == Cardinality(D)
           Most(t) == 2 * Cardinality({x \in D : rates[x] <= rates[t]}) > n
           V == {rates[x] : x \in D}
           R == {rates[x] : x \in {t \in D : Most(t)}}
<1>1. SUFFICES ASSUME D # {} PROVE Min(R) \in Nat
  BY DEF MessageRate, Median, Rates
<1>2. V \subseteq Nat /\ V # {} /\ IsFiniteSet(V)
  BY <1>1, ImageIsFinite DEF Rates
<1>3. PICK m \in D : \A x \in D : rates[x] <= rates[m]
  BY <1>2, GreatestNumber
<1>4. Most(m)
  <2>1. {x \in D : rates[x] <= rates[m]} = D
    BY <1>3
  <2>2. n \in Nat /\ n # 0
    BY <1>1, FS_CardinalityType, FS_EmptySet DEF Rates
  <2>3. 2 * n > n
    BY <2>2
  <2> HIDE DEF D, n
  <2> QED
    BY <2>1, <2>3 DEF n
<1>5. R \in SUBSET V /\ R # {}
  <2> HIDE DEF Most
  <2> QED
    BY <1>4
<1>6. R \subseteq Nat /\ R # {} /\ IsFiniteSet(R)
  BY <1>2, <1>5, FS_Subset
<1> HIDE DEF R
<1> QED
  BY <1>6, MaxMinAre

\* The sum over a finite set of naturals is one.
LEMMA SumIs ==
  ASSUME NEW C, IsFiniteSet(C), NEW rates, Rates(rates)
  PROVE  SetLoad(rates, C) \in Nat
<1> DEFINE next == [s \in SUBSET C |-> CHOOSE x \in s : TRUE]
           step == [p \in Nat \X C |-> MessageRate(rates, p[2]) + p[1]]
           W == [s \in SUBSET C |-> Nat]
           Rule(h) == h = [s \in SUBSET C |->
                        IF s = {} THEN 0 ELSE MessageRate(rates, CHOOSE x \in s : TRUE)
                                                + h[s \ {CHOOSE x \in s : TRUE}]]
           it == CHOOSE h : Rule(h)
<1>1. SetLoad(rates, C) = it[C]
  BY DEF SetLoad, MapThenSumSet, MapThenFoldSet
<1>2. \A s \in SUBSET C : s # {} => next[s] \in s
  OBVIOUS
<1>3. \A s \in SUBSET C : s # {} =>
        \A v \in W[s \ {next[s]}] : step[<<v, next[s]>>] \in W[s]
  <2> SUFFICES ASSUME NEW s \in SUBSET C, s # {}, NEW v \in W[s \ {next[s]}]
               PROVE  step[<<v, next[s]>>] \in W[s]
    OBVIOUS
  <2>1. next[s] \in C /\ v \in Nat
    BY <1>2
  <2>2. step[<<v, next[s]>>] = MessageRate(rates, next[s]) + v
    BY <2>1
  <2>3. MessageRate(rates, next[s]) \in Nat
    BY RateIs
  <2> QED
    BY <2>1, <2>2, <2>3
<1>4. PICK g : Folds(g, SUBSET C, next, step, 0) /\ \A s \in SUBSET C : g[s] \in W[s]
  <2>1. 0 \in W[{}]
    OBVIOUS
  <2> HIDE DEF next, step, W
  <2> QED
    BY <1>2, <1>3, <2>1, FoldExists
<1>5. ASSUME NEW s \in SUBSET C
      PROVE  g[s] = IF s = {} THEN 0 ELSE MessageRate(rates, CHOOSE x \in s : TRUE)
                                           + g[s \ {CHOOSE x \in s : TRUE}]
  <2>1. CASE s = {}
    BY <1>4, <2>1 DEF Folds
  <2>2. CASE s # {}
    <3>1. g[s] = step[<<g[s \ {next[s]}], next[s]>>]
      BY <1>4, <2>2 DEF Folds
    <3>2. next[s] \in C /\ g[s \ {next[s]}] \in Nat
      BY <1>2, <1>4, <2>2
    <3> QED
      BY <2>2, <3>1, <3>2
  <2> QED
    BY <2>1, <2>2
<1>6. Rule(g)
  <2>1. g = [s \in SUBSET C |-> g[s]]
    BY <1>4 DEF Folds
  <2> QED
    BY <1>5, <2>1
<1>7. Rule(it)
  <2> HIDE DEF Rule
  <2> QED
    BY <1>6
<1> HIDE DEF it
<1> DEFINE Q == {s \in SUBSET C : it[s] \in Nat}
<1>8. {} \in Q
  BY <1>7
<1>9. ASSUME NEW s \in SUBSET C, s # {}, \A x \in s : s \ {x} \in Q
      PROVE  s \in Q
  <2> DEFINE x == CHOOSE x \in s : TRUE
  <2>1. x \in s
    BY <1>9
  <2>2. it[s] = MessageRate(rates, x) + it[s \ {x}]
    BY <1>7, <1>9
  <2>3. it[s \ {x}] \in Nat
    BY <1>9, <2>1
  <2>4. MessageRate(rates, x) \in Nat
    BY RateIs
  <2> QED
    BY <2>2, <2>3, <2>4
<1> HIDE DEF Rule
<1>10. SUBSET C \subseteq Q
  <2> HIDE DEF Q
  <2> QED
    BY <1>8, <1>9, SubsetInduction
<1> QED
  BY <1>1, <1>10

LEMMA CountIs ==
  /\ Count \in Nat /\ Count > 0 /\ Shards \subseteq Nat /\ Unassigned \notin Shards
  /\ Symbols \subseteq Nat /\ IsFiniteSet(Symbols) /\ IsFiniteSet(Shards) /\ 0 \in Shards
<1>1. Count \in Nat /\ Count > 0 /\ Count - 1 \in Int /\ 0 \in Int
  BY ShardingAssumption
<1>2. IsFiniteSet(0 .. Count - 1)
  BY <1>1, FS_Interval
<1> QED
  BY <1>1, <1>2, ShardingAssumption DEF Shards, Unassigned

LEMMA ShardIs ==
  ASSUME NEW a, NEW i
  PROVE  /\ Shard(a, i) \in SUBSET Symbols /\ IsFiniteSet(Shard(a, i))
         /\ Cardinality(Shard(a, i)) \in Nat
<1>1. Shard(a, i) \in SUBSET Symbols
  BY DEF Shard
<1> QED
  BY <1>1, CountIs, FS_Subset, FS_CardinalityType

LEMMA LoadsAre ==
  ASSUME NEW rates, Rates(rates), NEW a
  PROVE  Loads(rates, a) \in [Shards -> Nat] /\ Spread(Loads(rates, a)) \in Int
<1> DEFINE loads == Loads(rates, a)
           V == {loads[i] : i \in Shards}
<1>1. loads \in [Shards -> Nat]
  BY SumIs, ShardIs DEF Loads
<1>2. V \subseteq Nat /\ IsFiniteSet(V) /\ V # {}
  BY <1>1, CountIs, ImageIsFinite
<1>3. Spread(loads) = Max(V) - Min(V)
  BY <1>1 DEF Spread
<1> HIDE DEF V, loads
<1>4. Max(V) \in Nat /\ Min(V) \in Nat
  BY <1>2, MaxMinAre
<1> QED
  BY <1>1, <1>3, <1>4 DEF loads

(***************************************************************************)
(* The shards of new symbols.                                              *)
(***************************************************************************)

Assignments == [Symbols -> Shards \cup {Unassigned}]

\* The assignments of some of the instruments.
Within(ins) == {a \in Assignments : \A s \in Symbols : a[s] # Unassigned => s \in ins}

LEMMA RoomIs ==
  ASSUME NEW ins \in SUBSET Symbols
  PROVE  /\ Cardinality(ins) \in Nat /\ IsFiniteSet(ins) /\ MaxSymbols(ins) \in Nat
         /\ Cardinality(ins) < Count * MaxSymbols(ins)
<1> DEFINE n == Cardinality(ins)
           m == n + Count - 1
           q == m \div Count
<1>1. n \in Nat /\ IsFiniteSet(ins)
  BY CountIs, FS_Subset, FS_CardinalityType
<1>2. Count \in Nat /\ Count > 0 /\ m \in Nat /\ n <= m
  BY <1>1, CountIs
<1> HIDE DEF n, m
<1>3. \A c, x \in Nat : c > 0 => x \div c \in Nat /\ x < c * (x \div c + 1)
  <2> SUFFICES ASSUME NEW c \in Nat, NEW x \in Nat, c > 0
               PROVE  x \div c \in Nat /\ x < c * (x \div c + 1)
    OBVIOUS
  <2>1. x = c * (x \div c) + (x % c) /\ x % c \in 0 .. c - 1 /\ x \div c \in Nat
    OBVIOUS
  <2> QED
    BY <2>1
<1>4. q \in Nat /\ m < Count * (q + 1)
  BY <1>2, <1>3
<1>5. MaxSymbols(ins) = q + 1
  BY DEF MaxSymbols, m, n
<1> HIDE DEF q
<1>6. n < Count * (q + 1)
  BY <1>1, <1>2, <1>4
<1> QED
  BY <1>1, <1>4, <1>5, <1>6 DEF n

\* Some shard has room for one more.
LEMMA ShardHasRoom ==
  ASSUME NEW ins \in SUBSET Symbols, NEW a \in Within(ins)
  PROVE  \E i \in Shards : Cardinality(Shard(a, i)) < MaxSymbols(ins)
<1> DEFINE room == MaxSymbols(ins)
           U(k) == {s \in Symbols : a[s] \in 0 .. k - 1}
           T == {k \in Nat : k <= Count /\ Cardinality(U(k)) < k * room}
<1>1. SUFFICES ASSUME \A i \in Shards : ~(Cardinality(Shard(a, i)) < room) PROVE FALSE
  OBVIOUS
<1>2. /\ room \in Nat /\ Cardinality(ins) \in Nat /\ IsFiniteSet(ins)
      /\ Cardinality(ins) < Count * room
  BY RoomIs
<1> HIDE DEF room
<1>0. \A x, y \in Nat : x * y \in Nat
  OBVIOUS
<1>3. ASSUME NEW k PROVE IsFiniteSet(U(k)) /\ Cardinality(U(k)) \in Nat
  <2>1. U(k) \in SUBSET Symbols
    OBVIOUS
  <2> QED
    BY <2>1, CountIs, FS_Subset, FS_CardinalityType
<1>4. T = {}
  <2>1. SUFFICES ASSUME T # {} PROVE FALSE
    OBVIOUS
  <2>2. PICK k \in T : \A l \in T : k <= l
    BY <2>1, LeastNumber
  <2>3. k # 0
    <3>1. SUFFICES ASSUME k = 0 PROVE FALSE
      OBVIOUS
    <3>2. Cardinality(U(0)) < 0
      BY <1>2, <3>1
    <3> QED
      BY <1>3, <3>2
  <2>4. k - 1 \in Nat /\ ~(k <= k - 1) /\ k - 1 <= Count /\ k - 1 \in Shards
    BY <2>3, CountIs DEF Shards
  <2>5. Cardinality(U(k - 1)) >= (k - 1) * room
    <3>1. k - 1 \notin T
      BY <2>2, <2>4
    <3>2. ~(Cardinality(U(k - 1)) < (k - 1) * room)
      BY <2>4, <3>1
    <3>3. (k - 1) * room \in Nat /\ Cardinality(U(k - 1)) \in Nat
      BY <1>0, <1>2, <1>3, <2>4
    <3> HIDE DEF U
    <3> QED
      BY <3>2, <3>3
  <2>6. U(k) = U(k - 1) \cup Shard(a, k - 1) /\ U(k - 1) \cap Shard(a, k - 1) = {}
    <3>1. \A x : x \in 0 .. k - 1 <=> x \in 0 .. (k - 1) - 1 \/ x = k - 1
      BY <2>4
    <3>2. k - 1 \notin 0 .. (k - 1) - 1
      BY <2>4
    <3> QED
      BY <3>1, <3>2 DEF Shard
  <2> DEFINE p == Cardinality(U(k - 1))
             r == Cardinality(Shard(a, k - 1))
             t == Cardinality(U(k))
  <2>7. t = p + r
    <3>1. t = p + r - Cardinality(U(k - 1) \cap Shard(a, k - 1))
      BY <1>3, <2>6, ShardIs, FS_Union
    <3>2. Cardinality(U(k - 1) \cap Shard(a, k - 1)) = 0
      BY <2>6, FS_EmptySet
    <3> QED
      BY <1>3, <3>1, <3>2, ShardIs
  <2>8. p \in Nat /\ r \in Nat /\ r >= room /\ p >= (k - 1) * room /\ t < k * room
    <3>1. ~(r < room) /\ r \in Nat
      BY <1>1, <2>4, ShardIs
    <3>2. p \in Nat /\ t < k * room
      BY <1>3, <2>2
    <3> HIDE DEF r, p, t, U
    <3> QED
      BY <1>2, <2>5, <3>1, <3>2 DEF p
  <2>9. k * room = (k - 1) * room + room
    BY <1>2, <2>4
  <2> HIDE DEF p, r, t
  <2> QED
    BY <1>2, <2>4, <2>7, <2>8, <2>9
<1>5. U(Count) \in SUBSET ins
  <2> SUFFICES ASSUME NEW s \in U(Count) PROVE s \in ins
    OBVIOUS
  <2>1. a[s] # Unassigned
    BY CountIs DEF Shards
  <2> QED
    BY <2>1 DEF Within
<1>6. Cardinality(U(Count)) <= Cardinality(ins)
  BY <1>2, <1>5, FS_Subset
<1>7. ~(Cardinality(U(Count)) < Count * room)
  <2>1. Count \in Nat /\ Count <= Count
    BY CountIs
  <2> QED
    BY <1>4, <2>1
<1> DEFINE u == Cardinality(U(Count))
           n == Cardinality(ins)
           cr == Count * room
<1>8. u \in Nat /\ n \in Nat /\ cr \in Nat /\ u <= n /\ n < cr /\ ~(u < cr)
  <2>1. Count \in Nat
    BY CountIs
  <2>2. cr \in Nat
    BY <1>0, <1>2, <2>1
  <2>3. u \in Nat
    BY <1>3
  <2> HIDE DEF U
  <2> QED
    BY <1>2, <1>6, <1>7, <2>2, <2>3
<1> HIDE DEF u, n, cr
<1> QED
  BY <1>8

LEMMA PlaceIs ==
  ASSUME NEW rates, Rates(rates), NEW ins \in SUBSET Symbols, NEW a \in Within(ins), NEW s
  PROVE  \E b \in Shards : Place(rates, MaxSymbols(ins), a, s) = [a EXCEPT ![s] = b]
<1> DEFINE loads == Loads(rates, a)
           open == {i \in Shards : Cardinality(Shard(a, i)) < MaxSymbols(ins)}
           Best(i) == \A j \in open : loads[i] < loads[j] \/ (loads[i] = loads[j] /\ i <= j)
           b == CHOOSE i \in open : Best(i)
           L == {loads[i] : i \in open}
<1>1. loads \in [Shards -> Nat]
  BY LoadsAre
<1>2. open # {} /\ open \subseteq Shards
  BY ShardHasRoom
<1>3. Place(rates, MaxSymbols(ins), a, s) = [a EXCEPT ![s] = b]
  BY DEF Place
<1> HIDE DEF loads, open
<1>4. L \subseteq Nat /\ L # {}
  BY <1>1, <1>2
<1>5. PICK l \in L : \A m \in L : l <= m
  BY <1>4, LeastNumber
<1> DEFINE E == {i \in open : loads[i] = l}
<1>6. E \subseteq Nat /\ E # {}
  BY <1>2, <1>5, CountIs
<1>7. PICK i \in E : \A j \in E : i <= j
  BY <1>6, LeastNumber
<1>8. Best(i)
  <2> SUFFICES ASSUME NEW j \in open
               PROVE  loads[i] < loads[j] \/ (loads[i] = loads[j] /\ i <= j)
    OBVIOUS
  <2>1. loads[i] = l /\ l <= loads[j] /\ l \in Nat /\ loads[j] \in Nat
    BY <1>1, <1>2, <1>4, <1>5, <1>7
  <2>2. loads[j] = l => i <= j
    BY <1>7
  <2> QED
    BY <2>1, <2>2
<1>9. i \in open
  BY <1>7
<1>10. b \in open
  <2> HIDE DEF Best
  <2> QED
    BY <1>8, <1>9
<1> HIDE DEF b
<1> QED
  BY <1>2, <1>3, <1>10

LEMMA LightestIs ==
  ASSUME NEW rates, Rates(rates), NEW S \in SUBSET Symbols, S # {}
  PROVE  Lightest(rates, S) \in S
<1> DEFINE rate(x) == MessageRate(rates, x)
           R == {rate(x) : x \in S}
<1>1. ASSUME NEW x PROVE rate(x) \in Nat
  BY RateIs
<1>2. R \subseteq Nat /\ R # {}
  BY <1>1
<1>3. PICK r \in R : \A q \in R : r <= q
  BY <1>2, LeastNumber
<1> DEFINE E == {x \in S : rate(x) = r}
<1>4. E \subseteq Nat /\ E # {} /\ IsFiniteSet(E)
  <2>1. E \in SUBSET Symbols
    OBVIOUS
  <2>2. E \subseteq Nat /\ IsFiniteSet(E)
    BY <2>1, CountIs, FS_Subset
  <2>3. E # {}
    BY <1>3
  <2> QED
    BY <2>2, <2>3
<1>5. PICK m \in E : \A y \in E : y <= m
  BY <1>4, GreatestNumber
<1>6. ASSUME NEW x \in S \ {m} PROVE Heavier(rates, x, m)
  <2>1. r <= rate(x) /\ rate(x) \in Nat /\ rate(m) = r /\ r \in Nat
    BY <1>1, <1>3, <1>5
  <2>2. x \in Nat /\ m \in Nat /\ x # m
    BY CountIs
  <2>3. rate(x) = r => x <= m
    BY <1>5
  <2> QED
    BY <2>1, <2>2, <2>3 DEF Heavier
<1>7. m \in S
  BY <1>5
<1> QED
  BY <1>6, <1>7 DEF Lightest

\* The new symbols get a shard, and the others keep theirs.
LEMMA PlacedIs ==
  ASSUME NEW rates, Rates(rates), NEW ins \in SUBSET Symbols, NEW assign0 \in Assignments
  PROVE  /\ Placed(rates, assign0, ins) \in Within(ins)
         /\ \A s \in ins : Placed(rates, assign0, ins)[s] # Unassigned
         /\ \A s \in ins : assign0[s] # Unassigned => Placed(rates, assign0, ins)[s] = assign0[s]
<1> DEFINE kept == Kept(assign0, ins)
           room == MaxSymbols(ins)
           C == New(assign0, ins)
           next == [s \in SUBSET C |-> Lightest(rates, s)]
           step == [p \in Within(ins) \X C |-> Place(rates, room, p[1], p[2])]
           W == [s \in SUBSET C |-> {a \in Within(ins) : /\ \A x \in s : a[x] # Unassigned
                                                         /\ \A x \in Symbols \ C : a[x] = kept[x]}]
           Rule(h) == h = [s \in SUBSET C |->
                        IF s = {} THEN kept
                        ELSE Place(rates, room, h[s \ {Lightest(rates, s)}], Lightest(rates, s))]
           it == CHOOSE h : Rule(h)
<1>1. Placed(rates, assign0, ins) = it[C]
  BY DEF Placed, MapThenFoldSet
<1>2. C \in SUBSET ins /\ C \in SUBSET Symbols /\ IsFiniteSet(C)
  BY CountIs, FS_Subset DEF New
<1>3. \A s \in SUBSET C : s # {} => Lightest(rates, s) \in s
  BY <1>2, LightestIs
<1>4. ASSUME NEW s \in SUBSET C, s # {}, NEW v \in W[s \ {Lightest(rates, s)}]
      PROVE  Place(rates, room, v, Lightest(rates, s)) \in W[s]
  <2> DEFINE x == Lightest(rates, s)
  <2>1. x \in s /\ x \in C /\ x \in Symbols /\ x \in ins
    BY <1>2, <1>3, <1>4
  <2>2. v \in Within(ins) /\ \A y \in s \ {x} : v[y] # Unassigned
    OBVIOUS
  <2>3. \A y \in Symbols \ C : v[y] = kept[y]
    OBVIOUS
  <2>4. PICK b \in Shards : Place(rates, room, v, x) = [v EXCEPT ![x] = b]
    BY <2>2, PlaceIs
  <2> DEFINE w == [v EXCEPT ![x] = b]
  <2> HIDE DEF x, kept, C
  <2>5. b # Unassigned
    BY CountIs
  <2>6. v \in [Symbols -> Shards \cup {Unassigned}]
    BY <2>2 DEF Within, Assignments
  <2>7. w \in Within(ins)
    BY <2>1, <2>2, <2>6 DEF Within, Assignments
  <2>8. \A y \in s : w[y] # Unassigned
    BY <1>2, <2>1, <2>2, <2>5, <2>6
  <2>9. \A y \in Symbols \ C : w[y] = kept[y]
    BY <2>1, <2>3, <2>6
  <2> HIDE DEF w
  <2>10. w \in W[s]
    BY <2>7, <2>8, <2>9
  <2> QED
    BY <2>4, <2>10 DEF w, x
<1>5. kept \in W[{}]
  <2>1. kept \in Within(ins)
    BY DEF Kept, Within, Assignments
  <2> QED
    BY <2>1
<1>6. \A s \in SUBSET C : s # {} => next[s] \in s
  BY <1>3
<1>7. \A s \in SUBSET C : s # {} =>
        \A v \in W[s \ {next[s]}] : step[<<v, next[s]>>] \in W[s]
  <2> SUFFICES ASSUME NEW s \in SUBSET C, s # {}, NEW v \in W[s \ {next[s]}]
               PROVE  step[<<v, next[s]>>] \in W[s]
    OBVIOUS
  <2>1. next[s] = Lightest(rates, s) /\ next[s] \in C /\ v \in Within(ins)
    BY <1>6
  <2>2. step[<<v, next[s]>>] = Place(rates, room, v, Lightest(rates, s))
    BY <2>1
  <2> HIDE DEF step, W
  <2> QED
    BY <1>4, <2>1, <2>2
<1>8. PICK g : Folds(g, SUBSET C, next, step, kept) /\ \A s \in SUBSET C : g[s] \in W[s]
  <2> HIDE DEF next, step, W, kept, C
  <2> QED
    BY <1>2, <1>5, <1>6, <1>7, FoldExists
<1>9. ASSUME NEW s \in SUBSET C
      PROVE  g[s] = IF s = {} THEN kept
                    ELSE Place(rates, room, g[s \ {Lightest(rates, s)}], Lightest(rates, s))
  <2>1. CASE s = {}
    BY <1>8, <2>1 DEF Folds
  <2>2. CASE s # {}
    <3>1. g[s] = step[<<g[s \ {next[s]}], next[s]>>]
      BY <1>8, <2>2 DEF Folds
    <3>2. next[s] \in C /\ g[s \ {next[s]}] \in Within(ins) /\ next[s] = Lightest(rates, s)
      BY <1>6, <1>8, <2>2
    <3> QED
      BY <2>2, <3>1, <3>2
  <2> QED
    BY <2>1, <2>2
<1>10. Rule(g)
  <2>1. g = [s \in SUBSET C |-> g[s]]
    BY <1>8 DEF Folds
  <2> QED
    BY <1>9, <2>1
<1>11. Rule(it)
  <2> HIDE DEF Rule
  <2> QED
    BY <1>10
<1> HIDE DEF it
<1> DEFINE Q == {s \in SUBSET C : it[s] \in W[s]}
<1>12. {} \in Q
  BY <1>5, <1>11
<1>13. ASSUME NEW s \in SUBSET C, s # {}, \A x \in s : s \ {x} \in Q
       PROVE  s \in Q
  <2>1. it[s] = Place(rates, room, it[s \ {Lightest(rates, s)}], Lightest(rates, s))
    BY <1>11, <1>13
  <2>2. it[s \ {Lightest(rates, s)}] \in W[s \ {Lightest(rates, s)}]
    BY <1>3, <1>13
  <2> HIDE DEF W
  <2> QED
    BY <1>4, <1>13, <2>1, <2>2
<1>14. it[C] \in W[C]
  <2> HIDE DEF Q, C
  <2>1. \A s \in SUBSET C : s # {} /\ (\A x \in s : s \ {x} \in Q) => s \in Q
    BY <1>13
  <2>2. SUBSET C \subseteq Q
    BY <1>2, <1>12, <2>1, SubsetInduction
  <2>3. C \in Q
    BY <2>2
  <2> QED
    BY <2>3 DEF Q
<1>15. it[C] \in Within(ins) /\ (\A x \in C : it[C][x] # Unassigned)
       /\ \A x \in Symbols \ C : it[C][x] = kept[x]
  BY <1>14
<1> HIDE DEF W, next, step, Rule
<1> QED
  BY <1>1, <1>15 DEF Kept, New

(***************************************************************************)
(* Swaps.                                                                  *)
(***************************************************************************)

Lists == [assign : Assignments, at : [Symbols -> Nat], next : Nat]

\* The assignments of the same symbols.
Alike(a) == {b \in Assignments : \A s \in Symbols : b[s] # Unassigned <=> a[s] # Unassigned}

LEMMA SwappedIs ==
  ASSUME NEW lists \in Lists, NEW w \in Swaps(lists)
  PROVE  /\ Swapped(lists, w) \in Lists /\ Swapped(lists, w).assign \in Alike(lists.assign)
         /\ w[1] # w[2] /\ w[1] \in Symbols /\ w[2] \in Symbols
         /\ lists.assign[w[1]] # Unassigned /\ lists.assign[w[2]] # Unassigned
         /\ \A s \in Symbols : Swapped(lists, w).assign[s] # lists.assign[s] <=> s \in {w[1], w[2]}
<1> DEFINE a == lists.assign
           x == w[1]
           y == w[2]
           b == [a EXCEPT ![x] = a[y], ![y] = a[x]]
           at == [lists.at EXCEPT ![x] = lists.next, ![y] = lists.next]
<1>1. /\ a \in [Symbols -> Shards \cup {Unassigned}]
      /\ lists.at \in [Symbols -> Nat] /\ lists.next \in Nat
  BY DEF Lists, Assignments
<1>2. x \in Symbols /\ y \in Symbols /\ a[x] # Unassigned /\ a[x] < a[y]
  BY DEF Swaps
<1>3. Swapped(lists, w) = [assign |-> b, at |-> at, next |-> lists.next + 1]
  BY DEF Swapped
<1> HIDE DEF a, x, y
<1>4. a[x] \in Nat /\ a[y] \in Nat /\ a[y] # Unassigned /\ a[x] # a[y] /\ x # y
  <2>1. a[x] \in Shards /\ a[y] \in Shards \cup {-1} /\ Unassigned = -1
    BY <1>1, <1>2 DEF Unassigned
  <2>2. a[x] \in Nat /\ a[y] \in Int
    <3>1. Shards \subseteq Nat
      BY CountIs
    <3>2. a[x] \in Nat
      BY <2>1, <3>1
    <3>3. CASE a[y] \in Shards
      <4> DEFINE z == a[y]
      <4>1. z \in Nat
        BY <3>1, <3>3
      <4> HIDE DEF z
      <4>2. z \in Int
        BY <4>1
      <4> QED
        BY <3>2, <4>2 DEF z
    <3>4. CASE a[y] = -1
      BY <3>2, <3>4
    <3> QED
      BY <2>1, <3>3, <3>4
  <2>3. a[y] # -1
    BY <1>2, <2>2
  <2> QED
    BY <1>2, <2>1, <2>2, <2>3, CountIs
<1>5. b \in Assignments /\ at \in [Symbols -> Nat]
  BY <1>1, <1>2, <1>4, CountIs DEF Assignments
<1>6. \A s \in Symbols : b[s] = IF s = x THEN a[y] ELSE IF s = y THEN a[x] ELSE a[s]
  BY <1>1, <1>2
<1>7. b \in Alike(a) /\ \A s \in Symbols : b[s] # a[s] <=> s \in {x, y}
  BY <1>2, <1>4, <1>5, <1>6 DEF Alike
<1> HIDE DEF b, at
<1>8. Swapped(lists, w) \in Lists /\ Swapped(lists, w).assign = b
  BY <1>1, <1>3, <1>5 DEF Lists
<1> QED
  BY <1>2, <1>4, <1>7, <1>8 DEF a, x, y

\* A round swaps two symbols and lowers the spread, or does nothing.
LEMMA BestSwapIs ==
  ASSUME NEW rates, NEW lists
  PROVE  \/ BestSwap(rates, lists) = lists
         \/ \E w \in Swaps(lists) :
              /\ BestSwap(rates, lists) = Swapped(lists, w)
              /\ Spread(Loads(rates, Swapped(lists, w).assign)) < Spread(Loads(rates, lists.assign))
<1> DEFINE after == [w \in Swaps(lists) |-> Spread(Loads(rates, Swapped(lists, w).assign))]
           now == Spread(Loads(rates, lists.assign))
           best == {w \in Swaps(lists) :
                     /\ after[w] < now
                     /\ \A v \in Swaps(lists) \ {w} :
                          after[w] < after[v] \/ (after[w] = after[v] /\ First(lists, w, v))}
<1>1. BestSwap(rates, lists) = IF best = {} THEN lists ELSE Swapped(lists, CHOOSE w \in best : TRUE)
  BY DEF BestSwap
<1>2. SUFFICES ASSUME best # {}
      PROVE  \E w \in Swaps(lists) : BestSwap(rates, lists) = Swapped(lists, w) /\ after[w] < now
  BY <1>1
<1> DEFINE w == CHOOSE w \in best : TRUE
<1>3. w \in best
  BY <1>2
<1>4. w \in Swaps(lists) /\ after[w] < now
  BY <1>3
<1> HIDE DEF best, after, now, w
<1> QED
  BY <1>1, <1>2, <1>4 DEF w

\* The improvement of a first assignment is one of the same symbols.
LEMMA ImprovedIs ==
  ASSUME NEW rates, Rates(rates), NEW lists \in Lists
  PROVE  Improved(rates, lists) \in Lists /\ Improved(rates, lists).assign \in Alike(lists.assign)
<1> DEFINE n == Spread(Loads(rates, lists.assign))
           C == 1 .. n
           seq == [i \in C |-> i]
           V == {l \in Lists : l.assign \in Alike(lists.assign)}
           next == [s \in SUBSET C |-> Max(s)]
           step == [p \in V \X C |-> BestSwap(rates, p[1])]
           W == [s \in SUBSET C |-> V]
           Rule(h) == h = [s \in SUBSET DOMAIN seq |->
                        IF s = {} THEN lists ELSE BestSwap(rates, h[s \ {Max(s)}])]
           it == CHOOSE h : Rule(h)
<1>1. Improved(rates, lists) = it[DOMAIN seq]
  BY DEF Improved, FoldLeft, MapThenFoldSet
<1>2. DOMAIN seq = C
  OBVIOUS
<1>3. C \subseteq Nat /\ IsFiniteSet(C)
  BY LoadsAre, FS_Interval
<1> HIDE DEF C, seq
<1>4. ASSUME NEW s \in SUBSET C, s # {} PROVE Max(s) \in s
  BY <1>3, <1>4, FS_Subset, MaxMinAre
<1>5. ASSUME NEW l \in V PROVE BestSwap(rates, l) \in V
  <2>1. CASE BestSwap(rates, l) = l
    BY <2>1
  <2>2. ASSUME NEW w \in Swaps(l), BestSwap(rates, l) = Swapped(l, w) PROVE BestSwap(rates, l) \in V
    BY <2>2, SwappedIs DEF Alike
  <2> QED
    BY <2>1, <2>2, BestSwapIs
<1>6. lists \in V
  BY DEF Alike, Lists
<1>7. \A s \in SUBSET C : s # {} => next[s] \in s
  BY <1>4
<1>8. \A s \in SUBSET C : s # {} =>
        \A v \in W[s \ {next[s]}] : step[<<v, next[s]>>] \in W[s]
  <2> SUFFICES ASSUME NEW s \in SUBSET C, s # {}, NEW v \in W[s \ {next[s]}]
               PROVE  step[<<v, next[s]>>] \in W[s]
    OBVIOUS
  <2>1. next[s] \in C /\ v \in V
    BY <1>7
  <2> HIDE DEF V, next
  <2>2. step[<<v, next[s]>>] = BestSwap(rates, v)
    BY <2>1
  <2> QED
    BY <1>5, <2>1, <2>2
<1> HIDE DEF V
<1>9. PICK g : Folds(g, SUBSET C, next, step, lists) /\ \A s \in SUBSET C : g[s] \in W[s]
  <2>1. lists \in W[{}]
    BY <1>6
  <2> HIDE DEF next, step, W
  <2> QED
    BY <1>3, <1>7, <1>8, <2>1, FoldExists
<1>10. ASSUME NEW s \in SUBSET C
       PROVE  g[s] = IF s = {} THEN lists ELSE BestSwap(rates, g[s \ {Max(s)}])
  <2>1. CASE s = {}
    BY <1>9, <2>1 DEF Folds
  <2>2. CASE s # {}
    <3>1. g[s] = step[<<g[s \ {next[s]}], next[s]>>]
      BY <1>9, <2>2 DEF Folds
    <3>2. next[s] \in C /\ g[s \ {next[s]}] \in V /\ next[s] = Max(s)
      BY <1>7, <1>9, <2>2
    <3> QED
      BY <2>2, <3>1, <3>2
  <2> QED
    BY <2>1, <2>2
<1>11. Rule(g)
  <2>1. g = [s \in SUBSET C |-> g[s]]
    BY <1>9 DEF Folds
  <2> QED
    BY <1>2, <1>10, <2>1
<1>12. Rule(it)
  <2> HIDE DEF Rule
  <2> QED
    BY <1>11
<1> HIDE DEF it
<1> DEFINE Q == {s \in SUBSET C : it[s] \in V}
<1>13. {} \in Q
  BY <1>2, <1>6, <1>12
<1>14. \A s \in SUBSET C : s # {} /\ (\A x \in s : s \ {x} \in Q) => s \in Q
  <2> SUFFICES ASSUME NEW s \in SUBSET C, s # {}, \A x \in s : s \ {x} \in Q PROVE s \in Q
    OBVIOUS
  <2>1. it[s] = BestSwap(rates, it[s \ {Max(s)}])
    BY <1>2, <1>12
  <2>2. it[s \ {Max(s)}] \in V
    BY <1>4
  <2> QED
    BY <1>5, <2>1, <2>2
<1>15. C \in Q
  <2> HIDE DEF Q
  <2>1. SUBSET C \subseteq Q
    BY <1>3, <1>13, <1>14, SubsetInduction
  <2> QED
    BY <2>1
<1> QED
  BY <1>1, <1>2, <1>15 DEF V

(***************************************************************************)
(* What shards and rebalance give.                                         *)
(***************************************************************************)

\* The assignments of exactly these instruments.
Of(ins) == {a \in Assignments : \A s \in Symbols : a[s] # Unassigned <=> s \in ins}

\* shards: every instrument gets a shard, and those that had one keep it.
LEMMA AssignedIs ==
  ASSUME NEW rates, Rates(rates), NEW ins \in SUBSET Symbols, NEW old \in SUBSET Symbols,
         NEW a \in Of(old)
  PROVE  /\ Assigned(rates, a, ins) \in Of(ins)
         /\ \A s \in ins \cap old : Assigned(rates, a, ins)[s] = a[s]
<1> DEFINE placed == Placed(rates, a, ins)
           turn == [s \in Symbols |-> Cardinality({x \in ins : Heavier(rates, x, s)})]
           lists == Listed(placed, turn)
<1>1. a \in Assignments /\ \A s \in Symbols : a[s] # Unassigned <=> s \in old
  BY DEF Of
<1>2. /\ placed \in Within(ins) /\ \A s \in ins : placed[s] # Unassigned
      /\ \A s \in ins : a[s] # Unassigned => placed[s] = a[s]
  BY <1>1, PlacedIs
<1>3. placed \in Of(ins)
  BY <1>2 DEF Within, Of
<1>4. Assigned(rates, a, ins) = IF a = NoAssignment THEN Improved(rates, lists).assign ELSE placed
  BY DEF Assigned
<1> HIDE DEF placed
<1>5. lists \in Lists
  <2>1. ASSUME NEW s PROVE Cardinality({x \in ins : Heavier(rates, x, s)}) \in Nat
    <3>1. {x \in ins : Heavier(rates, x, s)} \in SUBSET Symbols
      OBVIOUS
    <3> QED
      BY <3>1, CountIs, FS_Subset, FS_CardinalityType
  <2>2. turn \in [Symbols -> Nat]
    BY <2>1
  <2>3. Cardinality(Symbols) \in Nat
    BY CountIs, FS_CardinalityType
  <2> HIDE DEF turn
  <2> QED
    BY <1>3, <2>2, <2>3 DEF Listed, Lists, Of
<1>6. lists.assign = placed
  BY DEF Listed
<1> HIDE DEF lists
<1>7. CASE a = NoAssignment
  <2>1. old = {}
    BY <1>1, <1>7 DEF NoAssignment
  <2>2. Improved(rates, lists).assign \in Of(ins)
    BY <1>3, <1>5, <1>6, ImprovedIs DEF Of, Alike
  <2> QED
    BY <1>4, <1>7, <2>1, <2>2
<1>8. CASE a # NoAssignment
  BY <1>1, <1>2, <1>3, <1>4, <1>8
<1> QED
  BY <1>7, <1>8

\* rebalance: two instruments change places for a lesser spread, or nothing does.
LEMMA RebalancedIs ==
  ASSUME NEW rates, NEW ins \in SUBSET Symbols, NEW a \in Of(ins),
         NEW b, b = Rebalanced(rates, a)
  PROVE  /\ b \in Of(ins)
         /\ b # a => /\ Spread(Loads(rates, b)) < Spread(Loads(rates, a))
                     /\ \E x, y \in ins : x # y /\ \A s \in Symbols : b[s] # a[s] <=> s \in {x, y}
<1> DEFINE lists == Listed(a, [s \in Symbols |-> s])
<1>1. SUFFICES ASSUME b # a
      PROVE  /\ b \in Of(ins) /\ Spread(Loads(rates, b)) < Spread(Loads(rates, a))
             /\ \E x, y \in ins : x # y /\ \A s \in Symbols : b[s] # a[s] <=> s \in {x, y}
  OBVIOUS
<1>2. b = BestSwap(rates, lists).assign
  BY <1>1 DEF Rebalanced
<1>3. lists.assign = a /\ lists \in Lists
  <2>1. Cardinality(Symbols) \in Nat /\ [s \in Symbols |-> s] \in [Symbols -> Nat]
    BY CountIs, FS_CardinalityType
  <2> QED
    BY <2>1 DEF Listed, Lists, Of
<1> HIDE DEF lists
<1>4. PICK w \in Swaps(lists) :
        /\ BestSwap(rates, lists) = Swapped(lists, w)
        /\ Spread(Loads(rates, Swapped(lists, w).assign)) < Spread(Loads(rates, lists.assign))
  BY <1>1, <1>2, <1>3, BestSwapIs
<1>5. /\ b \in Alike(a) /\ w[1] # w[2] /\ w[1] \in Symbols /\ w[2] \in Symbols
      /\ a[w[1]] # Unassigned /\ a[w[2]] # Unassigned
      /\ \A s \in Symbols : b[s] # a[s] <=> s \in {w[1], w[2]}
  BY <1>2, <1>3, <1>4, SwappedIs
<1>6. b \in Of(ins) /\ w[1] \in ins /\ w[2] \in ins
  BY <1>5 DEF Of, Alike
<1> QED
  BY <1>2, <1>3, <1>4, <1>5, <1>6

(***************************************************************************)
(* The types, and what the plan of an update is.                           *)
(***************************************************************************)

RateTables == UNION {[known -> Nat] : known \in SUBSET Symbols}
Gaps == [day : 0 .. MaxDay, symbols : SUBSET Symbols]
Todo == [members : SUBSET Symbols, gap : Gaps]
Ops == [by : {"none", "boundary", "membership", "reconcile", "rebalance"},
        stage : {"none", "add", "remove", "rollback", "orphan"},
        members : SUBSET Symbols, gap : Gaps, current : [Parts -> SUBSET Symbols],
        target : [Parts -> SUBSET Symbols], assign : Assignments, table : RateTables]

TypeInv ==
  /\ day \in 0 .. MaxDay /\ active \in SUBSET Symbols /\ instruments \in SUBSET Symbols
  /\ running \in BOOLEAN /\ parts \in [Parts -> SUBSET Symbols]
  /\ assign \in Of(instruments) /\ table \in RateTables
  /\ op \in Ops /\ boundary \in Todo /\ pending \in Todo /\ gaps \in SUBSET Gaps

\* An update has an owner; the sources run under one that was not orphaned, and
\* while a boundary waits.
StageInv ==
  /\ op.by = "none" => op = NoOp
  /\ op.stage = "none" => op.by = "none"
  /\ op # NoOp /\ op.stage # "orphan" => running
  /\ boundary # Nothing => running

ByMembers == op.by \in {"boundary", "membership"} /\ op.stage # "orphan"
ByRoutes == op.by \in {"reconcile", "rebalance"} /\ op.stage # "orphan"

\* The update of a universe gives each part the new members; one of the routes
\* distributes the instruments anew.
PlanInv ==
  /\ ByMembers => /\ op.assign \in Of(op.members) /\ op.target = PartsOf(op.members, op.assign)
                  /\ op.current[Market] = instruments /\ op.current[Oi] = instruments
  /\ ByRoutes => /\ op.assign \in Of(instruments)
                 /\ \A p \in Shards : op.target[p] = Shard(op.assign, p)
                 /\ \A p \in {Market, Oi} : op.current[p] = {} /\ op.target[p] = {}

BaseInv == TypeInv /\ StageInv /\ PlanInv

LEMMA RatesAre == \A r \in RateTables : Rates(r)
<1> SUFFICES ASSUME NEW r \in RateTables PROVE Rates(r)
  OBVIOUS
<1>1. PICK known \in SUBSET Symbols : r \in [known -> Nat]
  BY DEF RateTables
<1> QED
  BY <1>1, CountIs, FS_Subset DEF Rates

LEMMA TablesAre == Tables \subseteq RateTables
  BY SourcesAssumption DEF RateTables

LEMMA PartsAre ==
  /\ Shards \subseteq Parts /\ Market \in Parts /\ Oi \in Parts
  /\ Market \notin Shards /\ Oi \notin Shards /\ Market # Oi
  /\ \A p \in Parts : p \in Shards \/ p = Market \/ p = Oi
  BY CountIs DEF Shards, Parts, Market, Oi

LEMMA PartsOfAre ==
  ASSUME NEW ins \in SUBSET Symbols, NEW a \in Of(ins)
  PROVE  /\ PartsOf(ins, a) \in [Parts -> SUBSET Symbols]
         /\ PartsOf(ins, a)[Market] = ins /\ PartsOf(ins, a)[Oi] = ins
         /\ \A p \in Shards : PartsOf(ins, a)[p] = Shard(a, p)
         /\ ins = UNION {Shard(a, p) : p \in Shards}
<1>1. \A p : Shard(a, p) \in SUBSET Symbols
  BY ShardIs
<1>2. ins = UNION {Shard(a, p) : p \in Shards}
  <2>1. \A s \in Symbols : a[s] \in Shards \/ a[s] = Unassigned
    BY DEF Of, Assignments
  <2>2. \A s \in Symbols : s \in ins <=> a[s] \in Shards
    BY <2>1, CountIs DEF Of
  <2> QED
    BY <2>2 DEF Shard
<1> QED
  BY <1>1, <1>2, PartsAre DEF PartsOf

LEMMA NothingIs ==
  /\ NoGap \in Gaps /\ Nothing \in Todo /\ NoOp \in Ops /\ NoOp.by = "none" /\ NoOp.stage = "none"
  /\ NoAssignment \in Of({}) /\ NoOp.assign = NoAssignment
<1>1. 0 \in 0 .. MaxDay
  BY SourcesAssumption
<1>2. NoGap \in Gaps
  BY <1>1 DEF NoGap, Gaps
<1>3. NoAssignment \in Of({})
  BY DEF NoAssignment, Of, Assignments
<1>4. [s \in {} |-> 0] \in RateTables
  <2>1. [s \in {} |-> 0] \in [{} -> Nat] /\ {} \in SUBSET Symbols
    OBVIOUS
  <2> QED
    BY <2>1 DEF RateTables
<1>5. [p \in Parts |-> {}] \in [Parts -> SUBSET Symbols] /\ NoAssignment \in Assignments
  BY <1>3 DEF Of
<1>6. NoOp \in Ops
  BY <1>2, <1>4, <1>5 DEF NoOp, Ops
<1>7. Nothing \in Todo
  BY <1>2 DEF Nothing, Todo
<1> QED
  BY <1>2, <1>3, <1>6, <1>7 DEF NoOp

LEMMA InitBase == Init => BaseInv
<1> SUFFICES ASSUME Init PROVE BaseInv
  OBVIOUS
<1>1. Members \in SUBSET Symbols /\ 0 \in 0 .. MaxDay
  BY SourcesAssumption
<1>2. table \in RateTables /\ Rates(table)
  BY TablesAre, RatesAre DEF Init
<1>3. assign \in Of(instruments) /\ instruments = Members
  BY <1>1, <1>2, NothingIs, AssignedIs DEF Init
<1>4. parts \in [Parts -> SUBSET Symbols]
  BY <1>1, <1>3, PartsOfAre DEF Init
<1>5. TypeInv
  BY <1>1, <1>2, <1>3, <1>4, NothingIs DEF Init, TypeInv
<1>6. StageInv /\ PlanInv
  BY NothingIs DEF Init, StageInv, PlanInv, ByMembers, ByRoutes
<1> QED
  BY <1>5, <1>6 DEF BaseInv

(***************************************************************************)
(* The steps.                                                              *)
(***************************************************************************)

LEMMA OpIs ==
  ASSUME op \in Ops, NEW stage \in {"none", "add", "remove", "rollback", "orphan"},
         NEW next, next = [op EXCEPT !.stage = stage]
  PROVE  /\ next \in Ops /\ next.stage = stage /\ next.by = op.by /\ next.members = op.members
         /\ next.gap = op.gap /\ next.current = op.current /\ next.target = op.target
         /\ next.assign = op.assign /\ next.table = op.table
  BY DEF Ops

\* The growth of a phase, and the shrinking.
LEMMA GrownIs ==
  ASSUME op \in Ops
  PROVE  \A p \in Parts : /\ Expanded(p) \in SUBSET Symbols /\ op.current[p] \in SUBSET Symbols
                          /\ op.target[p] \in SUBSET Symbols
                          /\ Expanded(p) = op.current[p] \cup op.target[p]
  BY DEF Ops, Expanded

LEMMA ExpandIs ==
  ASSUME BaseInv, Expand
  PROVE  /\ parts' \in [Parts -> SUBSET Symbols]
         /\ \A p \in Parts : \/ parts'[p] = parts[p]
                             \/ /\ op.current[p] # op.target[p]
                                /\ parts'[p] = op.current[p] \cup op.target[p]
         /\ \/ op' = [op EXCEPT !.stage = "rollback"]
            \/ /\ op' = [op EXCEPT !.stage = "remove"]
               /\ \A p \in Parts : \/ parts'[p] = op.current[p] \cup op.target[p]
                                   \/ parts'[p] = parts[p] /\ op.target[p] \subseteq op.current[p]
         /\ op.stage = "add" /\ UNCHANGED <<Unphased, Uncommitted>>
<1> DEFINE more == {p \in Changed : Expanded(p) # op.current[p]}
           values == [p \in more |-> Grown(p)]
<1>1. PICK failed \in SUBSET more :
        /\ parts' = Updated(values, failed)
        /\ op' = [op EXCEPT !.stage = IF failed = {} THEN "remove" ELSE "rollback"]
  BY DEF Expand
<1>2. op \in Ops /\ parts \in [Parts -> SUBSET Symbols]
  BY DEF BaseInv, TypeInv
<1>3. more \in SUBSET Parts /\ values \in [more -> SUBSET Symbols]
  BY <1>2, GrownIs DEF Changed, Grown
<1>4. \A p \in more : /\ op.current[p] # op.target[p]
                       /\ values[p] = op.current[p] \cup op.target[p]
  BY DEF Grown, Expanded, Changed
<1>5. \A p \in Parts \ more : op.target[p] \subseteq op.current[p]
  BY <1>2, GrownIs DEF Changed
<1> HIDE DEF more, values
<1>6. /\ parts' \in [Parts -> SUBSET Symbols]
      /\ \A p \in Parts : parts'[p] = parts[p] \/ (p \in more /\ parts'[p] = values[p])
      /\ failed = {} => \A p \in more : parts'[p] = values[p]
  <2> DEFINE result == Updated(values, failed)
  <2>1. /\ result \in [Parts -> SUBSET Symbols]
        /\ \A p \in Parts : result[p] = parts[p] \/ (p \in more /\ result[p] = values[p])
        /\ failed = {} => \A p \in more : result[p] = values[p]
    BY <1>2, <1>3 DEF Updated
  <2> HIDE DEF result
  <2>2. parts' = result
    BY <1>1 DEF result
  <2> QED
    BY <2>1, <2>2
<1>7. \A p \in Parts : \/ parts'[p] = parts[p]
                       \/ /\ op.current[p] # op.target[p]
                          /\ parts'[p] = op.current[p] \cup op.target[p]
  BY <1>4, <1>6
<1>8. CASE failed = {}
  BY <1>1, <1>4, <1>5, <1>6, <1>7, <1>8 DEF Expand
<1>9. CASE failed # {}
  BY <1>1, <1>6, <1>7, <1>9 DEF Expand
<1> QED
  BY <1>8, <1>9

LEMMA RollBackIs ==
  ASSUME BaseInv, RollBack
  PROVE  /\ parts' \in [Parts -> SUBSET Symbols]
         /\ \A p \in Parts : \/ parts'[p] = parts[p]
                             \/ op.current[p] # op.target[p] /\ parts'[p] = op.current[p]
         /\ op.stage = "rollback" /\ Failed /\ UNCHANGED Unphased
<1> DEFINE more == {p \in Changed : Expanded(p) # op.current[p]}
           values == [p \in more |-> op.current[p]]
<1>1. PICK failed \in SUBSET more : parts' = Updated(values, failed)
  BY DEF RollBack
<1>2. op \in Ops /\ parts \in [Parts -> SUBSET Symbols]
  BY DEF BaseInv, TypeInv
<1>3. more \in SUBSET Parts /\ values \in [more -> SUBSET Symbols]
  BY <1>2, GrownIs DEF Changed
<1>4. \A p \in more : op.current[p] # op.target[p] /\ values[p] = op.current[p]
  BY DEF Changed
<1> HIDE DEF more, values
<1> DEFINE result == Updated(values, failed)
<1>5. /\ result \in [Parts -> SUBSET Symbols]
      /\ \A p \in Parts : result[p] = parts[p] \/ (p \in more /\ result[p] = values[p])
  BY <1>2, <1>3 DEF Updated
<1> HIDE DEF result
<1>6. parts' = result
  BY <1>1 DEF result
<1>7. \A p \in Parts : \/ result[p] = parts[p]
                       \/ op.current[p] # op.target[p] /\ result[p] = op.current[p]
  BY <1>4, <1>5
<1>8. op.stage = "rollback" /\ Failed /\ UNCHANGED Unphased
  BY DEF RollBack
<1> QED
  BY <1>5, <1>6, <1>7, <1>8

LEMMA ShrinkIs ==
  ASSUME BaseInv, Shrink
  PROVE  /\ parts' \in [Parts -> SUBSET Symbols]
         /\ \A p \in Parts : \/ parts'[p] = parts[p]
                             \/ op.current[p] # op.target[p] /\ parts'[p] = op.target[p]
         /\ \/ Failed
            \/ /\ Committed
               /\ \A p \in Parts : \/ parts'[p] = op.target[p]
                                   \/ parts'[p] = parts[p] /\ op.current[p] \subseteq op.target[p]
         /\ op.stage = "remove" /\ UNCHANGED Unphased
<1> DEFINE fewer == {p \in Changed : Expanded(p) # op.target[p]}
           values == [p \in fewer |-> op.target[p]]
<1>1. PICK failed \in SUBSET fewer :
        parts' = Updated(values, failed) /\ IF failed = {} THEN Committed ELSE Failed
  BY DEF Shrink
<1>2. op \in Ops /\ parts \in [Parts -> SUBSET Symbols]
  BY DEF BaseInv, TypeInv
<1>3. fewer \in SUBSET Parts /\ values \in [fewer -> SUBSET Symbols]
  BY <1>2, GrownIs DEF Changed
<1>4. \A p \in fewer : op.current[p] # op.target[p] /\ values[p] = op.target[p]
  BY DEF Changed
<1>8. \A p \in Parts \ fewer : op.current[p] \subseteq op.target[p]
  BY <1>2, GrownIs DEF Changed
<1> HIDE DEF fewer, values
<1> DEFINE result == Updated(values, failed)
<1>5. /\ result \in [Parts -> SUBSET Symbols]
      /\ \A p \in Parts : result[p] = parts[p] \/ (p \in fewer /\ result[p] = values[p])
  BY <1>2, <1>3 DEF Updated
<1>9. ASSUME failed = {}, NEW p \in Parts
      PROVE  (p \in fewer /\ result[p] = values[p]) \/ (p \notin fewer /\ result[p] = parts[p])
  <2>1. DOMAIN values = fewer
    BY <1>3
  <2>2. result[p] = IF p \in fewer THEN values[p] ELSE parts[p]
    BY <1>9, <2>1 DEF Updated
  <2> QED
    BY <2>2
<1>10. \A p \in Parts : \/ result[p] = parts[p]
                        \/ op.current[p] # op.target[p] /\ result[p] = op.target[p]
  BY <1>4, <1>5
<1>11. ASSUME failed = {}, NEW p \in Parts
       PROVE  \/ result[p] = op.target[p]
              \/ result[p] = parts[p] /\ op.current[p] \subseteq op.target[p]
  BY <1>4, <1>8, <1>9, <1>11
<1> HIDE DEF result
<1>6. parts' = result
  BY <1>1 DEF result
<1> QED
  <2>1. /\ op.stage = "remove" /\ UNCHANGED Unphased
        /\ (failed = {} \/ Failed) /\ (failed # {} \/ Committed)
    BY <1>1 DEF Shrink
  <2>2. parts' \in [Parts -> SUBSET Symbols]
    BY <1>5, <1>6
  <2>3. CASE failed = {}
    BY <1>6, <1>10, <1>11, <2>1, <2>2, <2>3
  <2>4. CASE failed # {}
    BY <1>6, <1>10, <2>1, <2>2, <2>4
  <2> QED
    BY <2>3, <2>4

\* What is left when an update has failed, or was carried out.
LEMMA FailedIs ==
  ASSUME BaseInv, Failed
  PROVE  /\ op' = NoOp /\ UNCHANGED <<instruments, assign, table, gaps>>
         /\ boundary' \in {Nothing, boundary} /\ pending' \in Todo
<1>1. op \in Ops /\ boundary \in Todo /\ pending \in Todo
  BY DEF BaseInv, TypeInv
<1>2. [members |-> op.members, gap |-> op.gap] \in Todo
  BY <1>1 DEF Ops, Todo
<1> QED
  BY <1>1, <1>2, NothingIs DEF Failed, BoundaryOver

LEMMA CommittedIs ==
  ASSUME BaseInv, Committed, op.stage # "orphan"
  PROVE  /\ op' = NoOp /\ assign' = op.assign /\ table' = op.table /\ table' \in RateTables
         /\ instruments' \in SUBSET Symbols /\ assign' \in Of(instruments')
         /\ boundary' \in {Nothing, boundary} /\ pending' \in Todo /\ gaps' \in SUBSET Gaps
<1>1. op \in Ops /\ boundary \in Todo /\ pending \in Todo /\ gaps \in SUBSET Gaps
      /\ instruments \in SUBSET Symbols
  BY DEF BaseInv, TypeInv
<1>2. op.members \in SUBSET Symbols /\ op.table \in RateTables
  BY <1>1 DEF Ops
<1>3. boundary' \in {Nothing, boundary} /\ pending' \in Todo /\ gaps' \in SUBSET Gaps
  BY <1>1, NothingIs DEF Committed, BoundaryOver, TakesOff
<1>4. instruments' \in SUBSET Symbols /\ op.assign \in Of(instruments')
  BY <1>1, <1>2 DEF Committed, BaseInv, PlanInv, ByMembers, ByRoutes
<1> QED
  BY <1>2, <1>3, <1>4 DEF Committed

\* An update that ends leaves the types.
LEMMA DoneBase ==
  ASSUME BaseInv, op' = NoOp, UNCHANGED Unphased, parts' \in [Parts -> SUBSET Symbols],
         instruments' \in SUBSET Symbols, assign' \in Of(instruments'), table' \in RateTables,
         boundary' \in {Nothing, boundary}, pending' \in Todo, gaps' \in SUBSET Gaps
  PROVE  BaseInv'
<1>1. TypeInv'
  BY NothingIs DEF BaseInv, TypeInv, Unphased
<1>2. StageInv' /\ PlanInv'
  BY NothingIs DEF BaseInv, StageInv, PlanInv, ByMembers, ByRoutes, Unphased
<1> QED
  BY <1>1, <1>2 DEF BaseInv

LEMMA UpdatingBase ==
  ASSUME BaseInv, Updating PROVE BaseInv'
<1>1. CASE Expand
  <2>1. PICK stage \in {"remove", "rollback"} : op' = [op EXCEPT !.stage = stage]
    BY <1>1, ExpandIs
  <2>2. /\ op' \in Ops /\ op'.stage = stage /\ op'.by = op.by /\ op'.members = op.members
        /\ op'.gap = op.gap /\ op'.current = op.current /\ op'.target = op.target
        /\ op'.assign = op.assign /\ op'.table = op.table
    BY <2>1, OpIs DEF BaseInv, TypeInv
  <2>3. TypeInv'
    BY <1>1, <2>2, ExpandIs DEF BaseInv, TypeInv, Unphased, Uncommitted
  <2>4. running /\ op.stage = "add" /\ op.by # "none" /\ UNCHANGED <<Unphased, Uncommitted>>
    BY <1>1, ExpandIs, NothingIs DEF BaseInv, StageInv
  <2>5. StageInv'
    BY <2>2, <2>4 DEF BaseInv, StageInv, Unphased, Uncommitted
  <2>6. PlanInv'
    BY <2>2, <2>4 DEF BaseInv, PlanInv, ByMembers, ByRoutes, Unphased, Uncommitted
  <2> QED
    BY <2>3, <2>5, <2>6 DEF BaseInv
<1>2. CASE RollBack
  BY <1>2, RollBackIs, FailedIs, DoneBase DEF BaseInv, TypeInv
<1>3. CASE Shrink
  <2>1. CASE Failed
    BY <1>3, <2>1, ShrinkIs, FailedIs, DoneBase DEF BaseInv, TypeInv
  <2>2. CASE Committed
    BY <1>3, <2>2, ShrinkIs, CommittedIs, DoneBase
  <2> QED
    BY <1>3, <2>1, <2>2, ShrinkIs
<1>4. CASE Orphaned
  BY <1>4, FailedIs, DoneBase DEF Orphaned, BaseInv, TypeInv
<1> QED
  BY <1>1, <1>2, <1>3, <1>4 DEF Updating

\* The plan of an update is one of its members' shards.
LEMMA PlanBase ==
  ASSUME BaseInv, NEW by \in {"boundary", "membership"}, NEW members \in SUBSET Symbols,
         NEW gap \in Gaps, running, op = NoOp,
         Plan(by, members, gap, Assigned(table, assign, members)),
         UNCHANGED <<Unplanned, table, boundary, pending, rebalances>>
  PROVE  BaseInv'
<1> DEFINE a == Assigned(table, assign, members)
           current == [p \in Parts |-> IF p \in Shards THEN parts[p] ELSE instruments]
<1>1. /\ table \in RateTables /\ Rates(table) /\ assign \in Of(instruments)
      /\ instruments \in SUBSET Symbols /\ parts \in [Parts -> SUBSET Symbols]
  BY RatesAre DEF BaseInv, TypeInv
<1>2. a \in Of(members)
  BY <1>1, AssignedIs
<1>3. a \in Assignments /\ PartsOf(members, a) \in [Parts -> SUBSET Symbols]
  BY <1>2, PartsOfAre DEF Of
<1>4. op' = [by |-> by, stage |-> "add", members |-> members, gap |-> gap, assign |-> a,
             table |-> table, current |-> current, target |-> PartsOf(members, a)]
  BY DEF Plan
<1>5. current \in [Parts -> SUBSET Symbols] /\ current[Market] = instruments
      /\ current[Oi] = instruments
  BY <1>1, PartsAre
<1> HIDE DEF a, current
<1>6. op' \in Ops
  BY <1>1, <1>3, <1>4, <1>5 DEF Ops
<1>7. TypeInv'
  BY <1>6 DEF BaseInv, TypeInv, Unplanned
<1>8. StageInv'
  BY <1>4 DEF BaseInv, StageInv, Unplanned
<1>9. PlanInv'
  BY <1>2, <1>4, <1>5 DEF PlanInv, ByMembers, ByRoutes, Unplanned
<1> QED
  BY <1>7, <1>8, <1>9 DEF BaseInv

LEMMA RoutesBase ==
  ASSUME BaseInv, NEW by \in {"reconcile", "rebalance"}, NEW a \in Of(instruments),
         NEW rates \in RateTables, running, op = NoOp, RoutesOnly(by, a, rates),
         UNCHANGED <<Unplanned, table, boundary, pending>>
  PROVE  BaseInv'
<1> DEFINE current == [p \in Parts |-> IF p \in Shards THEN parts[p] ELSE {}]
           target == [p \in Parts |-> IF p \in Shards THEN Shard(a, p) ELSE {}]
<1>1. instruments \in SUBSET Symbols /\ parts \in [Parts -> SUBSET Symbols]
  BY DEF BaseInv, TypeInv
<1>2. /\ op' \in Ops /\ op'.by = by /\ op'.stage = "add" /\ op'.assign = a
      /\ op'.current = current /\ op'.target = target
  <2>1. op' = [NoOp EXCEPT !.by = by, !.stage = "add", !.assign = a, !.table = rates,
                           !.current = current, !.target = target]
    BY DEF RoutesOnly
  <2>2. current \in [Parts -> SUBSET Symbols] /\ target \in [Parts -> SUBSET Symbols]
    BY <1>1, ShardIs
  <2>3. a \in Assignments /\ NoOp \in Ops
    BY NothingIs DEF Of
  <2> HIDE DEF current, target
  <2> QED
    BY <2>1, <2>2, <2>3 DEF Ops
<1>3. TypeInv'
  BY <1>2 DEF BaseInv, TypeInv, Unplanned
<1>4. StageInv'
  BY <1>2 DEF BaseInv, StageInv, Unplanned
<1>5. PlanInv'
  BY <1>2, PartsAre DEF PlanInv, ByMembers, ByRoutes, Unplanned
<1> QED
  BY <1>3, <1>4, <1>5 DEF BaseInv

LEMMA BaseNext ==
  ASSUME BaseInv, [Next]_vars PROVE BaseInv'
<1>1. /\ day \in 0 .. MaxDay /\ active \in SUBSET Symbols /\ instruments \in SUBSET Symbols
      /\ running \in BOOLEAN /\ parts \in [Parts -> SUBSET Symbols]
      /\ assign \in Of(instruments) /\ table \in RateTables /\ Rates(table)
      /\ op \in Ops /\ boundary \in Todo /\ pending \in Todo /\ gaps \in SUBSET Gaps
  BY RatesAre DEF BaseInv, TypeInv
<1>2. CASE UNCHANGED vars
  BY <1>2 DEF vars, BaseInv, TypeInv, StageInv, PlanInv, ByMembers, ByRoutes
<1>3. CASE Updating
  BY <1>3, UpdatingBase
<1>4. CASE BoundaryUpdates
  <2>1. boundary.members \in SUBSET Symbols /\ boundary.gap \in Gaps /\ running
    BY <1>1, <1>4 DEF Todo, BoundaryUpdates, BaseInv, StageInv
  <2> QED
    BY <1>4, <2>1, PlanBase DEF BoundaryUpdates
<1>5. CASE MembershipRetries
  <2>1. pending.members \in SUBSET Symbols /\ pending.gap \in Gaps
    BY <1>1 DEF Todo
  <2> QED
    BY <1>5, <2>1, PlanBase DEF MembershipRetries
<1>6. CASE Reconcile
  BY <1>1, <1>6, RoutesBase DEF Reconcile
<1>7. CASE Rebalance
  <2>1. PICK rates \in Tables :
          LET a == Rebalanced(rates, assign) IN
          IF a = assign THEN table' = rates /\ UNCHANGED op
          ELSE RoutesOnly("rebalance", a, rates) /\ UNCHANGED table
    BY <1>7 DEF Rebalance
  <2>2. rates \in RateTables
    BY TablesAre
  <2>3. Rebalanced(rates, assign) \in Of(instruments)
    BY <1>1, RebalancedIs
  <2>4. UNCHANGED <<Unplanned, boundary, pending>> /\ running /\ op = NoOp
    BY <1>7 DEF Rebalance
  <2>5. CASE table' = rates /\ UNCHANGED op
    <3>1. TypeInv'
      BY <1>1, <2>2, <2>4, <2>5 DEF TypeInv, Unplanned
    <3> QED
      BY <2>4, <2>5, <3>1 DEF BaseInv, StageInv, PlanInv, ByMembers, ByRoutes, Unplanned
  <2>6. CASE RoutesOnly("rebalance", Rebalanced(rates, assign), rates) /\ UNCHANGED table
    BY <2>2, <2>3, <2>4, <2>6, RoutesBase
  <2> QED
    BY <2>1, <2>5, <2>6
<1>8. CASE Stop
  <2>1. PICK stage \in {op.stage, "orphan"} :
          /\ op' = [op EXCEPT !.stage = stage]
          /\ stage = op.stage => op = NoOp \/ op.stage = "orphan"
    <3>1. CASE op = NoOp
      <4>1. op = [op EXCEPT !.stage = op.stage]
        BY <1>1 DEF Ops
      <4> QED
        BY <1>8, <3>1, <4>1 DEF Stop
    <3>2. CASE op # NoOp
      BY <1>8, <3>2 DEF Stop
    <3> QED
      BY <3>1, <3>2
  <2>2. stage \in {"none", "add", "remove", "rollback", "orphan"}
    BY <1>1 DEF Ops
  <2>3. /\ op' \in Ops /\ op'.stage = stage /\ op'.by = op.by /\ op'.members = op.members
        /\ op'.gap = op.gap /\ op'.current = op.current /\ op'.target = op.target
        /\ op'.assign = op.assign /\ op'.table = op.table
    BY <1>1, <2>1, <2>2, OpIs
  <2>4. TypeInv'
    BY <1>1, <1>8, <2>3 DEF Stop, TypeInv
  <2>5. StageInv'
    <3>1. CASE op = NoOp
      BY <1>8, <3>1, NothingIs DEF Stop, StageInv
    <3>2. CASE op # NoOp
      <4>1. op' = [op EXCEPT !.stage = "orphan"] /\ op.by # "none"
        BY <1>8, <3>2 DEF Stop, BaseInv, StageInv
      <4>2. op'.stage = "orphan" /\ op'.by # "none"
        BY <1>1, <2>3, <4>1 DEF Ops
      <4> QED
        BY <1>8, <4>2 DEF Stop, StageInv
    <3> QED
      BY <3>1, <3>2
  <2>6. PlanInv'
    <3>1. op.stage = "orphan" \/ op = NoOp \/ op'.stage = "orphan"
      BY <2>1, <2>3
    <3> QED
      BY <2>1, <2>3, <3>1, NothingIs DEF PlanInv, ByMembers, ByRoutes
  <2> QED
    BY <2>4, <2>5, <2>6 DEF BaseInv
<1>9. CASE Start
  <2>1. assign' \in Of(instruments') /\ instruments' = active
    BY <1>1, <1>9, AssignedIs DEF Start
  <2>2. parts' \in [Parts -> SUBSET Symbols]
    BY <1>1, <1>9, <2>1, PartsOfAre DEF Start
  <2>3. TypeInv'
    BY <1>1, <1>9, <2>1, <2>2 DEF Start, TypeInv
  <2>4. op = NoOp \/ op.stage = "orphan"
    BY <1>9 DEF Start, BaseInv, StageInv
  <2>5. StageInv' /\ PlanInv'
    BY <1>9, <2>4, NothingIs DEF Start, BaseInv, StageInv, PlanInv, ByMembers, ByRoutes
  <2> QED
    BY <2>3, <2>5 DEF BaseInv
<1>10. CASE Restart
  <2>1. table' \in RateTables /\ Rates(table')
    BY <1>10, TablesAre, RatesAre DEF Restart
  <2>2. assign' \in Of(instruments') /\ instruments' = active
    BY <1>1, <1>10, <2>1, NothingIs, AssignedIs DEF Restart
  <2>3. parts' \in [Parts -> SUBSET Symbols]
    BY <1>1, <1>10, <2>2, PartsOfAre DEF Restart
  <2>4. TypeInv'
    BY <1>1, <1>10, <2>1, <2>2, <2>3, NothingIs DEF Restart, TypeInv
  <2>5. StageInv' /\ PlanInv'
    BY <1>10, NothingIs DEF Restart, StageInv, PlanInv, ByMembers, ByRoutes
  <2> QED
    BY <2>4, <2>5 DEF BaseInv
<1>11. ASSUME NEW members \in Universes, Boundary(members) PROVE BaseInv'
  <2>1. members \in SUBSET Symbols
    BY SourcesAssumption
  <2> DEFINE gap == [day |-> day', symbols |-> (active \ members) \cup (members \ active)]
  <2>2. day' \in 0 .. MaxDay
    BY <1>1, <1>11, SourcesAssumption DEF Boundary
  <2>3. gap \in Gaps
    BY <1>1, <2>1, <2>2 DEF Gaps
  <2>4. /\ gaps' \in {gaps, gaps \cup {gap}}
        /\ boundary' \in {boundary, [members |-> members, gap |-> gap]}
    BY <1>11 DEF Boundary
  <2> HIDE DEF gap
  <2>5. gaps' \in SUBSET Gaps /\ boundary' \in Todo
    BY <1>1, <2>1, <2>3, <2>4 DEF Todo
  <2>6. /\ active' = members
        /\ UNCHANGED <<running, parts, instruments, assign, table, op, pending, bounds>>
        /\ (boundary' # boundary => running)
    BY <1>11 DEF Boundary
  <2>7. TypeInv'
    BY <1>1, <2>1, <2>2, <2>5, <2>6 DEF TypeInv
  <2>8. StageInv' /\ PlanInv'
    BY <2>6 DEF BaseInv, StageInv, PlanInv, ByMembers, ByRoutes
  <2> QED
    BY <2>7, <2>8 DEF BaseInv
<1> QED
  BY <1>2, <1>3, <1>4, <1>5, <1>6, <1>7, <1>8, <1>9, <1>10, <1>11 DEF Next

\* The types hold: every instrument has a shard, nothing else has, and every
\* part has known symbols.
THEOREM TypesAreCorrect == Spec => []TypeOK
<1>1. BaseInv => TypeOK
  <2> SUFFICES ASSUME BaseInv PROVE TypeOK
    OBVIOUS
  <2>1. /\ assign \in [Symbols -> Shards \cup {Unassigned}]
        /\ \A s \in Symbols : assign[s] # Unassigned <=> s \in instruments
    BY DEF BaseInv, TypeInv, Of, Assignments
  <2>2. Shards \cup {Unassigned} = -1 .. Count - 1
    BY CountIs DEF Shards, Unassigned
  <2>3. op.by \in {"none", "boundary", "membership", "reconcile", "rebalance"}
    BY DEF BaseInv, TypeInv, Ops
  <2> QED
    BY <2>1, <2>2, <2>3 DEF BaseInv, TypeInv, TypeOK
<1>2. BaseInv /\ [Next]_vars => BaseInv'
  BY BaseNext
<1> QED
  BY InitBase, <1>1, <1>2, PTL DEF Spec

(***************************************************************************)
(* The moves.                                                              *)
(***************************************************************************)

Moved == {s \in instruments \cap UNION {op'.target[p] : p \in Shards} :
            op'.assign[s] # assign[s]}

LEMMA PairIs ==
  ASSUME NEW x, NEW y, x # y PROVE Cardinality({x, y}) = 2
<1>1. Cardinality({x}) = 1 /\ IsFiniteSet({x})
  BY FS_Singleton
<1>2. {x, y} = {x} \cup {y} /\ y \notin {x}
  OBVIOUS
<1>3. Cardinality({x} \cup {y}) = Cardinality({x}) + 1
  BY <1>1, <1>2, FS_AddElement
<1> QED
  BY <1>1, <1>2, <1>3

LEMMA PlanMoves ==
  ASSUME BaseInv, NEW by \in {"boundary", "membership"}, NEW members \in SUBSET Symbols, NEW gap,
         Plan(by, members, gap, Assigned(table, assign, members))
  PROVE  Moved = {} /\ op'.by = by
<1> DEFINE a == Assigned(table, assign, members)
<1>1. Rates(table) /\ assign \in Of(instruments) /\ instruments \in SUBSET Symbols
  BY RatesAre DEF BaseInv, TypeInv
<1>2. a \in Of(members) /\ \A s \in members \cap instruments : a[s] = assign[s]
  BY <1>1, AssignedIs
<1>3. op'.by = by /\ op'.assign = a /\ op'.target = PartsOf(members, a)
  BY DEF Plan
<1> HIDE DEF a
<1>4. members = UNION {op'.target[p] : p \in Shards}
  BY <1>2, <1>3, PartsOfAre
<1> QED
  BY <1>2, <1>3, <1>4 DEF Moved

\* A rebalance is planned only to lower the spread of the loads and moves one
\* pair of symbols, a reconciliation and a new universe move no symbol that
\* stays (_improve_balance, shards).
THEOREM MovesAreAlwaysJustified == Spec => MovesAreJustified
<1> DEFINE Move ==
      (op = NoOp /\ op' # NoOp) =>
         IF op'.by = "rebalance"
         THEN /\ Spread(Loads(op'.table, op'.assign)) < Spread(Loads(op'.table, assign))
              /\ Cardinality(Moved) = 2
         ELSE Moved = {}
<1>1. ASSUME BaseInv, [Next]_vars, op = NoOp, op' # NoOp
      PROVE  IF op'.by = "rebalance"
             THEN /\ Spread(Loads(op'.table, op'.assign)) < Spread(Loads(op'.table, assign))
                  /\ Cardinality(Moved) = 2
             ELSE Moved = {}
  <2>1. /\ instruments \in SUBSET Symbols /\ assign \in Of(instruments)
        /\ boundary.members \in SUBSET Symbols /\ pending.members \in SUBSET Symbols
    BY <1>1 DEF BaseInv, TypeInv, Todo
  <2>2. CASE BoundaryUpdates
    BY <1>1, <2>1, <2>2, PlanMoves DEF BoundaryUpdates
  <2>3. CASE MembershipRetries
    BY <1>1, <2>1, <2>3, PlanMoves DEF MembershipRetries
  <2>4. CASE Reconcile
    <3>1. op'.by = "reconcile" /\ op'.assign = assign
      BY <2>4 DEF Reconcile, RoutesOnly, NoOp
    <3> QED
      BY <3>1 DEF Moved
  <2>5. CASE Rebalance
    <3>1. PICK rates \in Tables :
            LET a == Rebalanced(rates, assign) IN
            a # assign /\ RoutesOnly("rebalance", a, rates)
      BY <1>1, <2>5 DEF Rebalance
    <3> DEFINE a == Rebalanced(rates, assign)
    <3>2. /\ a \in Of(instruments) /\ a # assign
          /\ Spread(Loads(rates, a)) < Spread(Loads(rates, assign))
      BY <2>1, <3>1, RebalancedIs
    <3>3. PICK x, y \in instruments : x # y /\ \A s \in Symbols : a[s] # assign[s] <=> s \in {x, y}
      BY <2>1, <3>1, RebalancedIs
    <3>4. /\ op'.by = "rebalance" /\ op'.assign = a /\ op'.table = rates
          /\ op'.target = [p \in Parts |-> IF p \in Shards THEN Shard(a, p) ELSE {}]
      BY <3>1 DEF RoutesOnly, NoOp
    <3> HIDE DEF a
    <3>5. instruments = UNION {op'.target[p] : p \in Shards}
      <4>1. \A p \in Shards : op'.target[p] = Shard(a, p)
        BY <3>4, PartsAre
      <4>2. {op'.target[p] : p \in Shards} = {Shard(a, p) : p \in Shards}
        BY <4>1
      <4>3. instruments = UNION {Shard(a, p) : p \in Shards}
        BY <2>1, <3>2, PartsOfAre
      <4> QED
        BY <4>2, <4>3
    <3>6. Moved = {x, y}
      BY <2>1, <3>3, <3>4, <3>5 DEF Moved
    <3>7. Cardinality({x, y}) = 2
      BY <3>3, PairIs
    <3> QED
      BY <3>2, <3>4, <3>6, <3>7
  <2>6. CASE Updating
    <3>1. op.stage = "none"
      BY <1>1, NothingIs
    <3> QED
      BY <2>6, <3>1 DEF Updating, Expand, RollBack, Shrink, Orphaned
  <2>7. CASE Stop
    BY <1>1, <2>7 DEF Stop
  <2>8. CASE Start
    BY <1>1, <2>8 DEF Start
  <2>9. CASE Restart
    BY <1>1, <2>9 DEF Restart
  <2>10. ~\E members \in Universes : Boundary(members)
    BY <1>1 DEF Boundary
  <2>11. ~UNCHANGED vars
    BY <1>1 DEF vars
  <2> QED
    BY <1>1, <2>2, <2>3, <2>4, <2>5, <2>6, <2>7, <2>8, <2>9, <2>10, <2>11 DEF Next
<1>2. BaseInv /\ [Next]_vars => [Move]_vars
  BY <1>1
<1>3. BaseInv /\ [Next]_vars => BaseInv'
  BY BaseNext
<1>4. Spec => [][Move]_vars
  BY InitBase, <1>2, <1>3, PTL DEF Spec
<1>5. MovesAreJustified <=> [][Move]_vars
  BY DEF MovesAreJustified, Moved
<1> QED
  BY <1>4, <1>5

(***************************************************************************)
(* What is collected.                                                      *)
(***************************************************************************)

\* The symbols that none of these gaps marks.
Clear(some) == {s \in Symbols : \A g \in some : s \notin g.symbols}

BoundInv ==
  /\ stops \in Nat /\ stops <= MaxStops
  /\ ~running => stops > 0
  /\ pending # Nothing => day > 0
  /\ boundary.gap.day <= day /\ pending.gap.day <= day
  /\ \A g \in gaps : g.day <= day

\* A boundary that waits or is updated has the members of the active universe.
TodoInv ==
  /\ boundary # Nothing => boundary.members = active /\ day > 0
  /\ op.by = "boundary" => /\ op.stage # "orphan" /\ boundary # Nothing
                           /\ boundary = [members |-> op.members, gap |-> op.gap]
  /\ op.by = "membership" /\ op.stage # "orphan" =>
       pending # Nothing /\ pending = [members |-> op.members, gap |-> op.gap]

\* What no gap marks is in all universes or in none: in the active one and the
\* instruments; without the gap of the pending update in the active one and
\* the pending one; without the gap of the boundary in the instruments and the
\* pending one.
AgreeInv ==
  /\ running => \A s \in Clear(gaps) : s \in active <=> s \in instruments
  /\ pending # Nothing =>
       \A s \in Clear(gaps \ {pending.gap}) : s \in active <=> s \in pending.members
  /\ running /\ pending # Nothing =>
       \A s \in Clear(gaps \ {boundary.gap}) : s \in instruments <=> s \in pending.members

\* The instruments for which no gap will be left: those of the boundary and of
\* the pending update may be closed, the latter when its members are collected.
Owed ==
  {s \in instruments : \A g \in gaps : s \in g.symbols =>
                         g = boundary.gap \/ (g = pending.gap /\ s \in pending.members)}

\* They are in every part.  During an update a route has what it had before
\* and, once all are extended, what it will have; another part that was to be
\* extended has been.
PartInv ==
  /\ running => /\ \A p \in {Market, Oi} : Owed \subseteq parts[p]
                /\ Owed \subseteq UNION {parts[p] : p \in Shards}
  /\ ByMembers \/ ByRoutes =>
       /\ \A p \in Shards : op.current[p] \subseteq parts[p]
       /\ op.stage = "remove" => \A p \in Shards : op.target[p] \subseteq parts[p]
       /\ Owed \subseteq UNION {op.current[p] : p \in Shards}
  /\ ByMembers /\ op.stage = "remove" =>
       \A p \in {Market, Oi} : \/ op.target[p] \subseteq op.current[p]
                               \/ op.target[p] \subseteq parts[p]

CollectInv == BoundInv /\ TodoInv /\ AgreeInv /\ PartInv

LEMMA InitCollect == Init => CollectInv
<1> SUFFICES ASSUME Init PROVE CollectInv
  OBVIOUS
<1>1. Members \in SUBSET Symbols /\ Rates(table)
  BY SourcesAssumption, TablesAre, RatesAre DEF Init
<1>2. assign \in Of(Members)
  BY <1>1, NothingIs, AssignedIs DEF Init
<1>3. /\ parts[Market] = Members /\ parts[Oi] = Members
      /\ Members = UNION {parts[p] : p \in Shards}
  BY <1>1, <1>2, PartsOfAre DEF Init
<1>4. BoundInv /\ TodoInv /\ AgreeInv
  BY SourcesAssumption, NothingIs DEF Init, BoundInv, TodoInv, AgreeInv, Nothing, NoGap
<1>5. PartInv
  BY <1>3, NothingIs DEF Init, PartInv, Owed, ByMembers, ByRoutes
<1> QED
  BY <1>4, <1>5 DEF CollectInv

\* What no step touches.
LEMMA AgreeKept ==
  ASSUME AgreeInv, UNCHANGED <<active, running, instruments, gaps, boundary, pending>>
  PROVE  AgreeInv'
  BY DEF AgreeInv, Clear

LEMMA OwedKept ==
  ASSUME UNCHANGED <<instruments, gaps, boundary, pending>> PROVE Owed' = Owed
  BY DEF Owed

LEMMA NoGapIs == NoGap.symbols = {} /\ Nothing.gap = NoGap /\ Nothing.members = {} /\ NoGap.day = 0
  BY DEF NoGap, Nothing

LEMMA ExpandCollect ==
  ASSUME BaseInv, CollectInv, Expand PROVE CollectInv'
<1>1. /\ op.stage = "add" /\ UNCHANGED <<Unphased, Uncommitted>>
      /\ \A p \in Parts : \/ parts'[p] = parts[p]
                          \/ /\ op.current[p] # op.target[p]
                             /\ parts'[p] = op.current[p] \cup op.target[p]
  BY ExpandIs
<1>2. PICK stage \in {"remove", "rollback"} :
        /\ op' = [op EXCEPT !.stage = stage]
        /\ stage = "remove" =>
             \A p \in Parts : \/ parts'[p] = op.current[p] \cup op.target[p]
                              \/ parts'[p] = parts[p] /\ op.target[p] \subseteq op.current[p]
  BY ExpandIs
<1>3. /\ op'.stage = stage /\ op'.by = op.by /\ op'.members = op.members
      /\ op'.gap = op.gap /\ op'.current = op.current /\ op'.target = op.target
  BY <1>2, OpIs DEF BaseInv, TypeInv
<1>4. BoundInv' /\ AgreeInv' /\ Owed' = Owed
  BY <1>1, AgreeKept, OwedKept DEF CollectInv, BoundInv, Unphased, Uncommitted
<1>5. TodoInv'
  BY <1>1, <1>3 DEF CollectInv, TodoInv, Unphased, Uncommitted
<1>6. /\ running /\ op.by # "none" /\ (ByMembers \/ ByRoutes)
      /\ (ByMembers' <=> ByMembers) /\ (ByRoutes' <=> ByRoutes)
  BY <1>1, <1>3, NothingIs DEF BaseInv, StageInv, ByMembers, ByRoutes, TypeInv, Ops
<1>7. /\ Owed \subseteq instruments
      /\ \A p \in {Market, Oi} : Owed \subseteq parts[p]
      /\ \A p \in Shards : op.current[p] \subseteq parts[p]
      /\ Owed \subseteq UNION {op.current[p] : p \in Shards}
  BY <1>6 DEF CollectInv, PartInv, Owed
<1>8. \A p \in Shards : op.current[p] \subseteq parts'[p]
  BY <1>1, <1>7, PartsAre
<1>9. Owed \subseteq UNION {parts'[p] : p \in Shards}
  BY <1>7, <1>8
<1>10. \A p \in {Market, Oi} : Owed \subseteq parts'[p]
  <2>1. CASE ByMembers
    BY <1>1, <1>7, <2>1, PartsAre DEF BaseInv, PlanInv
  <2>2. CASE ByRoutes
    BY <1>1, <1>7, <2>2, PartsAre DEF BaseInv, PlanInv
  <2> QED
    BY <1>6, <2>1, <2>2
<1>11. stage = "remove" => \A p \in Shards : op.target[p] \subseteq parts'[p]
  BY <1>2, <1>7, PartsAre
<1>12. stage = "remove" =>
         \A p \in {Market, Oi} : \/ op.target[p] \subseteq op.current[p]
                                 \/ op.target[p] \subseteq parts'[p]
  BY <1>2, PartsAre
<1>13. PartInv'
  BY <1>3, <1>4, <1>6, <1>7, <1>8, <1>9, <1>10, <1>11, <1>12 DEF PartInv
<1> QED
  BY <1>4, <1>5, <1>13 DEF CollectInv

\* A failed update leaves the universes as they were: that of a boundary becomes
\* pending.
LEMMA FailedAgrees ==
  ASSUME BaseInv, CollectInv, Failed, UNCHANGED Unphased
  PROVE  BoundInv' /\ TodoInv' /\ AgreeInv' /\ Owed' \subseteq Owed
<1>1. op' = NoOp /\ op'.by = "none" /\ UNCHANGED <<instruments, gaps, Unphased>>
  BY NothingIs DEF Failed
<1>2. CASE op.by # "boundary"
  <2>1. UNCHANGED <<boundary, pending>>
    BY <1>2 DEF Failed
  <2>2. AgreeInv' /\ Owed' = Owed /\ BoundInv'
    BY <1>1, <2>1, AgreeKept, OwedKept DEF CollectInv, BoundInv, Unphased
  <2>3. TodoInv'
    BY <1>1, <2>1 DEF CollectInv, TodoInv, Unphased
  <2> QED
    BY <2>2, <2>3
<1>3. CASE op.by = "boundary"
  <2>1. /\ boundary' = Nothing /\ pending' = boundary /\ boundary # Nothing
        /\ boundary.members = active /\ day > 0
    BY <1>3 DEF CollectInv, TodoInv, Failed, BoundaryOver
  <2>2. BoundInv'
    BY <1>1, <2>1, NoGapIs DEF CollectInv, BoundInv, Unphased, BaseInv, TypeInv
  <2>3. TodoInv'
    BY <1>1, <2>1 DEF TodoInv
  <2>4. AgreeInv'
    <3>1. running' = running /\ active' = active
      BY DEF Unphased
    <3>2. Clear(gaps) = Clear(gaps \ {NoGap})
      BY NoGapIs DEF Clear
    <3> QED
      BY <1>1, <2>1, <3>1, <3>2, NoGapIs DEF CollectInv, AgreeInv
  <2>5. Owed' \subseteq Owed
    BY <1>1, <2>1, NoGapIs DEF Owed
  <2> QED
    BY <2>2, <2>3, <2>4, <2>5
<1> QED
  BY <1>2, <1>3

LEMMA RollBackCollect ==
  ASSUME BaseInv, CollectInv, RollBack PROVE CollectInv'
<1>1. /\ op.stage = "rollback" /\ Failed /\ UNCHANGED Unphased
      /\ \A p \in Parts : \/ parts'[p] = parts[p]
                          \/ op.current[p] # op.target[p] /\ parts'[p] = op.current[p]
  BY RollBackIs
<1>2. BoundInv' /\ TodoInv' /\ AgreeInv' /\ Owed' \subseteq Owed /\ op' = NoOp
  BY <1>1, FailedAgrees DEF Failed
<1>3. running /\ (ByMembers \/ ByRoutes)
  BY <1>1, NothingIs DEF BaseInv, StageInv, ByMembers, ByRoutes, TypeInv, Ops
<1>4. /\ Owed \subseteq instruments
      /\ \A p \in {Market, Oi} : Owed \subseteq parts[p]
      /\ \A p \in Shards : op.current[p] \subseteq parts[p]
      /\ Owed \subseteq UNION {op.current[p] : p \in Shards}
  BY <1>3 DEF CollectInv, PartInv, Owed
<1>5. \A p \in Shards : op.current[p] \subseteq parts'[p]
  BY <1>1, <1>4, PartsAre
<1>6. \A p \in {Market, Oi} : Owed \subseteq parts'[p]
  <2>1. CASE ByMembers
    BY <1>1, <1>4, <2>1, PartsAre DEF BaseInv, PlanInv
  <2>2. CASE ByRoutes
    BY <1>1, <1>4, <2>2, PartsAre DEF BaseInv, PlanInv
  <2> QED
    BY <1>3, <2>1, <2>2
<1>7. Owed \subseteq UNION {parts'[p] : p \in Shards}
  BY <1>4, <1>5
<1>8. PartInv'
  BY <1>2, <1>6, <1>7, NothingIs DEF PartInv, ByMembers, ByRoutes
<1> QED
  BY <1>2, <1>8 DEF CollectInv

\* What is owed in the removing phase is among the members of the update, or
\* the instruments that it distributes.
LEMMA OwedStay ==
  ASSUME BaseInv, CollectInv, op.stage = "remove"
  PROVE  /\ running /\ (ByMembers \/ ByRoutes)
         /\ ByMembers => /\ op.target[Market] = op.members /\ op.target[Oi] = op.members
                         /\ op.members = UNION {op.target[p] : p \in Shards}
                         /\ op.current[Market] = instruments /\ op.current[Oi] = instruments
         /\ ByRoutes => /\ instruments = UNION {op.target[p] : p \in Shards}
                        /\ \A p \in {Market, Oi} : op.current[p] = {} /\ op.target[p] = {}
         /\ op.by = "membership" => Owed \subseteq op.members
         /\ op.by = "boundary" =>
              \A s \in instruments : s \in Clear(gaps) => s \in op.members
<1>1. running /\ (ByMembers \/ ByRoutes)
  BY NothingIs DEF BaseInv, StageInv, ByMembers, ByRoutes, TypeInv, Ops
<1>2. /\ op.members \in SUBSET Symbols /\ instruments \in SUBSET Symbols
      /\ gaps \in SUBSET Gaps
  BY DEF BaseInv, TypeInv, Ops
<1>3. ByMembers => /\ op.target[Market] = op.members /\ op.target[Oi] = op.members
                   /\ op.members = UNION {op.target[p] : p \in Shards}
                   /\ op.current[Market] = instruments /\ op.current[Oi] = instruments
  <2>1. SUFFICES ASSUME ByMembers
                 PROVE  /\ op.target[Market] = op.members /\ op.target[Oi] = op.members
                        /\ op.members = UNION {op.target[p] : p \in Shards}
    BY DEF BaseInv, PlanInv
  <2>2. op.assign \in Of(op.members) /\ op.target = PartsOf(op.members, op.assign)
    BY <2>1 DEF BaseInv, PlanInv
  <2>3. \A p \in Shards : op.target[p] = Shard(op.assign, p)
    BY <1>2, <2>2, PartsOfAre
  <2>4. {op.target[p] : p \in Shards} = {Shard(op.assign, p) : p \in Shards}
    BY <2>3
  <2> QED
    BY <1>2, <2>2, <2>4, PartsOfAre
<1>4. ByRoutes => /\ instruments = UNION {op.target[p] : p \in Shards}
                  /\ \A p \in {Market, Oi} : op.current[p] = {} /\ op.target[p] = {}
  <2>1. SUFFICES ASSUME ByRoutes PROVE instruments = UNION {op.target[p] : p \in Shards}
    BY DEF BaseInv, PlanInv
  <2>2. /\ op.assign \in Of(instruments)
        /\ {op.target[p] : p \in Shards} = {Shard(op.assign, p) : p \in Shards}
    BY <2>1 DEF BaseInv, PlanInv
  <2>3. instruments = UNION {Shard(op.assign, p) : p \in Shards}
    BY <1>2, <2>2, PartsOfAre
  <2> QED
    BY <2>2, <2>3
<1>5. ASSUME op.by = "membership", NEW s \in Owed PROVE s \in op.members
  <2>1. /\ pending # Nothing /\ pending.gap = op.gap /\ pending.members = op.members
    BY <1>5 DEF CollectInv, TodoInv
  <2>2. CASE \E g \in gaps : s \in g.symbols /\ g = pending.gap /\ s \in pending.members
    BY <2>1, <2>2
  <2>3. CASE ~\E g \in gaps : s \in g.symbols /\ g = pending.gap /\ s \in pending.members
    <3>1. s \in instruments /\ \A g \in gaps : s \in g.symbols => g = boundary.gap
      BY <2>3 DEF Owed
    <3>2. s \in Clear(gaps \ {boundary.gap})
      BY <1>2, <3>1 DEF Clear
    <3> QED
      BY <1>1, <2>1, <3>1, <3>2 DEF CollectInv, AgreeInv
  <2> QED
    BY <2>2, <2>3
<1>6. ASSUME op.by = "boundary", NEW s \in instruments, s \in Clear(gaps) PROVE s \in op.members
  <2>1. op.members = active
    BY <1>6 DEF CollectInv, TodoInv
  <2> QED
    BY <1>1, <1>6, <2>1 DEF CollectInv, AgreeInv
<1> QED
  BY <1>1, <1>3, <1>4, <1>5, <1>6

\* An update that fails in its removing phase.
LEMMA ShrinkFailedCollect ==
  ASSUME BaseInv, CollectInv, Failed, UNCHANGED Unphased, op.stage = "remove",
         \A p \in Parts : \/ parts'[p] = parts[p]
                          \/ op.current[p] # op.target[p] /\ parts'[p] = op.target[p]
  PROVE  CollectInv'
<1>1. BoundInv' /\ TodoInv' /\ AgreeInv' /\ Owed' \subseteq Owed /\ op' = NoOp
  BY FailedAgrees DEF Failed
<1>2. running /\ (ByMembers \/ ByRoutes)
  BY OwedStay
<1>3. /\ Owed \subseteq instruments
      /\ \A p \in {Market, Oi} : Owed \subseteq parts[p]
      /\ \A p \in Shards : op.target[p] \subseteq parts[p]
  BY <1>2 DEF CollectInv, PartInv, Owed
<1>4. \A p \in Shards : op.target[p] \subseteq parts'[p]
  BY <1>3, PartsAre
<1>5. CASE ByRoutes
  <2>1. \A p \in {Market, Oi} : parts'[p] = parts[p]
    BY <1>5, OwedStay, PartsAre
  <2>2. Owed \subseteq UNION {parts'[p] : p \in Shards}
    BY <1>3, <1>4, <1>5, OwedStay
  <2>3. PartInv'
    BY <1>1, <1>3, <2>1, <2>2, NothingIs DEF PartInv, ByMembers, ByRoutes
  <2> QED
    BY <1>1, <2>3 DEF CollectInv
<1>6. CASE ByMembers
  <2>1. Owed' \subseteq op.members
    <3>1. CASE op.by = "membership"
      BY <1>1, <3>1, OwedStay
    <3>2. CASE op.by = "boundary"
      <4>1. /\ boundary' = Nothing /\ pending' = [members |-> op.members, gap |-> op.gap]
            /\ instruments' = instruments /\ gaps' = gaps
        BY <3>2 DEF Failed, BoundaryOver
      <4>2. SUFFICES ASSUME NEW s \in Owed', s \notin op.members PROVE FALSE
        OBVIOUS
      <4>3. \A g \in gaps : s \notin g.symbols
        BY <4>1, <4>2, NoGapIs DEF Owed
      <4>4. s \in instruments /\ s \in Symbols
        BY <4>1, <4>2 DEF Owed, BaseInv, TypeInv
      <4> QED
        BY <3>2, <4>2, <4>3, <4>4, OwedStay DEF Clear
    <3> QED
      BY <1>6, <3>1, <3>2 DEF ByMembers
  <2>2. \A p \in {Market, Oi} : Owed' \subseteq parts'[p]
    BY <1>1, <1>3, <1>6, <2>1, OwedStay, PartsAre
  <2>3. Owed' \subseteq UNION {parts'[p] : p \in Shards}
    BY <1>4, <1>6, <2>1, OwedStay
  <2>4. PartInv'
    BY <1>1, <2>2, <2>3, NothingIs DEF PartInv, ByMembers, ByRoutes
  <2> QED
    BY <1>1, <2>4 DEF CollectInv
<1> QED
  BY <1>2, <1>5, <1>6

\* An update that is carried out.
LEMMA CommittedAgrees ==
  ASSUME BaseInv, CollectInv, Committed, UNCHANGED Unphased, op.stage = "remove"
  PROVE  /\ BoundInv' /\ TodoInv' /\ AgreeInv'
         /\ instruments' = (IF ByMembers THEN op.members ELSE instruments)
         /\ instruments' = instruments => Owed' \subseteq Owed
<1>1. op' = NoOp /\ op'.by = "none" /\ UNCHANGED Unphased
  BY NothingIs DEF Committed
<1>2. gaps \in SUBSET Gaps /\ instruments \in SUBSET Symbols
  BY DEF BaseInv, TypeInv
<1>3. CASE op.by = "boundary"
  <2>1. /\ boundary' = Nothing /\ pending' = pending /\ instruments' = op.members
        /\ boundary # Nothing /\ op.members = active /\ op.gap = boundary.gap
        /\ gaps' = (IF pending = Nothing THEN gaps \ {boundary.gap} ELSE gaps)
    BY <1>3 DEF Committed, BoundaryOver, CollectInv, TodoInv
  <2>2. BoundInv'
    BY <1>1, <2>1, NoGapIs DEF CollectInv, BoundInv, Unphased, BaseInv, TypeInv
  <2>3. TodoInv'
    BY <1>1, <2>1 DEF TodoInv
  <2>4. AgreeInv'
    <3>1. active' = active /\ running' = running
      BY DEF Unphased
    <3>2. ASSUME pending # Nothing, NEW s \in Clear(gaps \ {pending.gap})
          PROVE  s \in active <=> s \in pending.members
      BY <3>2 DEF CollectInv, AgreeInv
    <3>3. Clear(gaps \ {NoGap}) \subseteq Clear(gaps \ {pending.gap})
      BY NoGapIs DEF Clear
    <3> QED
      BY <2>1, <3>1, <3>2, <3>3, NoGapIs DEF AgreeInv
  <2>5. instruments' = instruments => Owed' \subseteq Owed
    BY <2>1, NoGapIs DEF Owed
  <2> QED
    BY <1>3, <2>1, <2>2, <2>3, <2>4, <2>5, OwedStay DEF ByMembers, ByRoutes
<1>4. CASE op.by = "membership"
  <2>1. /\ boundary' = boundary /\ pending' = Nothing /\ instruments' = op.members
        /\ pending # Nothing /\ pending.members = op.members /\ pending.gap = op.gap
        /\ gaps' = gaps \ {pending.gap}
    BY <1>4, OwedStay DEF Committed, TakesOff, CollectInv, TodoInv, ByMembers, ByRoutes
  <2>2. BoundInv'
    BY <1>1, <2>1, NoGapIs DEF CollectInv, BoundInv, Unphased, BaseInv, TypeInv
  <2>3. TodoInv'
    BY <1>1, <2>1 DEF CollectInv, TodoInv, Unphased
  <2>4. AgreeInv'
    BY <2>1 DEF CollectInv, AgreeInv, Unphased
  <2>5. instruments' = instruments => Owed' \subseteq Owed
    BY <2>1, NoGapIs DEF Owed
  <2> QED
    BY <1>4, <2>1, <2>2, <2>3, <2>4, <2>5, OwedStay DEF ByMembers, ByRoutes
<1>5. CASE op.by \in {"reconcile", "rebalance"}
  <2>1. UNCHANGED <<instruments, boundary, pending, gaps>>
    BY <1>5 DEF Committed
  <2>2. AgreeInv' /\ Owed' = Owed /\ BoundInv'
    BY <1>1, <2>1, AgreeKept, OwedKept DEF CollectInv, BoundInv, Unphased
  <2>3. TodoInv'
    BY <1>1, <2>1 DEF CollectInv, TodoInv, Unphased
  <2> QED
    BY <1>5, <2>1, <2>2, <2>3 DEF ByMembers
<1> QED
  BY <1>3, <1>4, <1>5, OwedStay DEF ByMembers, ByRoutes

LEMMA ShrinkCommittedCollect ==
  ASSUME BaseInv, CollectInv, Committed, UNCHANGED Unphased, op.stage = "remove",
         \A p \in Parts : \/ parts'[p] = parts[p]
                          \/ op.current[p] # op.target[p] /\ parts'[p] = op.target[p],
         \A p \in Parts : \/ parts'[p] = op.target[p]
                          \/ parts'[p] = parts[p] /\ op.current[p] \subseteq op.target[p]
  PROVE  CollectInv'
<1>1. /\ BoundInv' /\ TodoInv' /\ AgreeInv' /\ op' = NoOp
      /\ instruments' = (IF ByMembers THEN op.members ELSE instruments)
      /\ instruments' = instruments => Owed' \subseteq Owed
  BY CommittedAgrees DEF Committed
<1>2. running /\ (ByMembers \/ ByRoutes) /\ ~(ByMembers /\ ByRoutes)
  BY OwedStay DEF ByMembers, ByRoutes
<1>3. /\ Owed' \subseteq instruments' /\ Owed \subseteq instruments
      /\ \A p \in {Market, Oi} : Owed \subseteq parts[p]
      /\ \A p \in Shards : op.target[p] \subseteq parts[p]
  BY <1>2 DEF CollectInv, PartInv, Owed
<1>4. \A p \in Shards : op.target[p] \subseteq parts'[p]
  BY <1>3, PartsAre
<1>5. instruments' = UNION {op.target[p] : p \in Shards}
  BY <1>1, <1>2, OwedStay
<1>6. Owed' \subseteq UNION {parts'[p] : p \in Shards}
  BY <1>3, <1>4, <1>5
<1>7. ASSUME NEW p \in {Market, Oi} PROVE Owed' \subseteq parts'[p]
  <2>1. p \in Parts
    BY PartsAre
  <2>2. CASE ByRoutes
    <3>1. parts'[p] = parts[p]
      BY <2>1, <2>2, OwedStay
    <3> QED
      BY <1>1, <1>2, <1>3, <2>2, <3>1
  <2>3. CASE ByMembers
    <3>1. instruments' = op.members /\ op.target[p] = op.members /\ op.current[p] = instruments
      BY <1>1, <2>3, OwedStay
    <3>2. CASE parts'[p] = op.target[p]
      BY <1>3, <3>1, <3>2
    <3>3. CASE parts'[p] = parts[p] /\ op.target[p] = op.current[p]
      BY <1>1, <1>3, <3>1, <3>3
    <3>4. CASE parts'[p] = parts[p] /\ op.current[p] \subseteq op.target[p]
               /\ op.target[p] # op.current[p]
      <4>1. op.target[p] \subseteq parts[p]
        BY <2>3, <3>4 DEF CollectInv, PartInv
      <4> QED
        BY <1>3, <3>1, <3>4, <4>1
    <3> QED
      BY <2>1, <3>2, <3>3, <3>4
  <2> QED
    BY <1>2, <2>2, <2>3
<1>8. PartInv'
  BY <1>1, <1>6, <1>7, NothingIs DEF PartInv, ByMembers, ByRoutes
<1> QED
  BY <1>1, <1>8 DEF CollectInv

LEMMA UpdatingCollect ==
  ASSUME BaseInv, CollectInv, Updating PROVE CollectInv'
<1>1. CASE Expand
  BY <1>1, ExpandCollect
<1>2. CASE RollBack
  BY <1>2, RollBackCollect
<1>3. CASE Shrink
  BY <1>3, ShrinkIs, ShrinkFailedCollect, ShrinkCommittedCollect
<1>4. CASE Orphaned
  <2>1. Failed /\ UNCHANGED <<Unphased, parts>>
    BY <1>4 DEF Orphaned
  <2>2. BoundInv' /\ TodoInv' /\ AgreeInv' /\ Owed' \subseteq Owed /\ op' = NoOp
    BY <2>1, FailedAgrees DEF Failed
  <2>3. PartInv'
    BY <2>1, <2>2, NothingIs DEF CollectInv, PartInv, ByMembers, ByRoutes, Unphased
  <2> QED
    BY <2>2, <2>3 DEF CollectInv
<1> QED
  BY <1>1, <1>2, <1>3, <1>4 DEF Updating

\* An update that begins changes no part.
LEMMA BegunCollect ==
  ASSUME BaseInv, CollectInv, running, op = NoOp, op'.stage = "add",
         \A p \in Shards : op'.current[p] = parts[p],
         UNCHANGED <<Unplanned, boundary, pending>>,
         \/ op'.by \in {"reconcile", "rebalance"}
         \/ /\ op'.by = "boundary" /\ boundary # Nothing
            /\ boundary = [members |-> op'.members, gap |-> op'.gap]
         \/ /\ op'.by = "membership" /\ pending # Nothing
            /\ pending = [members |-> op'.members, gap |-> op'.gap]
  PROVE  CollectInv'
<1>1. /\ UNCHANGED <<day, active, running, parts, instruments, gaps, stops>>
      /\ UNCHANGED <<boundary, pending>>
  BY DEF Unplanned
<1>2. BoundInv' /\ AgreeInv' /\ Owed' = Owed
  BY <1>1, AgreeKept, OwedKept DEF CollectInv, BoundInv
<1>3. TodoInv'
  BY <1>1 DEF CollectInv, TodoInv
<1>4. /\ \A p \in {Market, Oi} : Owed \subseteq parts[p]
      /\ Owed \subseteq UNION {parts[p] : p \in Shards}
  BY DEF CollectInv, PartInv
<1>5. {op'.current[p] : p \in Shards} = {parts[p] : p \in Shards}
  OBVIOUS
<1>6. PartInv'
  BY <1>1, <1>2, <1>4, <1>5 DEF PartInv
<1> QED
  BY <1>2, <1>3, <1>6 DEF CollectInv

LEMMA PlanCollect ==
  ASSUME BaseInv, CollectInv, BoundaryUpdates \/ MembershipRetries PROVE CollectInv'
<1>1. boundary \in Todo /\ pending \in Todo
  BY DEF BaseInv, TypeInv
<1>2. /\ boundary = [members |-> boundary.members, gap |-> boundary.gap]
      /\ pending = [members |-> pending.members, gap |-> pending.gap]
  BY <1>1 DEF Todo
<1>3. /\ running /\ op = NoOp /\ UNCHANGED <<Unplanned, boundary, pending>>
      /\ boundary # Nothing \/ pending # Nothing
  BY DEF BoundaryUpdates, MembershipRetries, BaseInv, StageInv
<1>4. op'.stage = "add" /\ \A p \in Shards : op'.current[p] = parts[p]
  BY PartsAre DEF BoundaryUpdates, MembershipRetries, Plan
<1>5. \/ /\ op'.by = "boundary" /\ boundary # Nothing
         /\ op'.members = boundary.members /\ op'.gap = boundary.gap
      \/ /\ op'.by = "membership" /\ pending # Nothing
         /\ op'.members = pending.members /\ op'.gap = pending.gap
  BY DEF BoundaryUpdates, MembershipRetries, Plan
<1> QED
  BY <1>2, <1>3, <1>4, <1>5, BegunCollect

LEMMA RoutesCollect ==
  ASSUME BaseInv, CollectInv, Reconcile \/ Rebalance PROVE CollectInv'
<1>1. running /\ op = NoOp /\ UNCHANGED <<Unplanned, boundary, pending>>
  BY DEF Reconcile, Rebalance
<1>2. CASE UNCHANGED op
  <2>1. BoundInv' /\ AgreeInv' /\ Owed' = Owed
    BY <1>1, AgreeKept, OwedKept DEF CollectInv, BoundInv, Unplanned
  <2>2. TodoInv' /\ PartInv'
    BY <1>1, <1>2, <2>1 DEF CollectInv, TodoInv, PartInv, ByMembers, ByRoutes, Unplanned
  <2> QED
    BY <2>1, <2>2 DEF CollectInv
<1>3. CASE \E by \in {"reconcile", "rebalance"} : \E a, rates : RoutesOnly(by, a, rates)
  <2>1. /\ op'.by \in {"reconcile", "rebalance"} /\ op'.stage = "add"
        /\ op'.current = [p \in Parts |-> IF p \in Shards THEN parts[p] ELSE {}]
    BY <1>3 DEF RoutesOnly, NoOp
  <2>2. \A p \in Shards : op'.current[p] = parts[p]
    BY <2>1, PartsAre
  <2> QED
    BY <1>1, <2>1, <2>2, BegunCollect
<1> QED
  BY <1>2, <1>3 DEF Reconcile, Rebalance

\* The sources stop: nothing is promised until they start.
LEMMA StopCollect ==
  ASSUME BaseInv, CollectInv, Stop PROVE CollectInv'
<1>1. /\ boundary = Nothing /\ op.by # "boundary" /\ stops < MaxStops
      /\ stops' = stops + 1 /\ running' = FALSE
      /\ UNCHANGED <<day, active, boundary, pending, gaps>>
  BY DEF Stop
<1>2. op'.by # "boundary" /\ (op'.by = "none" \/ op'.stage = "orphan")
  <2>1. CASE op = NoOp
    BY <1>1, <2>1, NothingIs DEF Stop
  <2>2. CASE op # NoOp
    <3>1. op' = [op EXCEPT !.stage = "orphan"]
      BY <2>2 DEF Stop
    <3>2. op'.stage = "orphan" /\ op'.by = op.by
      BY <3>1, OpIs DEF BaseInv, TypeInv
    <3> QED
      BY <1>1, <3>2
  <2> QED
    BY <2>1, <2>2
<1>3. BoundInv'
  BY <1>1, SourcesAssumption DEF CollectInv, BoundInv
<1>4. TodoInv'
  BY <1>1, <1>2 DEF TodoInv
<1>5. AgreeInv' /\ PartInv'
  BY <1>1, <1>2 DEF CollectInv, AgreeInv, Clear, PartInv, ByMembers, ByRoutes
<1> QED
  BY <1>3, <1>4, <1>5 DEF CollectInv

\* They start with the members of the active universe.
LEMMA StartedIs ==
  ASSUME BaseInv, active' = active, assign' \in Of(active), instruments' = active,
         parts' = PartsOf(active, assign'), op'.by = "none" \/ op'.stage = "orphan"
  PROVE  PartInv'
<1>1. active \in SUBSET Symbols
  BY DEF BaseInv, TypeInv
<1>2. /\ PartsOf(active, assign')[Market] = active /\ PartsOf(active, assign')[Oi] = active
      /\ \A p \in Shards : PartsOf(active, assign')[p] = Shard(assign', p)
      /\ active = UNION {Shard(assign', p) : p \in Shards}
  BY <1>1, PartsOfAre
<1>3. {parts'[p] : p \in Shards} = {Shard(assign', p) : p \in Shards}
  BY <1>2
<1>4. Owed' \subseteq active
  BY DEF Owed
<1> QED
  BY <1>2, <1>3, <1>4 DEF PartInv, ByMembers, ByRoutes

LEMMA StartCollect ==
  ASSUME BaseInv, CollectInv, Start PROVE CollectInv'
<1>1. /\ boundary = Nothing /\ running' = TRUE /\ instruments' = active
      /\ parts' = PartsOf(active, assign')
      /\ UNCHANGED <<day, active, op, boundary, pending, gaps, stops>>
  BY DEF Start, bounds
<1>2. assign' \in Of(active)
  BY AssignedIs, RatesAre DEF Start, BaseInv, TypeInv
<1>3. op.by = "none" \/ op.stage = "orphan"
  BY NothingIs DEF Start, BaseInv, StageInv
<1>4. BoundInv' /\ TodoInv'
  BY <1>1 DEF CollectInv, BoundInv, TodoInv
<1>5. AgreeInv'
  <2>1. ASSUME pending # Nothing, NEW s \in Clear(gaps \ {NoGap})
        PROVE  s \in active <=> s \in pending.members
    <3>1. s \in Clear(gaps \ {pending.gap})
      BY NoGapIs DEF Clear
    <3> QED
      BY <2>1, <3>1 DEF CollectInv, AgreeInv
  <2>2. ASSUME pending # Nothing, NEW s \in Clear(gaps \ {pending.gap})
        PROVE  s \in active <=> s \in pending.members
    BY <2>2 DEF CollectInv, AgreeInv
  <2> QED
    BY <1>1, <2>1, <2>2, NoGapIs DEF AgreeInv
<1>6. PartInv'
  BY <1>1, <1>2, <1>3, StartedIs
<1> QED
  BY <1>4, <1>5, <1>6 DEF CollectInv

LEMMA RestartCollect ==
  ASSUME BaseInv, CollectInv, Restart PROVE CollectInv'
<1>1. /\ running' = TRUE /\ instruments' = active /\ parts' = PartsOf(active, assign')
      /\ op' = NoOp /\ boundary' = Nothing /\ pending' = Nothing /\ gaps' = {}
      /\ UNCHANGED <<day, active, stops>>
  BY DEF Restart, bounds
<1>2. assign' \in Of(active)
  BY AssignedIs, TablesAre, RatesAre, NothingIs DEF Restart, BaseInv, TypeInv
<1>3. BoundInv' /\ TodoInv' /\ AgreeInv'
  BY <1>1, NothingIs, NoGapIs DEF CollectInv, BoundInv, TodoInv, AgreeInv, BaseInv, TypeInv
<1>4. PartInv'
  BY <1>1, <1>2, NothingIs, StartedIs
<1> QED
  BY <1>3, <1>4 DEF CollectInv

\* Midnight: the day of the new gap is later than that of every other.
LEMMA BoundaryCollect ==
  ASSUME BaseInv, CollectInv, NEW members \in Universes, Boundary(members),
         running \/ pending = Nothing
  PROVE  CollectInv'
<1> DEFINE gap == [day |-> day', symbols |-> (active \ members) \cup (members \ active)]
<1>1. /\ day < MaxDay /\ boundary = Nothing /\ op.by # "boundary"
      /\ day' = day + 1 /\ active' = members
      /\ UNCHANGED <<running, parts, instruments, op, pending, stops>>
  BY DEF Boundary, bounds
<1>2. /\ day \in Nat /\ day' \in Nat /\ members \in SUBSET Symbols /\ active \in SUBSET Symbols
      /\ gaps \in SUBSET Gaps /\ pending \in Todo /\ boundary \in Todo
  BY <1>1, SourcesAssumption DEF BaseInv, TypeInv
<1>3. \A g \in gaps : g.day \in Nat
  BY <1>2, SourcesAssumption DEF Gaps
<1>4. pending.gap.day \in Nat /\ boundary.gap.day \in Nat
  BY <1>2, SourcesAssumption DEF Gaps, Todo
<1>5. CASE running /\ gap.symbols # {}
  <2>1. gaps' = gaps \cup {gap} /\ boundary' = [members |-> members, gap |-> gap]
    BY <1>5 DEF Boundary
  <2>2. gap.day = day' /\ gap.symbols = (active \ members) \cup (members \ active)
    OBVIOUS
  <2> HIDE DEF gap
  <2>3. gap \notin gaps /\ gap # pending.gap
    BY <1>1, <1>2, <1>3, <1>4, <2>2 DEF CollectInv, BoundInv
  <2>4. boundary'.members = members /\ boundary'.gap = gap
    BY <2>1
  <2>5. BoundInv'
    BY <1>1, <1>2, <1>3, <1>4, <2>1, <2>2, <2>4 DEF CollectInv, BoundInv
  <2>6. TodoInv'
    BY <1>1, <1>2, <2>4 DEF CollectInv, TodoInv
  <2>7. AgreeInv'
    <3>1. ASSUME NEW s \in Clear(gaps') PROVE s \in members <=> s \in instruments
      <4>1. s \in Clear(gaps) /\ s \notin gap.symbols
        BY <2>1 DEF Clear
      <4> QED
        BY <1>5, <2>2, <4>1 DEF CollectInv, AgreeInv
    <3>2. ASSUME pending # Nothing, NEW s \in Clear(gaps' \ {pending.gap})
          PROVE  s \in members <=> s \in pending.members
      <4>1. s \in Clear(gaps \ {pending.gap}) /\ s \notin gap.symbols
        BY <2>1, <2>3 DEF Clear
      <4> QED
        BY <2>2, <3>2, <4>1 DEF CollectInv, AgreeInv
    <3>3. ASSUME pending # Nothing, NEW s \in Clear(gaps' \ {gap})
          PROVE  s \in instruments <=> s \in pending.members
      <4>1. s \in Clear(gaps \ {boundary.gap})
        BY <2>1, <2>3 DEF Clear
      <4> QED
        BY <1>5, <3>3, <4>1 DEF CollectInv, AgreeInv
    <3> QED
      BY <1>1, <2>4, <3>1, <3>2, <3>3 DEF AgreeInv
  <2>8. Owed' \subseteq Owed
    BY <1>1, <2>1, <2>3, <2>4 DEF Owed
  <2>9. PartInv'
    BY <1>1, <2>8 DEF CollectInv, PartInv, ByMembers, ByRoutes
  <2> QED
    BY <2>5, <2>6, <2>7, <2>9 DEF CollectInv
<1>6. CASE ~(running /\ gap.symbols # {})
  <2>1. UNCHANGED <<gaps, boundary>>
    BY <1>6 DEF Boundary
  <2>2. BoundInv'
    BY <1>1, <1>2, <1>3, <1>4, <2>1 DEF CollectInv, BoundInv
  <2>3. TodoInv'
    BY <1>1, <2>1 DEF CollectInv, TodoInv
  <2>4. Owed' = Owed
    BY <1>1, <2>1, OwedKept
  <2>5. AgreeInv'
    <3>1. CASE running
      <4>1. active' = active
        BY <1>1, <1>2, <1>6, <3>1
      <4> QED
        BY <1>1, <2>1, <4>1, AgreeKept DEF CollectInv
    <3>2. CASE ~running
      BY <1>1, <3>2 DEF AgreeInv
    <3> QED
      BY <3>1, <3>2
  <2>6. PartInv'
    BY <1>1, <2>4 DEF CollectInv, PartInv, ByMembers, ByRoutes
  <2> QED
    BY <2>2, <2>3, <2>5, <2>6 DEF CollectInv
<1> QED
  BY <1>5, <1>6

\* A boundary comes while the sources are stopped and an update is pending, the
\* members of which it leaves as they are.
StaleBoundary == day' # day /\ ~running /\ pending # Nothing

LEMMA CollectNext ==
  ASSUME BaseInv, CollectInv, [Next]_vars, [~StaleBoundary]_vars PROVE CollectInv'
<1>1. CASE UNCHANGED vars
  BY <1>1 DEF vars, CollectInv, BoundInv, TodoInv, AgreeInv, Clear, PartInv, Owed, ByMembers,
              ByRoutes
<1>2. CASE Updating
  BY <1>2, UpdatingCollect
<1>3. CASE BoundaryUpdates \/ MembershipRetries
  BY <1>3, PlanCollect
<1>4. CASE Reconcile \/ Rebalance
  BY <1>4, RoutesCollect
<1>5. CASE Stop \/ Start \/ Restart
  BY <1>5, StopCollect, StartCollect, RestartCollect
<1>6. ASSUME NEW members \in Universes, Boundary(members) PROVE CollectInv'
  <2>1. day' # day
    BY <1>6, SourcesAssumption DEF Boundary, BaseInv, TypeInv
  <2>2. running \/ pending = Nothing
    BY <2>1 DEF StaleBoundary, vars
  <2> QED
    BY <1>6, <2>2, BoundaryCollect
<1> QED
  BY <1>1, <1>2, <1>3, <1>4, <1>5, <1>6 DEF Next

LEMMA CollectIsEnough ==
  ASSUME BaseInv, CollectInv PROVE UnmarkedAreCollected
<1> SUFFICES ASSUME running, NEW s \in active \ Marked PROVE Collected(s)
  BY DEF UnmarkedAreCollected
<1>1. s \in Symbols /\ \A g \in gaps : s \notin g.symbols
  BY DEF Marked, BaseInv, TypeInv
<1>2. s \in instruments
  BY <1>1 DEF CollectInv, AgreeInv, Clear
<1>3. s \in Owed
  BY <1>1, <1>2 DEF Owed
<1> QED
  BY <1>3 DEF CollectInv, PartInv, Collected

\* What no open gap marks is collected, whatever fails, is rolled back, is moved,
\* stops or restarts: unless a boundary comes while the sources are stopped and
\* an update is pending, nothing else takes it away.
THEOREM UnmarkedAreAlwaysCollected ==
  Spec /\ [][~StaleBoundary]_vars => []UnmarkedAreCollected
<1>1. Init => BaseInv /\ CollectInv
  BY InitBase, InitCollect
<1>2. BaseInv /\ CollectInv /\ [Next]_vars /\ [~StaleBoundary]_vars => BaseInv' /\ CollectInv'
  BY BaseNext, CollectNext
<1>3. BaseInv /\ CollectInv => UnmarkedAreCollected
  BY CollectIsEnough
<1> QED
  BY <1>1, <1>2, <1>3, PTL DEF Spec

\* With one boundary, or when the storage never stops the sources, there is no
\* such boundary.
THEOREM UnmarkedAreCollectedWithinBounds ==
  ASSUME MaxDay <= 1 \/ MaxStops = 0
  PROVE  Spec => []UnmarkedAreCollected
<1>1. BaseInv /\ CollectInv /\ [Next]_vars => [~StaleBoundary]_vars
  <2> SUFFICES ASSUME BaseInv, CollectInv, [Next]_vars, StaleBoundary PROVE FALSE
    OBVIOUS
  <2>1. day > 0 /\ stops > 0 /\ stops <= MaxStops /\ stops \in Nat /\ day \in Nat
    BY SourcesAssumption DEF StaleBoundary, CollectInv, BoundInv, BaseInv, TypeInv
  <2>2. PICK members \in Universes : Boundary(members)
    BY DEF StaleBoundary, Next, vars, Updating, Expand, RollBack, Shrink, Orphaned, Unphased,
           BoundaryUpdates, MembershipRetries, Reconcile, Rebalance, Unplanned, Stop, Start, Restart
  <2>3. day < MaxDay
    BY <2>2 DEF Boundary
  <2> QED
    BY <2>1, <2>3, SourcesAssumption
<1>2. BaseInv /\ CollectInv /\ [Next]_vars => BaseInv' /\ CollectInv'
  BY <1>1, BaseNext, CollectNext
<1>3. Init => BaseInv /\ CollectInv
  BY InitBase, InitCollect
<1>4. BaseInv /\ CollectInv => UnmarkedAreCollected
  BY CollectIsEnough
<1> QED
  BY <1>2, <1>3, <1>4, PTL DEF Spec
=============================================================================
